------------------------------- MODULE Broker -------------------------------
(***************************************************************************)
(* The scheduler's Broker (pkg/scheduler/broker.go) together with the part *)
(* of the Router (pkg/scheduler/router.go) every compile request crosses.  *)
(*                                                                         *)
(* A request is received on a consumerd's stream, entered in               *)
(* pendingRequests, possibly answered from the cache, handed over an       *)
(* unbuffered channel to a relay goroutine of some agent, from there to    *)
(* that agent's send goroutine, which moves it to inflightRequests and     *)
(* writes it to the agent's stream.  Whatever comes back crosses the       *)
(* unbuffered responseQueue to one goroutine that answers the consumerd.   *)
(* When an agent's stream context is done, cleanupAgent reports the        *)
(* agent's inflight requests as Defunct and they are routed again.         *)
(*                                                                         *)
(* A step of the model is what one goroutine does between two points where *)
(* another goroutine can act on the same state.  Registration of an agent  *)
(* is one step here; its own interleavings are the subject of              *)
(* AgentRegistry, and the life of a route is the subject of Router.        *)
(***************************************************************************)
EXTENDS Integers, FiniteSets

CONSTANTS
  Requests,        \* request IDs; uuid.NewString() makes every one fresh
  Consumerds,      \* consumerd streams
  Conns,           \* agent streams: a reconnecting agent uses another one
  Toolchains,      \* toolchain hashes
  Keys,            \* hashes of (toolchain, source, arguments)
  Owner,           \* [Requests -> Consumerds]: the consumerd that sends it
  TcOf,            \* [Requests -> Toolchains \cup {NoTc}]
  KeyOf,           \* [Requests -> Keys]
  UuidOf,          \* [Conns -> agent UUIDs]
  AgentTcs,        \* [Conns -> SUBSET Toolchains]
  Limit,           \* ConcurrentProcessLimit of every agent
  CacheConfigured, \* a cache client was given to NewBroker
  MayDisconnect,   \* agent and consumerd streams that may be lost
  NoReq, NoTc, NoConn, NoAgent, Absent

ASSUME BrokerAssumptions ==
  /\ Owner \in [Requests -> Consumerds]
  /\ TcOf \in [Requests -> Toolchains \cup {NoTc}]
  /\ KeyOf \in [Requests -> Keys]
  /\ AgentTcs \in [Conns -> SUBSET Toolchains]
  /\ Limit \in Nat
  /\ CacheConfigured \in BOOLEAN
  /\ MayDisconnect \subseteq Conns \cup Consumerds
  /\ NoReq \notin Requests /\ Absent \notin Requests /\ NoReq # Absent
  /\ NoTc \notin Toolchains
  /\ NoConn \notin Conns
  /\ NoAgent \notin Conns /\ Absent \notin Conns /\ NoAgent # Absent

VARIABLES
  conn,            \* context of an agent stream: "off", "live", "done"
  agentsMutex,     \* the stream whose cleanup holds Broker.agentsMutex
  avail,           \* tokens in Agent.AvailableTokens
  locked,          \* tokens in Agent.LockedTokens
  relay,           \* [conn][tc]: request held by the relay goroutine, NoReq
                   \*   while it selects, Absent before it starts or after
  snd, sndReq,     \* send goroutine: where it is, the request it carries
  rcv, rcvResp,    \* recv goroutine: where it is, the response it carries
  cln, clnReq,     \* cleanup goroutine and the Defunct response it carries
  todo, must,      \* keys its Range has not visited; keys it has to visit
  work,            \* [conn][request]: copies sent to the agent, unanswered
  cd, cdReq,       \* recv goroutine of a consumerd; the request it routes
  submitted,       \* requests received from a consumerd
  thr,             \* the goroutine inside routeNewRequest for a request
  outbox,          \* goroutines of routeNewRequest blocked on responseQueue
  pending,         \* keys of pendingRequests
  inflight,        \* inflightRequests: the agent, NoAgent (nil) or Absent
  respQ,           \* the response handleResponseQueue has received
  managed,         \* requests whose ManagedFields carry their hash
  cacheAvailable, cache, pushes,
  requestCount, completedTasks, failedTasks,
  sent, answer,    \* responses written to the consumerd, and the last one
  built,           \* keys an agent has compiled successfully (history)
  dpanics          \* DPanic calls that were reached

agentVars == <<conn, agentsMutex, cln, clnReq, todo, must>>
streamVars == <<avail, locked, relay, snd, sndReq, rcv, rcvResp, work>>
cdVars == <<cd, cdReq, submitted>>
tableVars == <<thr, outbox, pending, inflight, respQ>>
cacheVars == <<managed, cacheAvailable, cache, pushes, built>>
statVars == <<requestCount, completedTasks, failedTasks, sent, answer, dpanics>>
vars == <<agentVars, streamVars, cdVars, tableVars, cacheVars, statVars>>

Fails == {"Retry", "DoNotRetry"}          \* CompileResponse_Retry, by action
AgentResults == {"Success", "Fail"}       \* Fail: also InternalError
Results == AgentResults \cup Fails \cup {"Defunct"}
Responses == [id : Requests, result : Results]
NoResp == [id |-> NoReq, result |-> "none"]
RouteResults == {"Success"} \cup Fails    \* written by routeNewRequest itself

ThreadSteps == {"none", "start", "hook", "pull", "hit", "hitstore",
                "check", "select", "fail", "failstore"}
SendSteps == {"off", "token", "filter", "take", "store", "send", "exit"}

AgentTypes ==
  /\ conn \in [Conns -> {"off", "live", "done"}]
  /\ agentsMutex \in Conns \cup {NoConn}
  /\ cln \in [Conns -> {"off", "watch", "range", "done"}]
  /\ clnReq \in [Conns -> Requests \cup {NoReq}]
  /\ todo \in [Conns -> SUBSET Requests] /\ must \in [Conns -> SUBSET Requests]

StreamTypes ==
  /\ avail \in [Conns -> Nat] /\ locked \in [Conns -> Nat]
  /\ relay \in [Conns -> [Toolchains -> Requests \cup {NoReq, Absent}]]
  /\ snd \in [Conns -> SendSteps] /\ sndReq \in [Conns -> Requests \cup {NoReq}]
  /\ rcv \in [Conns -> {"off", "recv", "exit"}]
  /\ rcvResp \in [Conns -> Responses \cup {NoResp}]
  /\ work \in [Conns -> [Requests -> Nat]]

CdTypes ==
  /\ cd \in [Consumerds -> {"off", "live", "done", "exit"}]
  /\ cdReq \in [Consumerds -> Requests \cup {NoReq}]
  /\ submitted \subseteq Requests

TableTypes ==
  /\ thr \in [Requests -> ThreadSteps]
  /\ outbox \in [Requests -> [RouteResults -> Nat]]
  /\ pending \subseteq Requests
  /\ inflight \in [Requests -> Conns \cup {NoAgent, Absent}]
  /\ respQ \in Responses \cup {NoResp}

CacheTypes ==
  /\ managed \subseteq Requests
  /\ cacheAvailable \in BOOLEAN
  /\ cache \subseteq Keys /\ pushes \subseteq Keys /\ built \subseteq Keys

StatTypes ==
  /\ requestCount \in Int /\ completedTasks \in Nat /\ failedTasks \in Nat
  /\ sent \in [Requests -> Nat] /\ answer \in [Requests -> Results \cup {"none"}]
  /\ dpanics \subseteq {"run", "load", "hook", "token"}

\* Tables, channels, goroutines and counters have their types: no token pool,
\* blocked-goroutine count or task counter goes below zero.
TypeOK == AgentTypes /\ StreamTypes /\ CdTypes /\ TableTypes /\ CacheTypes /\ StatTypes

Init ==
  /\ conn = [s \in Conns |-> "off"]
  /\ agentsMutex = NoConn
  /\ avail = [s \in Conns |-> 0] /\ locked = [s \in Conns |-> 0]
  /\ relay = [s \in Conns |-> [t \in Toolchains |-> Absent]]
  /\ snd = [s \in Conns |-> "off"] /\ sndReq = [s \in Conns |-> NoReq]
  /\ rcv = [s \in Conns |-> "off"] /\ rcvResp = [s \in Conns |-> NoResp]
  /\ cln = [s \in Conns |-> "off"] /\ clnReq = [s \in Conns |-> NoReq]
  /\ todo = [s \in Conns |-> {}] /\ must = [s \in Conns |-> {}]
  /\ work = [s \in Conns |-> [r \in Requests |-> 0]]
  /\ cd = [c \in Consumerds |-> "off"] /\ cdReq = [c \in Consumerds |-> NoReq]
  /\ submitted = {}
  /\ thr = [r \in Requests |-> "none"]
  /\ outbox = [r \in Requests |-> [x \in RouteResults |-> 0]]
  /\ pending = {}
  /\ inflight = [r \in Requests |-> Absent]
  /\ respQ = NoResp
  /\ managed = {} /\ cacheAvailable = FALSE
  /\ cache = {} /\ pushes = {} /\ built = {}
  /\ requestCount = 0 /\ completedTasks = 0 /\ failedTasks = 0
  /\ sent = [r \in Requests |-> 0]
  /\ answer = [r \in Requests |-> "none"]
  /\ dpanics = {}

-----------------------------------------------------------------------------
(* Streams come and go.                                                    *)

\* NewAgentTaskStream once the toolchains have arrived, AddReceiver (one
\* relay goroutine per toolchain) and handleAgentStream (the token pool, the
\* send and recv goroutines), up to the start of the cleanup goroutine.
NewAgentTaskStream(s) ==
  /\ conn[s] = "off" /\ agentsMutex = NoConn
  /\ conn' = [conn EXCEPT ![s] = "live"]
  /\ relay' = [relay EXCEPT ![s] =
       [t \in Toolchains |-> IF t \in AgentTcs[s] THEN NoReq ELSE Absent]]
  /\ avail' = [avail EXCEPT ![s] = Limit]
  /\ snd' = [snd EXCEPT ![s] = "token"]
  /\ rcv' = [rcv EXCEPT ![s] = "recv"]
  /\ cln' = [cln EXCEPT ![s] = "watch"]
  /\ UNCHANGED <<agentsMutex, clnReq, todo, must, locked, sndReq, rcvResp, work,
                 cdVars, tableVars, cacheVars, statVars>>

\* The agent's stream context is cancelled.
Disconnect(s) ==
  /\ s \in MayDisconnect /\ conn[s] = "live"
  /\ conn' = [conn EXCEPT ![s] = "done"]
  /\ UNCHANGED <<agentsMutex, cln, clnReq, todo, must,
                 streamVars, cdVars, tableVars, cacheVars, statVars>>

NewConsumerdTaskStream(c) ==
  /\ cd[c] = "off"
  /\ cd' = [cd EXCEPT ![c] = "live"]
  /\ UNCHANGED <<agentVars, streamVars, cdReq, submitted, tableVars, cacheVars, statVars>>

ConsumerdDisconnect(c) ==
  /\ c \in MayDisconnect /\ cd[c] = "live"
  /\ cd' = [cd EXCEPT ![c] = "done"]
  /\ UNCHANGED <<agentVars, streamVars, cdReq, submitted, tableVars, cacheVars, statVars>>

CdDone(c) == cd[c] \in {"done", "exit"}

\* handleConsumerdStream: srv.Recv returns a request.  The goroutine calls
\* routeNewRequest itself, so it receives nothing until that call returns.
RecvRequest(r) ==
  LET c == Owner[r] IN
  /\ cd[c] \in {"live", "done"} /\ cdReq[c] = NoReq /\ r \notin submitted
  /\ submitted' = submitted \cup {r}
  /\ cdReq' = [cdReq EXCEPT ![c] = r]
  /\ thr' = [thr EXCEPT ![r] = "start"]
  /\ UNCHANGED <<agentVars, streamVars, cd, outbox, pending, inflight, respQ,
                 cacheVars, statVars>>

\* srv.Recv returns an error once the stream is done.
RecvRequestError(c) ==
  /\ cd[c] = "done" /\ cdReq[c] = NoReq
  /\ cd' = [cd EXCEPT ![c] = "exit"]
  /\ UNCHANGED <<agentVars, streamVars, cdReq, submitted, tableVars, cacheVars, statVars>>

-----------------------------------------------------------------------------
(* routeNewRequest, Router.Route and the PreReceive hook, for request r.   *)

Goto(r, from, to) == thr[r] = from /\ thr' = [thr EXCEPT ![r] = to]

\* The goroutine of r's consumerd is free again once routeNewRequest returns.
Release(r) ==
  cdReq' = [c \in Consumerds |-> IF cdReq[c] = r THEN NoReq ELSE cdReq[c]]

\* Mutation of IfRouteFails: every failed route asks for a retry.
IfRouteFailsRetry(r) == "Retry"

\* The ifRouteFails argument: DoNotRetry from the consumerd's own goroutine,
\* Retry from the goroutine that routes a defunct request again.
IfRouteFails(r) == IF cdReq[Owner[r]] = r THEN "DoNotRetry" ELSE "Retry"

\* Mutation of StorePending: the entry in pendingRequests is forgotten.
StorePendingForgotten(r) ==
  /\ Goto(r, "start", IF TcOf[r] = NoTc THEN "fail" ELSE "hook")
  /\ requestCount' = requestCount + 1
  /\ UNCHANGED <<agentVars, streamVars, cdVars, outbox, pending, inflight, respQ, cacheVars,
                 completedTasks, failedTasks, sent, answer, dpanics>>

\* requestCount.Inc and pendingRequests.Store; Route rejects a nil toolchain.
StorePending(r) ==
  /\ Goto(r, "start", IF TcOf[r] = NoTc THEN "fail" ELSE "hook")
  /\ requestCount' = requestCount + 1
  /\ pending' = pending \cup {r}
  /\ UNCHANGED <<agentVars, streamVars, cdVars, outbox, inflight, respQ, cacheVars,
                 completedTasks, failedTasks, sent, answer, dpanics>>

\* The hook runs only when a cache client is configured, and does nothing
\* while the cache server is not available.
PreReceive(r) ==
  /\ Goto(r, "hook", IF CacheConfigured /\ cacheAvailable THEN "pull" ELSE "check")
  /\ UNCHANGED <<agentVars, streamVars, cdVars, outbox, pending, inflight, respQ,
                 cacheVars, statVars>>

\* Mutation of PullFound: a NotFound is taken for an object.
PullFoundBlind(r) ==
  /\ Goto(r, "pull", "hit")
  /\ UNCHANGED <<agentVars, streamVars, cdVars, outbox, pending, inflight, respQ,
                 cacheVars, statVars>>

\* The Pull call returns: an object, NotFound, or another error.
PullFound(r) ==
  /\ KeyOf[r] \in cache
  /\ Goto(r, "pull", "hit")
  /\ UNCHANGED <<agentVars, streamVars, cdVars, outbox, pending, inflight, respQ,
                 cacheVars, statVars>>

PullNotFound(r) ==
  /\ KeyOf[r] \notin cache
  /\ Goto(r, "pull", "check")
  /\ managed' = managed \cup {r}
  /\ UNCHANGED <<agentVars, streamVars, cdVars, outbox, pending, inflight, respQ,
                 cacheAvailable, cache, pushes, built, statVars>>

PullError(r) ==
  /\ Goto(r, "pull", "check")
  /\ UNCHANGED <<agentVars, streamVars, cdVars, outbox, pending, inflight, respQ,
                 cacheVars, statVars>>

\* Cache hit: the request moves to inflightRequests without an agent, then
\* the goroutine blocks on responseQueue.
TakeHit(r) ==
  /\ IF r \in pending
     THEN Goto(r, "hit", "hitstore") /\ UNCHANGED dpanics
     ELSE Goto(r, "hit", "check") /\ dpanics' = dpanics \cup {"hook"}
  /\ pending' = pending \ {r}
  /\ UNCHANGED <<agentVars, streamVars, cdVars, outbox, inflight, respQ, cacheVars,
                 requestCount, completedTasks, failedTasks, sent, answer>>

StoreHit(r) ==
  /\ Goto(r, "hitstore", "none")
  /\ inflight' = [inflight EXCEPT ![r] = NoAgent]
  /\ outbox' = [outbox EXCEPT ![r]["Success"] = @ + 1]
  /\ UNCHANGED <<agentVars, streamVars, cdVars, pending, respQ, cacheVars, statVars>>

\* rt.CanSend: rxRefCount counts the relay goroutines that have not returned.
CanSend(t) == \E s \in Conns : relay[s][t] # Absent

\* Mutation of CheckAgents: Route does not look at rxRefCount.
CheckAgentsSkipped(r) ==
  /\ Goto(r, "check", "select")
  /\ UNCHANGED <<agentVars, streamVars, cdVars, outbox, pending, inflight, respQ,
                 cacheVars, statVars>>

CheckAgents(r) ==
  /\ Goto(r, "check", IF CanSend(TcOf[r]) THEN "select" ELSE "fail")
  /\ UNCHANGED <<agentVars, streamVars, cdVars, outbox, pending, inflight, respQ,
                 cacheVars, statVars>>

\* rt.C <- req meets a relay goroutine of an agent that has the toolchain;
\* the relay's select may pick this case even after its context is done.
HandOff(r, s) ==
  LET t == TcOf[r] IN
  /\ t \in Toolchains /\ relay[s][t] = NoReq
  /\ Goto(r, "select", "none")
  /\ relay' = [relay EXCEPT ![s][t] = r]
  /\ Release(r)
  /\ UNCHANGED <<agentVars, avail, locked, snd, sndReq, rcv, rcvResp, work, cd, submitted,
                 outbox, pending, inflight, respQ, cacheVars, statVars>>

\* The select returns ctx.Err() when the consumerd's stream is done.
SelectCancelled(r) ==
  /\ CdDone(Owner[r])
  /\ Goto(r, "select", "fail")
  /\ UNCHANGED <<agentVars, streamVars, cdVars, outbox, pending, inflight, respQ,
                 cacheVars, statVars>>

\* Route failed: take the request out of pendingRequests ...
TakeFailed(r) ==
  /\ IF r \in pending
     THEN Goto(r, "fail", "failstore") /\ UNCHANGED <<cdReq, dpanics>>
     ELSE Goto(r, "fail", "none") /\ Release(r) /\ dpanics' = dpanics \cup {"load"}
  /\ pending' = pending \ {r}
  /\ UNCHANGED <<agentVars, streamVars, cd, submitted, outbox, inflight, respQ, cacheVars,
                 requestCount, completedTasks, failedTasks, sent, answer>>

\* ... enter it in inflightRequests without an agent, and block on
\* responseQueue with a Retry response.
StoreFailed(r) ==
  /\ Goto(r, "failstore", "none")
  /\ inflight' = [inflight EXCEPT ![r] = NoAgent]
  /\ requestCount' = requestCount - 1
  /\ outbox' = [outbox EXCEPT ![r][IfRouteFails(r)] = @ + 1]
  /\ UNCHANGED <<agentVars, streamVars, cdVars, pending, respQ, cacheVars,
                 completedTasks, failedTasks, sent, answer, dpanics>>

-----------------------------------------------------------------------------
(* The goroutines of an agent's stream s.                                  *)

\* attachReceiver: the relay goroutine returns when the context is done, but
\* only from its select, not while it waits to pass a request on.
RelayExit(s, t) ==
  /\ conn[s] = "done" /\ relay[s][t] = NoReq
  /\ relay' = [relay EXCEPT ![s][t] = Absent]
  /\ UNCHANGED <<agentVars, avail, locked, snd, sndReq, rcv, rcvResp, work,
                 cdVars, tableVars, cacheVars, statVars>>

\* Mutation of LockToken: a request is taken without waiting for a token.
LockTokenUnchecked(s) ==
  /\ snd[s] = "token"
  /\ avail' = [avail EXCEPT ![s] = @ - 1]
  /\ locked' = [locked EXCEPT ![s] = @ + 1]
  /\ snd' = [snd EXCEPT ![s] = "filter"]
  /\ UNCHANGED <<agentVars, relay, sndReq, rcv, rcvResp, work, cdVars, tableVars,
                 cacheVars, statVars>>

\* handleAgentStream, send goroutine: a token moves to LockedTokens first.
LockToken(s) ==
  /\ snd[s] = "token" /\ avail[s] > 0
  /\ avail' = [avail EXCEPT ![s] = @ - 1]
  /\ locked' = [locked EXCEPT ![s] = @ + 1]
  /\ snd' = [snd EXCEPT ![s] = "filter"]
  /\ UNCHANGED <<agentVars, relay, sndReq, rcv, rcvResp, work, cdVars, tableVars,
                 cacheVars, statVars>>

SendDone(s) ==
  /\ snd[s] = "token" /\ conn[s] = "done"
  /\ snd' = [snd EXCEPT ![s] = "exit"]
  /\ UNCHANGED <<agentVars, avail, locked, relay, sndReq, rcv, rcvResp, work, cdVars,
                 tableVars, cacheVars, statVars>>

\* req, ok := <-filterOutput, outside the select: the goroutine waits here
\* even when the stream's context is done.
Filter(s, t) ==
  /\ snd[s] = "filter" /\ relay[s][t] \in Requests
  /\ sndReq' = [sndReq EXCEPT ![s] = relay[s][t]]
  /\ relay' = [relay EXCEPT ![s][t] = NoReq]
  /\ snd' = [snd EXCEPT ![s] = "take"]
  /\ UNCHANGED <<agentVars, avail, locked, rcv, rcvResp, work, cdVars, tableVars,
                 cacheVars, statVars>>

TakePending(s) ==
  LET r == sndReq[s] IN
  /\ snd[s] = "take"
  /\ IF r \in pending
     THEN /\ snd' = [snd EXCEPT ![s] = "store"]
          /\ UNCHANGED <<sndReq, dpanics>>
     ELSE /\ snd' = [snd EXCEPT ![s] = "token"]
          /\ sndReq' = [sndReq EXCEPT ![s] = NoReq]
          /\ dpanics' = dpanics \cup {"run"}
  /\ pending' = pending \ {r}
  /\ UNCHANGED <<agentVars, avail, locked, relay, rcv, rcvResp, work, cdVars,
                 thr, outbox, inflight, respQ, cacheVars,
                 requestCount, completedTasks, failedTasks, sent, answer>>

\* Mutation of StoreInflight: the entry in inflightRequests is forgotten.
StoreInflightForgotten(s) ==
  /\ snd[s] = "store"
  /\ snd' = [snd EXCEPT ![s] = "send"]
  /\ UNCHANGED <<agentVars, avail, locked, relay, sndReq, rcv, rcvResp, work, cdVars,
                 tableVars, cacheVars, statVars>>

StoreInflight(s) ==
  /\ snd[s] = "store"
  /\ inflight' = [inflight EXCEPT ![sndReq[s]] = s]
  /\ snd' = [snd EXCEPT ![s] = "send"]
  /\ UNCHANGED <<agentVars, avail, locked, relay, sndReq, rcv, rcvResp, work, cdVars,
                 thr, outbox, pending, respQ, cacheVars, statVars>>

\* stream.Send: the request reaches a live agent; on a dead stream it is lost
\* and Send may or may not report the error.
SendRequest(s) ==
  /\ snd[s] = "send"
  /\ sndReq' = [sndReq EXCEPT ![s] = NoReq]
  /\ \/ /\ conn[s] = "live"
        /\ work' = [work EXCEPT ![s][sndReq[s]] = @ + 1]
        /\ snd' = [snd EXCEPT ![s] = "token"]
     \/ /\ conn[s] = "done"
        /\ snd' \in {[snd EXCEPT ![s] = "token"], [snd EXCEPT ![s] = "exit"]}
        /\ UNCHANGED work
  /\ UNCHANGED <<agentVars, avail, locked, relay, rcv, rcvResp, cdVars, tableVars,
                 cacheVars, statVars>>

\* Mutation of RecvResponse: the token is given back only on success.
RecvResponseKeepsToken(s, r, result) ==
  /\ rcv[s] = "recv" /\ rcvResp[s] = NoResp /\ work[s][r] > 0
  /\ work' = [work EXCEPT ![s][r] = @ - 1]
  /\ IF result = "Success" /\ locked[s] > 0
     THEN /\ locked' = [locked EXCEPT ![s] = @ - 1]
          /\ avail' = [avail EXCEPT ![s] = @ + 1]
     ELSE UNCHANGED <<locked, avail>>
  /\ rcvResp' = [rcvResp EXCEPT ![s] = [id |-> r, result |-> result]]
  /\ built' = IF result = "Success" THEN built \cup {KeyOf[r]} ELSE built
  /\ UNCHANGED <<agentVars, relay, snd, sndReq, rcv, cdVars, tableVars, managed,
                 cacheAvailable, cache, pushes, statVars>>

\* handleAgentStream, recv goroutine: a response of the agent arrives (those
\* already on the wire may still arrive once the context is done), a token
\* goes back to AvailableTokens, and the goroutine blocks on responseQueue.
RecvResponse(s, r, result) ==
  /\ rcv[s] = "recv" /\ rcvResp[s] = NoResp /\ work[s][r] > 0
  /\ work' = [work EXCEPT ![s][r] = @ - 1]
  /\ IF locked[s] > 0
     THEN /\ locked' = [locked EXCEPT ![s] = @ - 1]
          /\ avail' = [avail EXCEPT ![s] = @ + 1]
          /\ UNCHANGED dpanics
     ELSE UNCHANGED <<locked, avail>> /\ dpanics' = dpanics \cup {"token"}
  /\ rcvResp' = [rcvResp EXCEPT ![s] = [id |-> r, result |-> result]]
  /\ built' = IF result = "Success" THEN built \cup {KeyOf[r]} ELSE built
  /\ UNCHANGED <<agentVars, relay, snd, sndReq, rcv, cdVars, tableVars, managed,
                 cacheAvailable, cache, pushes,
                 requestCount, completedTasks, failedTasks, sent, answer>>

RecvDone(s) ==
  /\ rcv[s] = "recv" /\ rcvResp[s] = NoResp /\ conn[s] = "done"
  /\ rcv' = [rcv EXCEPT ![s] = "exit"]
  /\ UNCHANGED <<agentVars, avail, locked, relay, snd, sndReq, rcvResp, work, cdVars,
                 tableVars, cacheVars, statVars>>

-----------------------------------------------------------------------------
(* cleanupAgent, in the goroutine that waits for the end of stream s.      *)

\* inflightRequests holds r for an agent with the UUID of s.
RunsOn(r, s) == inflight[r] \in Conns /\ UuidOf[inflight[r]] = UuidOf[s]

\* Mutation of CleanupAgent: the caller already holds agentsMutex.
CleanupAgentLocksTwice(s) ==
  /\ cln[s] = "watch" /\ conn[s] = "done" /\ agentsMutex = s
  /\ cln' = [cln EXCEPT ![s] = "range"]
  /\ todo' = [todo EXCEPT ![s] = Requests]
  /\ must' = [must EXCEPT ![s] = {r \in Requests : RunsOn(r, s)}]
  /\ UNCHANGED <<conn, agentsMutex, clnReq, streamVars, cdVars, tableVars, cacheVars, statVars>>

CleanupAgent(s) ==
  /\ cln[s] = "watch" /\ conn[s] = "done" /\ agentsMutex = NoConn
  /\ agentsMutex' = s
  /\ cln' = [cln EXCEPT ![s] = "range"]
  /\ todo' = [todo EXCEPT ![s] = Requests]
  /\ must' = [must EXCEPT ![s] = {r \in Requests : RunsOn(r, s)}]
  /\ UNCHANGED <<conn, clnReq, streamVars, cdVars, tableVars, cacheVars, statVars>>

\* sync.Map.Range visits a key at most once, with the value it has then.  The
\* deferred send runs when the callback returns, before the next key.
RangeDefunct(s, r) ==
  /\ cln[s] = "range" /\ clnReq[s] = NoReq /\ r \in todo[s] /\ RunsOn(r, s)
  /\ todo' = [todo EXCEPT ![s] = @ \ {r}]
  /\ must' = [must EXCEPT ![s] = @ \ {r}]
  /\ clnReq' = [clnReq EXCEPT ![s] = r]
  /\ UNCHANGED <<conn, agentsMutex, cln, streamVars, cdVars, tableVars, cacheVars, statVars>>

\* Range ends once it has visited the keys that were there all the time; it
\* need not have seen a key stored since it began.
RangeEnd(s) ==
  /\ cln[s] = "range" /\ clnReq[s] = NoReq /\ must[s] = {}
  /\ cln' = [cln EXCEPT ![s] = "done"]
  /\ todo' = [todo EXCEPT ![s] = {}]
  /\ agentsMutex' = NoConn
  /\ UNCHANGED <<conn, clnReq, must, streamVars, cdVars, tableVars, cacheVars, statVars>>

-----------------------------------------------------------------------------
(* The unbuffered responseQueue: a blocked goroutine meets the goroutine   *)
(* of handleResponseQueue.                                                 *)

QueueFromRoute(r, result) ==
  /\ respQ = NoResp /\ outbox[r][result] > 0
  /\ respQ' = [id |-> r, result |-> result]
  /\ outbox' = [outbox EXCEPT ![r][result] = @ - 1]
  /\ Release(r)
  /\ UNCHANGED <<agentVars, streamVars, cd, submitted, thr, pending, inflight, cacheVars,
                 statVars>>

QueueFromAgent(s) ==
  /\ respQ = NoResp /\ rcvResp[s] # NoResp
  /\ respQ' = rcvResp[s]
  /\ rcvResp' = [rcvResp EXCEPT ![s] = NoResp]
  /\ UNCHANGED <<agentVars, avail, locked, relay, snd, sndReq, rcv, work, cdVars,
                 thr, outbox, pending, inflight, cacheVars, statVars>>

QueueFromCleanup(s) ==
  /\ respQ = NoResp /\ clnReq[s] # NoReq
  /\ respQ' = [id |-> clnReq[s], result |-> "Defunct"]
  /\ clnReq' = [clnReq EXCEPT ![s] = NoReq]
  /\ UNCHANGED <<conn, agentsMutex, cln, todo, must, streamVars, cdVars,
                 thr, outbox, pending, inflight, cacheVars, statVars>>

\* handleResponseQueue: LoadAndDelete decides whether the response counts.  A
\* Defunct one starts a goroutine that routes the request again; any other is
\* written to the consumerd.
HandleResponse ==
  LET r == respQ.id
      result == respQ.result
  IN
  /\ respQ # NoResp /\ inflight[r] # Absent
  /\ inflight' = [inflight EXCEPT ![r] = Absent]
  /\ must' = [s \in Conns |-> must[s] \ {r}]
  /\ requestCount' = requestCount + 1
  /\ failedTasks' = IF result = "Fail" THEN failedTasks + 1 ELSE failedTasks
  /\ completedTasks' = IF result = "Success" THEN completedTasks + 1 ELSE completedTasks
  /\ pushes' = IF result = "Success" /\ r \in managed THEN pushes \cup {KeyOf[r]} ELSE pushes
  /\ IF result = "Defunct"
     THEN /\ thr' = [thr EXCEPT ![r] = "start"]
          /\ UNCHANGED <<sent, answer>>
     ELSE /\ sent' = [sent EXCEPT ![r] = @ + 1]
          /\ answer' = [answer EXCEPT ![r] = result]
          /\ UNCHANGED thr
  /\ respQ' = NoResp
  /\ UNCHANGED <<conn, agentsMutex, cln, clnReq, todo, streamVars, cdVars, outbox, pending,
                 managed, cacheAvailable, cache, built, dpanics>>

\* Mutation of DropResponse: a response without an inflight request is passed
\* to the consumerd as well.
DropResponseAnswers ==
  /\ respQ # NoResp /\ inflight[respQ.id] = Absent
  /\ respQ' = NoResp
  /\ sent' = [sent EXCEPT ![respQ.id] = @ + 1]
  /\ answer' = [answer EXCEPT ![respQ.id] = respQ.result]
  /\ UNCHANGED <<agentVars, streamVars, cdVars, thr, outbox, pending, inflight, cacheVars,
                 requestCount, completedTasks, failedTasks, dpanics>>

\* No inflight request: the response is dropped.
DropResponse ==
  /\ respQ # NoResp /\ inflight[respQ.id] = Absent
  /\ respQ' = NoResp
  /\ UNCHANGED <<agentVars, streamVars, cdVars, thr, outbox, pending, inflight,
                 cacheVars, statVars>>

-----------------------------------------------------------------------------
(* The cache server and its availability, as the broker sees them.         *)

\* watchCacheAvailability stores what the availability checker reports.
WatchCacheAvailability ==
  /\ CacheConfigured
  /\ cacheAvailable' = ~cacheAvailable
  /\ UNCHANGED <<agentVars, streamVars, cdVars, tableVars, managed, cache, pushes, built,
                 statVars>>

\* cacheTransaction: the Push succeeds, or fails and is only logged.
CacheTransaction(k) ==
  /\ k \in pushes
  /\ pushes' = pushes \ {k}
  /\ cache' \in {cache, cache \cup {k}}
  /\ UNCHANGED <<agentVars, streamVars, cdVars, tableVars, managed, cacheAvailable, built,
                 statVars>>

\* The cache server drops an object (expired or evicted).
Evict(k) ==
  /\ k \in cache
  /\ cache' = cache \ {k}
  /\ UNCHANGED <<agentVars, streamVars, cdVars, tableVars, managed, cacheAvailable, pushes,
                 built, statVars>>

-----------------------------------------------------------------------------
RouteStep(r) ==
  \/ StorePending(r) \/ PreReceive(r)
  \/ PullFound(r) \/ PullNotFound(r) \/ PullError(r)
  \/ TakeHit(r) \/ StoreHit(r)
  \/ CheckAgents(r) \/ \E s \in Conns : HandOff(r, s)
  \/ SelectCancelled(r) \/ TakeFailed(r) \/ StoreFailed(r)

SendStep(s) ==
  \/ LockToken(s) \/ SendDone(s) \/ \E t \in Toolchains : Filter(s, t)
  \/ TakePending(s) \/ StoreInflight(s) \/ SendRequest(s)

RecvStep(s) ==
  \/ \E r \in Requests, result \in AgentResults : RecvResponse(s, r, result)
  \/ RecvDone(s)

CleanupStep(s) ==
  CleanupAgent(s) \/ (\E r \in Requests : RangeDefunct(s, r)) \/ RangeEnd(s)

QueueStep ==
  \/ \E r \in Requests, result \in RouteResults : QueueFromRoute(r, result)
  \/ \E s \in Conns : QueueFromAgent(s) \/ QueueFromCleanup(s)

ResponseStep == HandleResponse \/ DropResponse

StreamStep ==
  \/ \E s \in Conns : NewAgentTaskStream(s) \/ Disconnect(s)
  \/ \E c \in Consumerds :
       NewConsumerdTaskStream(c) \/ ConsumerdDisconnect(c) \/ RecvRequestError(c)
  \/ \E r \in Requests : RecvRequest(r)
  \/ \E s \in Conns, t \in Toolchains : RelayExit(s, t)

CacheStep ==
  WatchCacheAvailability \/ \E k \in Keys : CacheTransaction(k) \/ Evict(k)

Next ==
  \/ StreamStep
  \/ \E r \in Requests : RouteStep(r)
  \/ \E s \in Conns : SendStep(s) \/ RecvStep(s) \/ CleanupStep(s)
  \/ QueueStep \/ ResponseStep
  \/ CacheStep

Spec == Init /\ [][Next]_vars

\* Every goroutine that can take a step eventually does (the Go scheduler),
\* and an agent eventually answers what it was sent (compile runs one command
\* and always returns a response).  Nothing makes a stream come or go, or a
\* consumerd send a request.
Fairness ==
  /\ \A r \in Requests : WF_vars(RouteStep(r))
  /\ \A s \in Conns : WF_vars(SendStep(s)) /\ WF_vars(RecvStep(s)) /\ WF_vars(CleanupStep(s))
  /\ \A s \in Conns, t \in Toolchains : WF_vars(RelayExit(s, t))
  /\ WF_vars(QueueStep) /\ WF_vars(ResponseStep)

FairSpec == Spec /\ Fairness

-----------------------------------------------------------------------------
(* Properties.                                                             *)

\* Everything in the broker that is responsible for request r: the goroutine
\* routing it, a relay goroutine, a send goroutine that has not stored it yet,
\* or its entry in inflightRequests.
Places(r) ==
  ({x \in {r} : thr[x] # "none"} \X {"route"})
  \cup ({p \in Conns \X Toolchains : relay[p[1]][p[2]] = r} \X {"relay"})
  \cup ({s \in Conns : sndReq[s] = r /\ snd[s] \in {"take", "store"}} \X {"send"})
  \cup ({x \in {r} : inflight[x] # Absent} \X {"inflight"})

\* A request that was received is in exactly one place until its answer is
\* written, and nowhere afterwards: no interleaving of routing, relaying,
\* cleanup and late responses loses it or runs it from two tables at once
\* (pendingRequests and inflightRequests are moved between, never copied).
InOnePlace ==
  \A r \in Requests :
    /\ \A p, q \in Places(r) : p = q
    /\ (Places(r) # {}) <=> (r \in submitted /\ sent[r] = 0)

\* handleResponseQueue writes at most one response per request, however many
\* agents were given the request and however many of them answered.
AtMostOneAnswer == \A r \in Requests : sent[r] <= 1

\* The DPanic branches "Tried to run a nonexistent task", "Tried to load a
\* nonexistent task" and "Invalid request in Pre Receive hook" are never
\* reached: nobody takes a request out of pendingRequests under the goroutine
\* that is about to.
NoNonexistentTask == dpanics \cap {"run", "load", "hook"} = {}

\* The send goroutine's own token, while it has one.
Busy(s) == IF snd[s] \in {"filter", "take", "store", "send"} THEN 1 ELSE 0

\* The copies of requests an agent was sent and has not answered, numbered.
Copies(w) == UNION {{r} \X (1 .. w[r]) : r \in Requests}

\* Token accounting of an agent: tokens are neither made nor lost, "Token
\* Imbalance" is never reached, and while the stream is up the locked tokens
\* are exactly the requests the agent is working on plus the one the send
\* goroutine is fetching, so an agent never has more than its limit.
TokensBalance ==
  /\ "token" \notin dpanics
  /\ \A s \in Conns :
       /\ conn[s] # "off" => avail[s] + locked[s] = Limit
       /\ conn[s] = "live" =>
            locked[s] = Busy(s) + Cardinality(Copies(work[s]))

\* A consumerd is told Success only for a translation unit some agent has
\* compiled (same toolchain, source and arguments), whether the object comes
\* from that agent or through the cache.
SuccessIsGenuine ==
  \A r \in Requests : answer[r] = "Success" => KeyOf[r] \in built

\* completedTasks and failedTasks count answered requests, each once, and
\* SchedulingRequestsTotal never falls below them although a failed route
\* decrements it.
CountersAgree ==
  /\ completedTasks = Cardinality({r \in Requests : answer[r] = "Success"})
  /\ failedTasks = Cardinality({r \in Requests : answer[r] = "Fail"})
  /\ requestCount >= completedTasks + failedTasks

\* routeNewRequest is told to answer Retry only when it routes a request
\* again: a consumerd sees Retry only after some agent stream was lost.
RetryOnlyAfterLoss ==
  \A r \in Requests : answer[r] = "Retry" => \E s \in Conns : conn[s] = "done"

\* What consumerds are told and what is counted agree: no request is answered
\* twice, a Retry follows the loss of a stream, and completedTasks, failedTasks
\* and SchedulingRequestsTotal count the answers, each once (broker.go:342-351).
AnswersAgree == AtMostOneAnswer /\ RetryOnlyAfterLoss /\ CountersAgree

\* The promise to consumerds, in terms of the broker's state.
Service == INSTANCE TaskService WITH
  status <- [r \in Requests |-> IF r \notin submitted THEN "new"
                                ELSE IF sent[r] = 0 THEN "accepted" ELSE "answered"],
  reply <- answer,
  compiled <- built,
  AllResults <- Results \ {"Defunct"}

\* The broker implements TaskService: tables, relays, requeueing of defunct
\* tasks, late responses and the cache are invisible to a consumerd, which
\* sees a request accepted and answered at most once, and genuinely.
ImplementsTaskService == Service!ServiceSpec

\* Every request received is eventually answered (no agent stream is lost in
\* the run that checks this).
EveryRequestAnswered == \A r \in Requests : r \in submitted ~> sent[r] = 1

\* cleanupAgent, which holds agentsMutex and blocks on responseQueue for every
\* defunct request, always ends: the broker accepts agents again.
CleanupEnds == \A s \in Conns : conn[s] = "done" ~> cln[s] = "done"
=============================================================================
