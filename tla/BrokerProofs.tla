---------------------------- MODULE BrokerProofs ----------------------------
(***************************************************************************)
(* Broker, for every set of requests, streams, toolchains and keys: its    *)
(* types and the effects of the actions that branch; then the inductive    *)
(* invariant TaskInv, which says who owns a request, and with it that a    *)
(* request is in one place and is answered at most once.                   *)
(***************************************************************************)
EXTENDS Broker, TLAPS

\* Facts about the sets of results that the provers need not unfold.
LEMMA ResultFacts ==
  /\ "Success" \in RouteResults /\ "Retry" \in RouteResults
  /\ "DoNotRetry" \in RouteResults
  /\ RouteResults \subseteq Results /\ AgentResults \subseteq Results
  /\ "Defunct" \in Results
  BY Zenon DEF RouteResults, Results, AgentResults, Fails

\* A record received from responseQueue is a response.
LEMMA ResponseFields ==
  ASSUME NEW x \in Responses \cup {NoResp}, x # NoResp
  PROVE  x.id \in Requests /\ x.result \in Results
  BY Zenon DEF Responses

\* The response built from a request and a result of the agent is one.
LEMMA ResponseRecord ==
  ASSUME NEW r \in Requests, NEW result \in Results
  PROVE  /\ [id |-> r, result |-> result] \in Responses
         /\ [id |-> r, result |-> result] # NoResp
  BY BrokerAssumptions, Zenon DEF Responses, NoResp

\* NewBroker starts in a state of the right type.
LEMMA TypeInit == Init => TypeOK
<1> SUFFICES ASSUME Init PROVE TypeOK
  OBVIOUS
<1>1. AgentTypes
  BY Zenon DEF Init, AgentTypes
<1>2. StreamTypes
  BY Zenon DEF Init, StreamTypes, SendSteps
<1>3. CdTypes
  BY Zenon DEF Init, CdTypes
<1>4. TableTypes
  BY Zenon DEF Init, TableTypes, ThreadSteps
<1>5. CacheTypes
  BY Zenon DEF Init, CacheTypes
<1>6. StatTypes
  BY DEF Init, StatTypes
<1> QED BY <1>1, <1>2, <1>3, <1>4, <1>5, <1>6, Zenon DEF TypeOK

\* A step that leaves a group of variables alone keeps their types.
LEMMA TypeFrame ==
  ASSUME TypeOK
  PROVE  /\ UNCHANGED agentVars => AgentTypes'
         /\ UNCHANGED streamVars => StreamTypes'
         /\ UNCHANGED cdVars => CdTypes'
         /\ UNCHANGED tableVars => TableTypes'
         /\ UNCHANGED cacheVars => CacheTypes'
         /\ UNCHANGED statVars => StatTypes'
<1>1. UNCHANGED agentVars => AgentTypes'
  BY Zenon DEF TypeOK, agentVars, AgentTypes
<1>2. UNCHANGED streamVars => StreamTypes'
  BY Zenon DEF TypeOK, streamVars, StreamTypes
<1>3. UNCHANGED cdVars => CdTypes'
  BY Zenon DEF TypeOK, cdVars, CdTypes
<1>4. UNCHANGED tableVars => TableTypes'
  BY Zenon DEF TypeOK, tableVars, TableTypes
<1>5. UNCHANGED cacheVars => CacheTypes'
  BY Zenon DEF TypeOK, cacheVars, CacheTypes
<1>6. UNCHANGED statVars => StatTypes'
  BY Zenon DEF TypeOK, statVars, StatTypes
<1> QED BY <1>1, <1>2, <1>3, <1>4, <1>5, <1>6, Zenon

\* Counting one more or one fewer goroutine blocked on responseQueue.
LEMMA OutboxInc ==
  ASSUME TypeOK, NEW r \in Requests, NEW x \in RouteResults,
         outbox' = [outbox EXCEPT ![r][x] = @ + 1]
  PROVE  outbox' \in [Requests -> [RouteResults -> Nat]]
<1>1. outbox \in [Requests -> [RouteResults -> Nat]]
  BY Zenon DEF TypeOK, TableTypes
<1> QED BY <1>1

\* The same when handleResponseQueue takes the response of one of them.
LEMMA OutboxDec ==
  ASSUME TypeOK, NEW r \in Requests, NEW x \in RouteResults, outbox[r][x] > 0,
         outbox' = [outbox EXCEPT ![r][x] = @ - 1]
  PROVE  outbox' \in [Requests -> [RouteResults -> Nat]]
<1>1. outbox \in [Requests -> [RouteResults -> Nat]]
  BY Zenon DEF TypeOK, TableTypes
<1> QED BY <1>1

\* What the actions with a DPanic branch do, branch by branch.
LEMMA TakeHitEffect ==
  ASSUME NEW r, TakeHit(r)
  PROVE  /\ thr[r] = "hit" /\ pending' = pending \ {r}
         /\ r \in pending => thr' = [thr EXCEPT ![r] = "hitstore"] /\ dpanics' = dpanics
         /\ r \notin pending =>
              thr' = [thr EXCEPT ![r] = "check"] /\ dpanics' = dpanics \cup {"hook"}
  BY Zenon DEF TakeHit, Goto

\* TakeFailed: routeNewRequest after a failed Route.
LEMMA TakeFailedEffect ==
  ASSUME NEW r, TakeFailed(r)
  PROVE  /\ thr[r] = "fail" /\ pending' = pending \ {r}
         /\ r \in pending =>
              thr' = [thr EXCEPT ![r] = "failstore"] /\ dpanics' = dpanics /\ cdReq' = cdReq
         /\ r \notin pending =>
              /\ thr' = [thr EXCEPT ![r] = "none"] /\ dpanics' = dpanics \cup {"load"}
              /\ Release(r)
  BY Zenon DEF TakeFailed, Goto

\* TakePending: the send goroutine takes a request to run it.
LEMMA TakePendingEffect ==
  ASSUME NEW s, TakePending(s)
  PROVE  /\ snd[s] = "take" /\ pending' = pending \ {sndReq[s]}
         /\ sndReq[s] \in pending =>
              snd' = [snd EXCEPT ![s] = "store"] /\ sndReq' = sndReq /\ dpanics' = dpanics
         /\ sndReq[s] \notin pending =>
              /\ snd' = [snd EXCEPT ![s] = "token"] /\ sndReq' = [sndReq EXCEPT ![s] = NoReq]
              /\ dpanics' = dpanics \cup {"run"}
  BY Zenon DEF TakePending

\* RecvResponse: the recv goroutine gives a token back.
LEMMA RecvResponseEffect ==
  ASSUME NEW s, NEW r, NEW result, RecvResponse(s, r, result)
  PROVE  /\ locked[s] > 0 =>
              /\ locked' = [locked EXCEPT ![s] = @ - 1]
              /\ avail' = [avail EXCEPT ![s] = @ + 1]
              /\ dpanics' = dpanics
         /\ ~(locked[s] > 0) =>
              locked' = locked /\ avail' = avail /\ dpanics' = dpanics \cup {"token"}
         /\ result = "Success" => built' = built \cup {KeyOf[r]}
         /\ result # "Success" => built' = built
  BY Zenon DEF RecvResponse

\* HandleResponse: requeue of a defunct task, or an answer.
LEMMA HandleResponseEffect ==
  ASSUME HandleResponse
  PROVE  /\ respQ # NoResp /\ inflight[respQ.id] # Absent
         /\ respQ.result = "Defunct" =>
              thr' = [thr EXCEPT ![respQ.id] = "start"] /\ sent' = sent /\ answer' = answer
         /\ respQ.result # "Defunct" =>
              /\ thr' = thr
              /\ sent' = [sent EXCEPT ![respQ.id] = @ + 1]
              /\ answer' = [answer EXCEPT ![respQ.id] = respQ.result]
         /\ pushes' = pushes \/ pushes' = pushes \cup {KeyOf[respQ.id]}
         /\ pushes' # pushes => respQ.result = "Success"
  BY Zenon DEF HandleResponse

\* routeNewRequest, Route and the cache hook keep the types.
LEMMA TypeRoute ==
  ASSUME TypeOK, NEW r \in Requests, RouteStep(r)
  PROVE  TypeOK'
<1>1. CASE StorePending(r)
  <2>1. TableTypes'
    BY <1>1, Zenon DEF TypeOK, TableTypes, StorePending, Goto, ThreadSteps
  <2>2. StatTypes'
    BY <1>1 DEF TypeOK, StatTypes, StorePending
  <2> QED BY <1>1, <2>1, <2>2, TypeFrame, Zenon DEF TypeOK, StorePending
<1>2. CASE PreReceive(r)
  <2>1. TableTypes'
    BY <1>2, Zenon DEF TypeOK, TableTypes, PreReceive, Goto, ThreadSteps
  <2> QED BY <1>2, <2>1, TypeFrame, Zenon DEF TypeOK, PreReceive
<1>3. CASE PullFound(r)
  <2>1. TableTypes'
    BY <1>3, Zenon DEF TypeOK, TableTypes, PullFound, Goto, ThreadSteps
  <2> QED BY <1>3, <2>1, TypeFrame, Zenon DEF TypeOK, PullFound
<1>4. CASE PullNotFound(r)
  <2>1. TableTypes'
    BY <1>4, Zenon DEF TypeOK, TableTypes, PullNotFound, Goto, ThreadSteps
  <2>2. CacheTypes'
    BY <1>4, Zenon DEF TypeOK, CacheTypes, PullNotFound
  <2> QED BY <1>4, <2>1, <2>2, TypeFrame, Zenon DEF TypeOK, PullNotFound
<1>5. CASE PullError(r)
  <2>1. TableTypes'
    BY <1>5, Zenon DEF TypeOK, TableTypes, PullError, Goto, ThreadSteps
  <2> QED BY <1>5, <2>1, TypeFrame, Zenon DEF TypeOK, PullError
<1>6. CASE TakeHit(r)
  <2>1. TableTypes'
    <3>1. thr' \in {[thr EXCEPT ![r] = "hitstore"], [thr EXCEPT ![r] = "check"]}
      BY <1>6, TakeHitEffect, Zenon
    <3> QED BY <1>6, <3>1, Zenon DEF TypeOK, TableTypes, TakeHit, ThreadSteps
  <2>2. StatTypes'
    <3>1. dpanics' \in {dpanics, dpanics \cup {"hook"}}
      BY <1>6, TakeHitEffect, Zenon
    <3> QED BY <1>6, <3>1, Zenon DEF TypeOK, StatTypes, TakeHit
  <2> QED BY <1>6, <2>1, <2>2, TypeFrame, Zenon DEF TypeOK, TakeHit
<1>7. CASE StoreHit(r)
  <2>1. outbox' \in [Requests -> [RouteResults -> Nat]]
    BY <1>7, OutboxInc, ResultFacts, Zenon DEF StoreHit
  <2>2. TableTypes'
    BY <1>7, <2>1, Zenon DEF TypeOK, TableTypes, StoreHit, Goto, ThreadSteps
  <2> QED BY <1>7, <2>2, TypeFrame, Zenon DEF TypeOK, StoreHit
<1>8. CASE CheckAgents(r)
  <2>1. TableTypes'
    BY <1>8, Zenon DEF TypeOK, TableTypes, CheckAgents, Goto, ThreadSteps
  <2> QED BY <1>8, <2>1, TypeFrame, Zenon DEF TypeOK, CheckAgents
<1>9. ASSUME NEW s \in Conns, HandOff(r, s) PROVE TypeOK'
  <2>1. StreamTypes'
    BY <1>9, Zenon DEF TypeOK, StreamTypes, HandOff
  <2>2. CdTypes'
    BY <1>9, Zenon DEF TypeOK, CdTypes, HandOff, Release
  <2>3. TableTypes'
    BY <1>9, Zenon DEF TypeOK, TableTypes, HandOff, Goto, ThreadSteps
  <2> QED BY <1>9, <2>1, <2>2, <2>3, TypeFrame, Zenon DEF TypeOK, HandOff
<1>10. CASE SelectCancelled(r)
  <2>1. TableTypes'
    BY <1>10, Zenon DEF TypeOK, TableTypes, SelectCancelled, Goto, ThreadSteps
  <2> QED BY <1>10, <2>1, TypeFrame, Zenon DEF TypeOK, SelectCancelled
<1>11. CASE TakeFailed(r)
  <2>1. TableTypes'
    <3>1. thr' \in {[thr EXCEPT ![r] = "failstore"], [thr EXCEPT ![r] = "none"]}
      BY <1>11, TakeFailedEffect, Zenon
    <3> QED BY <1>11, <3>1, Zenon DEF TypeOK, TableTypes, TakeFailed, ThreadSteps
  <2>2. CdTypes'
    <3>1. cdReq' = cdReq \/ Release(r)
      BY <1>11, TakeFailedEffect, Zenon
    <3> QED BY <1>11, <3>1, Zenon DEF TypeOK, CdTypes, TakeFailed, Release
  <2>3. StatTypes'
    <3>1. dpanics' \in {dpanics, dpanics \cup {"load"}}
      BY <1>11, TakeFailedEffect, Zenon
    <3> QED BY <1>11, <3>1, Zenon DEF TypeOK, StatTypes, TakeFailed
  <2> QED BY <1>11, <2>1, <2>2, <2>3, TypeFrame, Zenon DEF TypeOK, TakeFailed
<1>12. CASE StoreFailed(r)
  <2>1. outbox' \in [Requests -> [RouteResults -> Nat]]
    BY <1>12, OutboxInc, ResultFacts, Zenon DEF StoreFailed, IfRouteFails
  <2>2. TableTypes'
    BY <1>12, <2>1, Zenon DEF TypeOK, TableTypes, StoreFailed, Goto, ThreadSteps
  <2>3. StatTypes'
    BY <1>12 DEF TypeOK, StatTypes, StoreFailed
  <2> QED BY <1>12, <2>2, <2>3, TypeFrame, Zenon DEF TypeOK, StoreFailed
<1> QED
  BY <1>1, <1>2, <1>3, <1>4, <1>5, <1>6, <1>7, <1>8, <1>9, <1>10, <1>11, <1>12, Zenon
     DEF RouteStep

\* The send goroutine of an agent keeps the types; no token goes below zero.
LEMMA TypeSend ==
  ASSUME TypeOK, NEW s \in Conns, SendStep(s)
  PROVE  TypeOK'
<1>1. CASE LockToken(s)
  <2>1. StreamTypes'
    BY <1>1 DEF TypeOK, StreamTypes, LockToken, SendSteps
  <2> QED BY <1>1, <2>1, TypeFrame, Zenon DEF TypeOK, LockToken
<1>2. CASE SendDone(s)
  <2>1. StreamTypes'
    BY <1>2, Zenon DEF TypeOK, StreamTypes, SendDone, SendSteps
  <2> QED BY <1>2, <2>1, TypeFrame, Zenon DEF TypeOK, SendDone
<1>3. ASSUME NEW t \in Toolchains, Filter(s, t) PROVE TypeOK'
  <2>1. StreamTypes'
    BY <1>3, Zenon DEF TypeOK, StreamTypes, Filter, SendSteps
  <2> QED BY <1>3, <2>1, TypeFrame, Zenon DEF TypeOK, Filter
<1>4. CASE TakePending(s)
  <2>1. StreamTypes'
    <3>1. /\ snd' \in {[snd EXCEPT ![s] = "store"], [snd EXCEPT ![s] = "token"]}
          /\ sndReq' \in {sndReq, [sndReq EXCEPT ![s] = NoReq]}
      BY <1>4, TakePendingEffect, Zenon
    <3> QED BY <1>4, <3>1, Zenon DEF TypeOK, StreamTypes, TakePending, SendSteps
  <2>2. TableTypes'
    BY <1>4, Zenon DEF TypeOK, TableTypes, TakePending
  <2>3. StatTypes'
    <3>1. dpanics' \in {dpanics, dpanics \cup {"run"}}
      BY <1>4, TakePendingEffect, Zenon
    <3> QED BY <1>4, <3>1, Zenon DEF TypeOK, StatTypes, TakePending
  <2> QED BY <1>4, <2>1, <2>2, <2>3, TypeFrame, Zenon DEF TypeOK, TakePending
<1>5. CASE StoreInflight(s)
  <2>1. StreamTypes'
    BY <1>5, Zenon DEF TypeOK, StreamTypes, StoreInflight, SendSteps
  <2>2. TableTypes'
    BY <1>5, Zenon DEF TypeOK, TableTypes, StoreInflight
  <2> QED BY <1>5, <2>1, <2>2, TypeFrame, Zenon DEF TypeOK, StoreInflight
<1>6. CASE SendRequest(s)
  <2>1. /\ work \in [Conns -> [Requests -> Nat]]
        /\ work' = work \/ work' = [work EXCEPT ![s][sndReq[s]] = @ + 1]
    BY <1>6, Zenon DEF TypeOK, StreamTypes, SendRequest
  <2>2. work' \in [Conns -> [Requests -> Nat]]
    <3>1. CASE work' = work
      BY <2>1, <3>1, Zenon
    <3>2. CASE work' = [work EXCEPT ![s][sndReq[s]] = @ + 1] /\ sndReq[s] \in Requests
      BY <2>1, <3>2
    <3>3. CASE work' = [work EXCEPT ![s][sndReq[s]] = @ + 1] /\ sndReq[s] \notin Requests
      BY <2>1, <3>3, Zenon
    <3> QED BY <2>1, <3>1, <3>2, <3>3, Zenon
  <2>3. snd' \in {[snd EXCEPT ![s] = "token"], [snd EXCEPT ![s] = "exit"]}
    BY <1>6, Zenon DEF SendRequest
  <2>4. StreamTypes'
    BY <1>6, <2>2, <2>3, Zenon DEF TypeOK, StreamTypes, SendRequest, SendSteps
  <2> QED BY <1>6, <2>4, TypeFrame, Zenon DEF TypeOK, SendRequest
<1> QED BY <1>1, <1>2, <1>3, <1>4, <1>5, <1>6, Zenon DEF SendStep

\* The recv goroutine of an agent keeps the types.
LEMMA TypeRecv ==
  ASSUME TypeOK, NEW s \in Conns, RecvStep(s)
  PROVE  TypeOK'
<1>1. ASSUME NEW r \in Requests, NEW result \in AgentResults, RecvResponse(s, r, result)
      PROVE  TypeOK'
  <2>1. work' \in [Conns -> [Requests -> Nat]]
    <3>1. /\ work \in [Conns -> [Requests -> Nat]] /\ work[s][r] > 0
          /\ work' = [work EXCEPT ![s][r] = @ - 1]
      BY <1>1, Zenon DEF TypeOK, StreamTypes, RecvResponse
    <3> QED BY <3>1
  <2>2. rcvResp' \in [Conns -> Responses \cup {NoResp}]
    <3>1. /\ rcvResp \in [Conns -> Responses \cup {NoResp}]
          /\ rcvResp' = [rcvResp EXCEPT ![s] = [id |-> r, result |-> result]]
      BY <1>1, Zenon DEF TypeOK, StreamTypes, RecvResponse
    <3>2. [id |-> r, result |-> result] \in Responses
      BY ResponseRecord, ResultFacts, Zenon
    <3> QED BY <3>1, <3>2, Zenon
  <2>3. locked' \in [Conns -> Nat] /\ avail' \in [Conns -> Nat]
    <3>1. locked \in [Conns -> Nat] /\ avail \in [Conns -> Nat]
      BY Zenon DEF TypeOK, StreamTypes
    <3> QED BY <1>1, <3>1, RecvResponseEffect
  <2>4. StreamTypes'
    BY <1>1, <2>1, <2>2, <2>3, Zenon DEF TypeOK, StreamTypes, RecvResponse
  <2>5. StatTypes'
    <3>1. dpanics' \in {dpanics, dpanics \cup {"token"}}
      BY <1>1, RecvResponseEffect, Zenon
    <3> QED BY <1>1, <3>1, Zenon DEF TypeOK, StatTypes, RecvResponse
  <2>6. CacheTypes'
    <3>1. built' \in {built, built \cup {KeyOf[r]}}
      BY <1>1, RecvResponseEffect, Zenon
    <3> QED BY <1>1, <3>1, BrokerAssumptions, Zenon DEF TypeOK, CacheTypes, RecvResponse
  <2> QED BY <1>1, <2>4, <2>5, <2>6, TypeFrame, Zenon DEF TypeOK, RecvResponse
<1>2. CASE RecvDone(s)
  <2>1. StreamTypes'
    BY <1>2, Zenon DEF TypeOK, StreamTypes, RecvDone
  <2> QED BY <1>2, <2>1, TypeFrame, Zenon DEF TypeOK, RecvDone
<1> QED BY <1>1, <1>2, Zenon DEF RecvStep

\* cleanupAgent keeps the types.
LEMMA TypeCleanup ==
  ASSUME TypeOK, NEW s \in Conns, CleanupStep(s)
  PROVE  TypeOK'
<1>1. CASE CleanupAgent(s)
  <2>1. AgentTypes'
    BY <1>1, Zenon DEF TypeOK, AgentTypes, CleanupAgent
  <2> QED BY <1>1, <2>1, TypeFrame, Zenon DEF TypeOK, CleanupAgent
<1>2. ASSUME NEW r \in Requests, RangeDefunct(s, r) PROVE TypeOK'
  <2>1. AgentTypes'
    BY <1>2, Zenon DEF TypeOK, AgentTypes, RangeDefunct
  <2> QED BY <1>2, <2>1, TypeFrame, Zenon DEF TypeOK, RangeDefunct
<1>3. CASE RangeEnd(s)
  <2>1. AgentTypes'
    BY <1>3, Zenon DEF TypeOK, AgentTypes, RangeEnd
  <2> QED BY <1>3, <2>1, TypeFrame, Zenon DEF TypeOK, RangeEnd
<1> QED BY <1>1, <1>2, <1>3, Zenon DEF CleanupStep

\* A rendezvous on responseQueue keeps the types.
LEMMA TypeQueue ==
  ASSUME TypeOK, QueueStep
  PROVE  TypeOK'
<1>1. ASSUME NEW r \in Requests, NEW result \in RouteResults, QueueFromRoute(r, result)
      PROVE  TypeOK'
  <2>1. outbox' \in [Requests -> [RouteResults -> Nat]]
    BY <1>1, OutboxDec, Zenon DEF QueueFromRoute
  <2>2. respQ' \in Responses
    BY <1>1, ResponseRecord, ResultFacts, Zenon DEF QueueFromRoute
  <2>3. TableTypes'
    BY <1>1, <2>1, <2>2, Zenon DEF TypeOK, TableTypes, QueueFromRoute
  <2>4. CdTypes'
    BY <1>1, Zenon DEF TypeOK, CdTypes, QueueFromRoute, Release
  <2> QED BY <1>1, <2>3, <2>4, TypeFrame, Zenon DEF TypeOK, QueueFromRoute
<1>2. ASSUME NEW s \in Conns, QueueFromAgent(s) PROVE TypeOK'
  <2>1. rcvResp \in [Conns -> Responses \cup {NoResp}]
    BY Zenon DEF TypeOK, StreamTypes
  <2>2. StreamTypes'
    BY <1>2, Zenon DEF TypeOK, StreamTypes, QueueFromAgent
  <2>3. TableTypes'
    BY <1>2, <2>1, Zenon DEF TypeOK, TableTypes, QueueFromAgent
  <2> QED BY <1>2, <2>2, <2>3, TypeFrame, Zenon DEF TypeOK, QueueFromAgent
<1>3. ASSUME NEW s \in Conns, QueueFromCleanup(s) PROVE TypeOK'
  <2>1. clnReq[s] \in Requests
    BY <1>3, Zenon DEF TypeOK, AgentTypes, QueueFromCleanup
  <2>2. respQ' \in Responses
    BY <1>3, <2>1, ResponseRecord, ResultFacts, Zenon DEF QueueFromCleanup
  <2>3. AgentTypes'
    BY <1>3, Zenon DEF TypeOK, AgentTypes, QueueFromCleanup
  <2>4. TableTypes'
    BY <1>3, <2>2, Zenon DEF TypeOK, TableTypes, QueueFromCleanup
  <2> QED BY <1>3, <2>3, <2>4, TypeFrame, Zenon DEF TypeOK, QueueFromCleanup
<1> QED BY <1>1, <1>2, <1>3, Zenon DEF QueueStep

\* handleResponseQueue keeps the types.
LEMMA TypeResponse ==
  ASSUME TypeOK, ResponseStep
  PROVE  TypeOK'
<1>1. CASE HandleResponse
  <2>1. respQ.id \in Requests /\ respQ.result \in Results
    BY <1>1, ResponseFields, HandleResponseEffect, Zenon DEF TypeOK, TableTypes
  <2>2. TableTypes'
    <3>1. thr' \in {thr, [thr EXCEPT ![respQ.id] = "start"]}
      BY <1>1, HandleResponseEffect, Zenon
    <3>2. thr' \in [Requests -> ThreadSteps]
      BY <3>1, Zenon DEF TypeOK, TableTypes, ThreadSteps
    <3> QED BY <1>1, <3>2, Zenon DEF TypeOK, TableTypes, HandleResponse
  <2>3. AgentTypes'
    BY <1>1, Zenon DEF TypeOK, AgentTypes, HandleResponse
  <2>4. CacheTypes'
    <3>1. pushes' \in {pushes, pushes \cup {KeyOf[respQ.id]}}
      BY <1>1, HandleResponseEffect, Zenon
    <3> QED BY <1>1, <2>1, <3>1, BrokerAssumptions DEF TypeOK, CacheTypes, HandleResponse
  <2>5. sent' \in [Requests -> Nat]
    <3>1. sent' \in {sent, [sent EXCEPT ![respQ.id] = @ + 1]}
      BY <1>1, HandleResponseEffect, Zenon
    <3> QED BY <3>1 DEF TypeOK, StatTypes
  <2>6. answer' \in [Requests -> Results \cup {"none"}]
    <3>1. answer' \in {answer, [answer EXCEPT ![respQ.id] = respQ.result]}
      BY <1>1, HandleResponseEffect, Zenon
    <3> QED BY <2>1, <3>1, Zenon DEF TypeOK, StatTypes
  <2>7. StatTypes'
    BY <1>1, <2>5, <2>6 DEF TypeOK, StatTypes, HandleResponse
  <2> QED BY <1>1, <2>2, <2>3, <2>4, <2>7, TypeFrame, Zenon DEF TypeOK, HandleResponse
<1>2. CASE DropResponse
  <2>1. TableTypes'
    BY <1>2, Zenon DEF TypeOK, TableTypes, DropResponse
  <2> QED BY <1>2, <2>1, TypeFrame, Zenon DEF TypeOK, DropResponse
<1> QED BY <1>1, <1>2, Zenon DEF ResponseStep

\* Streams that come and go, and relays that return, keep the types.
LEMMA TypeStreams ==
  ASSUME TypeOK, StreamStep
  PROVE  TypeOK'
<1>1. ASSUME NEW s \in Conns, NewAgentTaskStream(s) PROVE TypeOK'
  <2>1. AgentTypes'
    BY <1>1, Zenon DEF TypeOK, AgentTypes, NewAgentTaskStream
  <2>2. StreamTypes'
    BY <1>1, BrokerAssumptions, Zenon DEF TypeOK, StreamTypes, NewAgentTaskStream, SendSteps
  <2> QED BY <1>1, <2>1, <2>2, TypeFrame, Zenon DEF TypeOK, NewAgentTaskStream
<1>2. ASSUME NEW s \in Conns, Disconnect(s) PROVE TypeOK'
  <2>1. AgentTypes'
    BY <1>2, Zenon DEF TypeOK, AgentTypes, Disconnect
  <2> QED BY <1>2, <2>1, TypeFrame, Zenon DEF TypeOK, Disconnect
<1>3. ASSUME NEW c \in Consumerds, NewConsumerdTaskStream(c) PROVE TypeOK'
  <2>1. CdTypes'
    BY <1>3, Zenon DEF TypeOK, CdTypes, NewConsumerdTaskStream
  <2> QED BY <1>3, <2>1, TypeFrame, Zenon DEF TypeOK, NewConsumerdTaskStream
<1>4. ASSUME NEW c \in Consumerds, ConsumerdDisconnect(c) PROVE TypeOK'
  <2>1. CdTypes'
    BY <1>4, Zenon DEF TypeOK, CdTypes, ConsumerdDisconnect
  <2> QED BY <1>4, <2>1, TypeFrame, Zenon DEF TypeOK, ConsumerdDisconnect
<1>5. ASSUME NEW c \in Consumerds, RecvRequestError(c) PROVE TypeOK'
  <2>1. CdTypes'
    BY <1>5, Zenon DEF TypeOK, CdTypes, RecvRequestError
  <2> QED BY <1>5, <2>1, TypeFrame, Zenon DEF TypeOK, RecvRequestError
<1>6. ASSUME NEW r \in Requests, RecvRequest(r) PROVE TypeOK'
  <2>1. CdTypes'
    BY <1>6, Zenon DEF TypeOK, CdTypes, RecvRequest
  <2>2. TableTypes'
    BY <1>6, Zenon DEF TypeOK, TableTypes, RecvRequest, ThreadSteps
  <2> QED BY <1>6, <2>1, <2>2, TypeFrame, Zenon DEF TypeOK, RecvRequest
<1>7. ASSUME NEW s \in Conns, NEW t \in Toolchains, RelayExit(s, t) PROVE TypeOK'
  <2>1. StreamTypes'
    BY <1>7, Zenon DEF TypeOK, StreamTypes, RelayExit
  <2> QED BY <1>7, <2>1, TypeFrame, Zenon DEF TypeOK, RelayExit
<1> QED BY <1>1, <1>2, <1>3, <1>4, <1>5, <1>6, <1>7, Zenon DEF StreamStep

\* The cache server and its watcher keep the types.
LEMMA TypeCache ==
  ASSUME TypeOK, CacheStep
  PROVE  TypeOK'
<1>1. CASE WatchCacheAvailability
  <2>1. CacheTypes'
    BY <1>1, Zenon DEF TypeOK, CacheTypes, WatchCacheAvailability
  <2> QED BY <1>1, <2>1, TypeFrame, Zenon DEF TypeOK, WatchCacheAvailability
<1>2. ASSUME NEW k \in Keys, CacheTransaction(k) PROVE TypeOK'
  <2>1. CacheTypes'
    BY <1>2, Zenon DEF TypeOK, CacheTypes, CacheTransaction
  <2> QED BY <1>2, <2>1, TypeFrame, Zenon DEF TypeOK, CacheTransaction
<1>3. ASSUME NEW k \in Keys, Evict(k) PROVE TypeOK'
  <2>1. CacheTypes'
    BY <1>3, Zenon DEF TypeOK, CacheTypes, Evict
  <2> QED BY <1>3, <2>1, TypeFrame, Zenon DEF TypeOK, Evict
<1> QED BY <1>1, <1>2, <1>3, Zenon DEF CacheStep

\* Every step of the broker keeps the types.
LEMMA TypeNext == TypeOK /\ [Next]_vars => TypeOK'
<1> SUFFICES ASSUME TypeOK, [Next]_vars PROVE TypeOK'
  OBVIOUS
<1>1. CASE Next
  BY <1>1, TypeStreams, TypeRoute, TypeSend, TypeRecv, TypeCleanup, TypeQueue,
     TypeResponse, TypeCache, Zenon DEF Next
<1>2. CASE UNCHANGED vars
  BY <1>2, TypeFrame, Zenon DEF TypeOK, vars
<1> QED BY <1>1, <1>2, Zenon

\* The broker's tables, counters, channels and goroutines keep their types: no
\* token pool, blocked-goroutine count or task counter goes below zero.
THEOREM TypeCorrect == Spec => []TypeOK
  BY TypeInit, TypeNext, PTL DEF Spec

-----------------------------------------------------------------------------
(* The inductive invariant behind InOnePlace.  A request has one owner at  *)
(* a time: the goroutine routing it, a relay, a send goroutine, or its     *)
(* entry in inflightRequests; pendingRequests holds it exactly while the   *)
(* owner is one of the first three and has not taken it out.               *)

InPending == {"hook", "pull", "hit", "check", "select", "fail"}
SendHolds(s, r) == sndReq[s] = r /\ snd[s] \in {"take", "store"}

Owned(r) ==
  \/ thr[r] # "none"
  \/ \E s \in Conns, t \in Toolchains : relay[s][t] = r
  \/ \E s \in Conns : SendHolds(s, r)

Waiting(r) == r \in submitted /\ sent[r] = 0 /\ inflight[r] = Absent

ThreadInv(r) ==
  thr[r] # "none" =>
    /\ Waiting(r)
    /\ \A s \in Conns, t \in Toolchains : relay[s][t] # r
    /\ \A s \in Conns : ~SendHolds(s, r)
    /\ (r \in pending) <=> (thr[r] \in InPending)

RelayInv(r) ==
  \A s \in Conns, t \in Toolchains : relay[s][t] = r =>
    /\ Waiting(r) /\ r \in pending
    /\ \A u \in Conns, v \in Toolchains : relay[u][v] = r => u = s /\ v = t
    /\ \A u \in Conns : ~SendHolds(u, r)

SendInv(r) ==
  \A s \in Conns : SendHolds(s, r) =>
    /\ Waiting(r)
    /\ (r \in pending) <=> (snd[s] = "take")
    /\ \A u \in Conns : SendHolds(u, r) => u = s

TableInv(r) ==
  /\ inflight[r] # Absent => r \in submitted /\ sent[r] = 0 /\ r \notin pending
  /\ r \in pending => Owned(r)
  /\ sent[r] \in {0, 1}
  /\ r \notin submitted => sent[r] = 0
  /\ r \in submitted /\ sent[r] = 0 => Owned(r) \/ inflight[r] # Absent

StreamInv(s) ==
  /\ conn[s] = "off" => snd[s] = "off" /\ \A t \in Toolchains : relay[s][t] = Absent
  /\ snd[s] \in {"take", "store", "send"} => sndReq[s] \in Requests

RequestInv(r) == ThreadInv(r) /\ RelayInv(r) /\ SendInv(r) /\ TableInv(r)

TaskInv ==
  /\ \A r \in Requests : RequestInv(r)
  /\ \A s \in Conns : StreamInv(s)
  /\ NoNonexistentTask

\* The inductive invariant holds in the empty broker.
LEMMA TaskInit == Init => TaskInv
  BY BrokerAssumptions
     DEF Init, TaskInv, RequestInv, ThreadInv, RelayInv, SendInv, TableInv, StreamInv, Owned,
         Waiting, SendHolds, NoNonexistentTask

\* A step that changes nothing RequestInv(r) speaks of.
SameView(r) ==
  /\ thr'[r] = thr[r] /\ sent'[r] = sent[r] /\ inflight'[r] = inflight[r]
  /\ (r \in pending') <=> (r \in pending)
  /\ (r \in submitted') <=> (r \in submitted)
  /\ \A s \in Conns, t \in Toolchains : (relay'[s][t] = r) <=> (relay[s][t] = r)
  /\ \A s \in Conns : SendHolds(s, r)' <=> SendHolds(s, r)
  /\ \A s \in Conns : SendHolds(s, r) => snd'[s] = snd[s]

\* A step that changes nothing RequestInv(r) reads keeps it.
LEMMA SameViewKeeps ==
  ASSUME NEW r \in Requests, RequestInv(r), SameView(r)
  PROVE  RequestInv(r)'
<1> USE DEF SameView, RequestInv, Waiting
<1>1. ThreadInv(r)'
  BY Zenon DEF ThreadInv
<1>2. RelayInv(r)'
  BY DEF RelayInv
<1>3. SendInv(r)'
  BY Zenon DEF SendInv
<1>4. Owned(r)' <=> Owned(r)
  BY Zenon DEF Owned
<1>5. TableInv(r)'
  BY <1>4, Zenon DEF TableInv
<1> QED BY <1>1, <1>2, <1>3, <1>5, Zenon

\* Everything TaskInv speaks of.
taskVars == <<thr, relay, snd, sndReq, submitted, sent, inflight, pending, conn, dpanics>>

\* A step that changes no owner, table or answer keeps the whole invariant.
LEMMA TaskFrame ==
  ASSUME TaskInv, UNCHANGED taskVars
  PROVE  TaskInv'
<1>1. \A r \in Requests : SameView(r)
  BY Zenon DEF taskVars, SameView, SendHolds
<1>2. \A r \in Requests : RequestInv(r)'
  BY <1>1, SameViewKeeps, Zenon DEF TaskInv
<1> QED BY <1>2, Zenon DEF taskVars, TaskInv, StreamInv, NoNonexistentTask

\* The part of TypeOK the argument about ownership needs.
TaskTypes ==
  /\ thr \in [Requests -> ThreadSteps]
  /\ relay \in [Conns -> [Toolchains -> Requests \cup {NoReq, Absent}]]
  /\ snd \in [Conns -> SendSteps] /\ sndReq \in [Conns -> Requests \cup {NoReq}]
  /\ inflight \in [Requests -> Conns \cup {NoAgent, Absent}]
  /\ sent \in [Requests -> Nat] /\ conn \in [Conns -> {"off", "live", "done"}]
  /\ respQ \in Responses \cup {NoResp}

\* Type correctness gives it.
LEMMA TaskTypesHold == TypeOK => TaskTypes
  BY Zenon DEF TypeOK, AgentTypes, StreamTypes, TableTypes, StatTypes, TaskTypes

\* Streams that come and go, and received requests, keep the invariant.
LEMMA TaskStreams ==
  ASSUME TaskTypes, TaskInv, StreamStep
  PROVE  TaskInv'
<1>1. ASSUME NEW s \in Conns, NewAgentTaskStream(s) PROVE TaskInv'
  <2>1. \A u \in Conns, t \in Toolchains :
          relay'[u][t] = relay[u][t] \/ (relay[u][t] = Absent /\ relay'[u][t] = NoReq)
    BY <1>1, Zenon DEF NewAgentTaskStream, TaskTypes, TaskInv, StreamInv
  <2>2. \A u \in Conns, t \in Toolchains, r \in Requests :
          relay'[u][t] = r <=> relay[u][t] = r
    BY <2>1, BrokerAssumptions, Zenon
  <2>3. snd[s] = "off" /\ snd' = [snd EXCEPT ![s] = "token"] /\ sndReq' = sndReq
    BY <1>1, Zenon DEF NewAgentTaskStream, TaskInv, StreamInv
  <2>4. \A r \in Requests : SameView(r)
    BY <1>1, <2>2, <2>3 DEF SameView, SendHolds, NewAgentTaskStream, TaskTypes, cdVars,
         tableVars, statVars
  <2>5. \A r \in Requests : RequestInv(r)'
    BY <2>4, SameViewKeeps, Zenon DEF TaskInv
  <2>6. \A u \in Conns : StreamInv(u)'
    BY <1>1, Zenon DEF NewAgentTaskStream, TaskTypes, TaskInv, StreamInv
  <2> QED BY <1>1, <2>5, <2>6, Zenon DEF TaskInv, NewAgentTaskStream, NoNonexistentTask, statVars
<1>2. ASSUME NEW s \in Conns, Disconnect(s) PROVE TaskInv'
  <2>1. \A r \in Requests : SameView(r)
    BY <1>2, Zenon DEF SameView, SendHolds, Disconnect, streamVars, cdVars, tableVars, statVars
  <2>2. \A r \in Requests : RequestInv(r)'
    BY <2>1, SameViewKeeps, Zenon DEF TaskInv
  <2>3. \A u \in Conns : StreamInv(u)'
    BY <1>2, Zenon DEF Disconnect, TaskTypes, TaskInv, StreamInv, streamVars
  <2> QED BY <1>2, <2>2, <2>3, Zenon DEF TaskInv, Disconnect, NoNonexistentTask, statVars
<1>3. ASSUME NEW c \in Consumerds,
             NewConsumerdTaskStream(c) \/ ConsumerdDisconnect(c) \/ RecvRequestError(c)
      PROVE  TaskInv'
  BY <1>3, TaskFrame, Zenon
     DEF taskVars, NewConsumerdTaskStream, ConsumerdDisconnect, RecvRequestError, agentVars,
          streamVars, tableVars, statVars
<1>4. ASSUME NEW r \in Requests, RecvRequest(r) PROVE TaskInv'
  <2>1. \A q \in Requests \ {r} : SameView(q)
    BY <1>4, Zenon DEF SameView, SendHolds, RecvRequest, TaskTypes, streamVars, statVars
  <2>2. /\ r \notin submitted /\ submitted' = submitted \cup {r}
        /\ thr'[r] = "start"
        /\ UNCHANGED <<relay, snd, sndReq, sent, inflight, pending, conn, dpanics>>
    BY <1>4, Zenon DEF RecvRequest, TaskTypes, agentVars, streamVars, statVars
  <2>3. /\ RequestInv(r) /\ inflight[r] = Absent /\ sent[r] = 0 /\ ~Owned(r) /\ r \notin pending
    BY <2>2 DEF TaskInv, RequestInv, ThreadInv, RelayInv, SendInv, TableInv, Waiting, Owned
  <2>4. RequestInv(r)'
    BY <2>2, <2>3, Zenon DEF RequestInv, ThreadInv, RelayInv, SendInv, TableInv, Waiting, Owned,
                      SendHolds, InPending
  <2>5. \A q \in Requests : RequestInv(q)'
    BY <2>1, <2>4, SameViewKeeps, Zenon DEF TaskInv
  <2> QED BY <2>2, <2>5, Zenon DEF TaskInv, StreamInv, NoNonexistentTask
<1>5. ASSUME NEW s \in Conns, NEW t \in Toolchains, RelayExit(s, t) PROVE TaskInv'
  <2>1. \A r \in Requests : SameView(r)
    BY <1>5, BrokerAssumptions DEF SameView, SendHolds, RelayExit, TaskTypes,
         cdVars, tableVars, statVars
  <2>2. \A r \in Requests : RequestInv(r)'
    BY <2>1, SameViewKeeps, Zenon DEF TaskInv
  <2>3. \A u \in Conns : StreamInv(u)'
    BY <1>5, Zenon DEF RelayExit, TaskTypes, TaskInv, StreamInv, agentVars
  <2> QED BY <1>5, <2>2, <2>3, Zenon DEF TaskInv, RelayExit, NoNonexistentTask, statVars
<1> QED BY <1>1, <1>2, <1>3, <1>4, <1>5, Zenon DEF StreamStep

\* The routing goroutine moves on while its request stays in pendingRequests.
LEMMA TaskRouteMove ==
  ASSUME TaskTypes, TaskInv, NEW r \in Requests, NEW from \in InPending, NEW to \in InPending,
         Goto(r, from, to),
         UNCHANGED <<relay, snd, sndReq, submitted, sent, inflight, pending, conn, dpanics>>
  PROVE  TaskInv'
<1>1. \A q \in Requests \ {r} : SameView(q)
  BY Zenon DEF Goto, SameView, SendHolds, TaskTypes
<1>2. thr[r] = from /\ thr'[r] = to /\ from # "none" /\ to # "none"
  BY Zenon DEF Goto, TaskTypes, InPending
<1>3. RequestInv(r)'
  BY <1>2 DEF TaskInv, RequestInv, ThreadInv, RelayInv, SendInv, TableInv, Waiting, Owned,
              SendHolds
<1>4. \A q \in Requests : RequestInv(q)'
  BY <1>1, <1>3, SameViewKeeps, Zenon DEF TaskInv
<1> QED BY <1>4, Zenon DEF TaskInv, StreamInv, NoNonexistentTask

\* It enters the request in pendingRequests, or takes it out again.
LEMMA TaskRoutePending ==
  ASSUME TaskTypes, TaskInv, NEW r \in Requests, NEW to \in ThreadSteps \ {"none"},
         thr[r] # "none", thr' = [thr EXCEPT ![r] = to],
         pending' \in {pending \cup {r}, pending \ {r}},
         (r \in pending') <=> (to \in InPending),
         UNCHANGED <<relay, snd, sndReq, submitted, sent, inflight, conn, dpanics>>
  PROVE  TaskInv'
<1>1. \A q \in Requests \ {r} : SameView(q)
  BY Zenon DEF SameView, SendHolds, TaskTypes
<1>2. thr'[r] = to
  BY Zenon DEF TaskTypes
<1>3. RequestInv(r)'
  BY <1>2 DEF TaskInv, RequestInv, ThreadInv, RelayInv, SendInv, TableInv, Waiting, Owned,
              SendHolds
<1>4. \A q \in Requests : RequestInv(q)'
  BY <1>1, <1>3, SameViewKeeps, Zenon DEF TaskInv
<1> QED BY <1>4, Zenon DEF TaskInv, StreamInv, NoNonexistentTask

\* It enters the request in inflightRequests with no agent, and is done with it.
LEMMA TaskRouteStore ==
  ASSUME TaskTypes, TaskInv, NEW r \in Requests,
         thr[r] \in {"hitstore", "failstore"}, thr' = [thr EXCEPT ![r] = "none"],
         inflight' = [inflight EXCEPT ![r] = NoAgent],
         UNCHANGED <<relay, snd, sndReq, submitted, sent, pending, conn, dpanics>>
  PROVE  TaskInv'
<1>1. \A q \in Requests \ {r} : SameView(q)
  BY Zenon DEF SameView, SendHolds, TaskTypes
<1>2. thr'[r] = "none" /\ inflight'[r] = NoAgent /\ NoAgent # Absent
  BY BrokerAssumptions, Zenon DEF TaskTypes
<1>3. /\ ThreadInv(r) /\ Waiting(r) /\ r \notin pending
      /\ \A s \in Conns, t \in Toolchains : relay[s][t] # r
      /\ \A s \in Conns : ~SendHolds(s, r)
  BY Zenon DEF TaskInv, RequestInv, ThreadInv, InPending
<1>4. RequestInv(r)'
  BY <1>2, <1>3, Zenon DEF RequestInv, ThreadInv, RelayInv, SendInv, TableInv, Waiting, Owned,
                    SendHolds
<1>5. \A q \in Requests : RequestInv(q)'
  BY <1>1, <1>4, SameViewKeeps, Zenon DEF TaskInv
<1> QED BY <1>5, Zenon DEF TaskInv, StreamInv, NoNonexistentTask

\* routeNewRequest, Route and the cache hook keep the invariant.
LEMMA TaskRoute ==
  ASSUME TaskTypes, TaskInv, NEW r \in Requests, RouteStep(r)
  PROVE  TaskInv'
<1>1. CASE StorePending(r)
  <2>1. PICK to \in {"fail", "hook"} : Goto(r, "start", to)
    BY <1>1, Zenon DEF StorePending
  <2>2. to \in InPending /\ to \in ThreadSteps \ {"none"}
    BY Zenon DEF InPending, ThreadSteps
  <2> QED BY <1>1, <2>1, <2>2, TaskRoutePending, Zenon DEF StorePending, Goto, agentVars,
       streamVars, cdVars
<1>2. CASE PreReceive(r)
  <2>1. PICK to \in {"pull", "check"} : Goto(r, "hook", to)
    BY <1>2, Zenon DEF PreReceive
  <2>2. "hook" \in InPending /\ to \in InPending
    BY Zenon DEF InPending
  <2> QED BY <1>2, <2>1, <2>2, TaskRouteMove, Zenon DEF PreReceive, agentVars, streamVars, cdVars,
       statVars
<1>3. CASE PullFound(r) \/ PullNotFound(r) \/ PullError(r)
  <2>1. PICK to \in {"hit", "check"} : Goto(r, "pull", to)
    BY <1>3, Zenon DEF PullFound, PullNotFound, PullError
  <2>2. "pull" \in InPending /\ to \in InPending
    BY Zenon DEF InPending
  <2> QED BY <1>3, <2>1, <2>2, TaskRouteMove, Zenon DEF PullFound, PullNotFound, PullError,
       agentVars, streamVars, cdVars, statVars
<1>4. CASE TakeHit(r)
  <2>1. thr[r] = "hit" /\ r \in pending
    BY <1>4, TakeHitEffect, Zenon DEF TaskInv, RequestInv, ThreadInv, InPending
  <2>2. thr' = [thr EXCEPT ![r] = "hitstore"] /\ dpanics' = dpanics /\ pending' = pending \ {r}
    BY <1>4, <2>1, TakeHitEffect, Zenon
  <2>3. "hitstore" \in ThreadSteps \ {"none"} /\ "hitstore" \notin InPending
    BY Zenon DEF InPending, ThreadSteps
  <2> QED BY <1>4, <2>1, <2>2, <2>3, TaskRoutePending, Zenon DEF TakeHit, agentVars,
       streamVars, cdVars
<1>5. CASE StoreHit(r)
  BY <1>5, TaskRouteStore, Zenon DEF StoreHit, Goto, agentVars, streamVars, cdVars, statVars
<1>6. CASE CheckAgents(r)
  <2>1. PICK to \in {"select", "fail"} : Goto(r, "check", to)
    BY <1>6, Zenon DEF CheckAgents
  <2>2. "check" \in InPending /\ to \in InPending
    BY Zenon DEF InPending
  <2> QED BY <1>6, <2>1, <2>2, TaskRouteMove, Zenon DEF CheckAgents, agentVars, streamVars, cdVars,
       statVars
<1>7. ASSUME NEW s \in Conns, HandOff(r, s) PROVE TaskInv'
  <2> DEFINE t == TcOf[r]
  <2>1. /\ t \in Toolchains /\ relay[s][t] = NoReq /\ thr[r] = "select"
        /\ thr' = [thr EXCEPT ![r] = "none"]
        /\ relay' = [relay EXCEPT ![s][t] = r]
        /\ UNCHANGED <<snd, sndReq, submitted, sent, inflight, pending, conn, dpanics>>
    BY <1>7, Zenon DEF HandOff, Goto, agentVars, statVars
  <2>2. \A u \in Conns, v \in Toolchains :
          relay'[u][v] = IF u = s /\ v = t THEN r ELSE relay[u][v]
    BY <2>1, Zenon DEF TaskTypes
  <2>3. \A q \in Requests \ {r} : SameView(q)
    BY <2>1, <2>2, BrokerAssumptions DEF SameView, SendHolds, TaskTypes
  <2>4. /\ Waiting(r) /\ r \in pending /\ thr'[r] = "none"
        /\ \A u \in Conns, v \in Toolchains : relay[u][v] # r
        /\ \A u \in Conns : ~SendHolds(u, r)
    BY <2>1, Zenon DEF TaskInv, RequestInv, ThreadInv, InPending, TaskTypes
  <2>5. RequestInv(r)'
    BY <2>1, <2>2, <2>4 DEF RequestInv, ThreadInv, RelayInv, SendInv, TableInv, Waiting, Owned,
                            SendHolds
  <2>6. \A q \in Requests : RequestInv(q)'
    BY <2>3, <2>5, SameViewKeeps, Zenon DEF TaskInv
  <2>7. \A u \in Conns : StreamInv(u)'
    BY <2>1, <2>2, BrokerAssumptions DEF TaskInv, StreamInv
  <2> QED BY <2>1, <2>6, <2>7, Zenon DEF TaskInv, NoNonexistentTask
<1>8. CASE SelectCancelled(r)
  <2>1. "select" \in InPending /\ "fail" \in InPending
    BY Zenon DEF InPending
  <2> QED BY <1>8, <2>1, TaskRouteMove, Zenon DEF SelectCancelled, agentVars, streamVars, cdVars,
       statVars
<1>9. CASE TakeFailed(r)
  <2>1. thr[r] = "fail" /\ r \in pending
    BY <1>9, TakeFailedEffect, Zenon DEF TaskInv, RequestInv, ThreadInv, InPending
  <2>2. thr' = [thr EXCEPT ![r] = "failstore"] /\ dpanics' = dpanics /\ pending' = pending \ {r}
    BY <1>9, <2>1, TakeFailedEffect, Zenon
  <2>3. "failstore" \in ThreadSteps \ {"none"} /\ "failstore" \notin InPending
    BY Zenon DEF InPending, ThreadSteps
  <2> QED BY <1>9, <2>1, <2>2, <2>3, TaskRoutePending, Zenon DEF TakeFailed, agentVars,
       streamVars
<1>10. CASE StoreFailed(r)
  BY <1>10, TaskRouteStore, Zenon DEF StoreFailed, Goto, agentVars, streamVars, cdVars
<1> QED
  BY <1>1, <1>2, <1>3, <1>4, <1>5, <1>6, <1>7, <1>8, <1>9, <1>10, Zenon DEF RouteStep

\* The send goroutine of an agent keeps the invariant.
LEMMA TaskSend ==
  ASSUME TaskTypes, TaskInv, NEW s \in Conns, SendStep(s)
  PROVE  TaskInv'
<1>1. CASE LockToken(s) \/ SendDone(s)
  <2>1. /\ snd[s] = "token" /\ snd' \in {[snd EXCEPT ![s] = "filter"], [snd EXCEPT ![s] = "exit"]}
        /\ UNCHANGED <<thr, relay, sndReq, submitted, sent, inflight, pending, conn, dpanics>>
    BY <1>1, Zenon DEF LockToken, SendDone, agentVars, cdVars, tableVars, statVars
  <2>2. \A r \in Requests : SameView(r)
    BY <2>1, Zenon DEF SameView, SendHolds, TaskTypes
  <2>3. \A r \in Requests : RequestInv(r)'
    BY <2>2, SameViewKeeps, Zenon DEF TaskInv
  <2>4. \A u \in Conns : StreamInv(u)'
    BY <2>1, Zenon DEF TaskInv, StreamInv, TaskTypes
  <2> QED BY <2>1, <2>3, <2>4, Zenon DEF TaskInv, NoNonexistentTask
<1>2. ASSUME NEW t \in Toolchains, Filter(s, t) PROVE TaskInv'
  <2> PICK r \in Requests : r = relay[s][t]
    BY <1>2, Zenon DEF Filter
  <2>1. /\ snd[s] = "filter" /\ relay[s][t] = r
        /\ snd' = [snd EXCEPT ![s] = "take"] /\ sndReq' = [sndReq EXCEPT ![s] = r]
        /\ relay' = [relay EXCEPT ![s][t] = NoReq]
        /\ UNCHANGED <<thr, submitted, sent, inflight, pending, conn, dpanics>>
    BY <1>2, Zenon DEF Filter, agentVars, cdVars, tableVars, statVars
  <2>2. \A u \in Conns, v \in Toolchains :
          relay'[u][v] = IF u = s /\ v = t THEN NoReq ELSE relay[u][v]
    BY <2>1, Zenon DEF TaskTypes
  <2>3. \A q \in Requests \ {r} : SameView(q)
    BY <2>1, <2>2, BrokerAssumptions DEF SameView, SendHolds, TaskTypes
  <2>4. /\ Waiting(r) /\ r \in pending /\ thr[r] = "none"
        /\ \A u \in Conns, v \in Toolchains : relay[u][v] = r => u = s /\ v = t
        /\ \A u \in Conns : ~SendHolds(u, r)
    BY <2>1, Zenon DEF TaskInv, RequestInv, ThreadInv, RelayInv
  <2>5. \A u \in Conns, v \in Toolchains : relay'[u][v] # r
    BY <2>1, <2>2, <2>4, BrokerAssumptions
  <2>6. \A u \in Conns : SendHolds(u, r)' <=> u = s
    BY <2>1, <2>4, Zenon DEF SendHolds, TaskTypes
  <2>7. RequestInv(r)'
    <3>1. ThreadInv(r)'
      BY <2>1, <2>4, <2>5, <2>6, Zenon DEF ThreadInv, Waiting, TaskTypes
    <3>2. RelayInv(r)'
      BY <2>1, <2>4, <2>5, <2>6, Zenon DEF RelayInv, Waiting, TaskTypes
    <3>3. SendInv(r)'
      BY <2>1, <2>4, <2>5, <2>6, Zenon DEF SendInv, Waiting, TaskTypes
    <3>4. TableInv(r)'
      BY <2>1, <2>4, <2>5, <2>6, Zenon DEF TableInv, Owned, Waiting, TaskTypes
    <3> QED BY <3>1, <3>2, <3>3, <3>4, Zenon DEF RequestInv
  <2>8. \A q \in Requests : RequestInv(q)'
    BY <2>3, <2>7, SameViewKeeps, Zenon DEF TaskInv
  <2>9. \A u \in Conns : StreamInv(u)'
    BY <2>1, <2>2, BrokerAssumptions, ZenonT(30) DEF TaskInv, StreamInv, TaskTypes
  <2> QED BY <2>1, <2>8, <2>9, Zenon DEF TaskInv, NoNonexistentTask
<1>3. CASE TakePending(s)
  <2> PICK r \in Requests : r = sndReq[s]
    BY <1>3, Zenon DEF TakePending, TaskInv, StreamInv
  <2>1. snd[s] = "take" /\ SendHolds(s, r)
    BY <1>3, Zenon DEF TakePending, TaskInv, StreamInv, SendHolds
  <2>2. /\ Waiting(r) /\ r \in pending /\ thr[r] = "none"
        /\ \A u \in Conns, v \in Toolchains : relay[u][v] # r
        /\ \A u \in Conns : SendHolds(u, r) => u = s
    BY <2>1, Zenon DEF TaskInv, RequestInv, ThreadInv, RelayInv, SendInv
  <2>3. /\ snd' = [snd EXCEPT ![s] = "store"] /\ sndReq' = sndReq /\ dpanics' = dpanics
        /\ pending' = pending \ {r}
        /\ UNCHANGED <<thr, relay, submitted, sent, inflight, conn>>
    BY <1>3, <2>2, TakePendingEffect, Zenon DEF TakePending, agentVars, cdVars
  <2>4. \A q \in Requests \ {r} : SameView(q)
    BY <2>3, Zenon DEF SameView, SendHolds, TaskTypes
  <2>5. \A u \in Conns : SendHolds(u, r)' <=> u = s
    BY <2>1, <2>2, <2>3, Zenon DEF SendHolds, TaskTypes
  <2>6. RequestInv(r)'
    <3>1. ThreadInv(r)'
      BY <2>2, <2>3, <2>5, Zenon DEF ThreadInv, Waiting, TaskTypes
    <3>2. RelayInv(r)'
      BY <2>2, <2>3, <2>5, Zenon DEF RelayInv, Waiting, TaskTypes
    <3>3. SendInv(r)'
      BY <2>2, <2>3, <2>5, Zenon DEF SendInv, Waiting, TaskTypes
    <3>4. TableInv(r)'
      BY <2>2, <2>3, <2>5, Zenon DEF TableInv, Owned, Waiting, TaskTypes
    <3> QED BY <3>1, <3>2, <3>3, <3>4, Zenon DEF RequestInv
  <2>7. \A q \in Requests : RequestInv(q)'
    BY <2>4, <2>6, SameViewKeeps, Zenon DEF TaskInv
  <2>8. \A u \in Conns : StreamInv(u)'
    BY <2>1, <2>3, Zenon DEF TaskInv, StreamInv, TaskTypes
  <2> QED BY <2>3, <2>7, <2>8, Zenon DEF TaskInv, NoNonexistentTask
<1>4. CASE StoreInflight(s)
  <2> PICK r \in Requests : r = sndReq[s]
    BY <1>4, Zenon DEF StoreInflight, TaskInv, StreamInv
  <2>1. snd[s] = "store" /\ SendHolds(s, r)
    BY <1>4, Zenon DEF StoreInflight, TaskInv, StreamInv, SendHolds
  <2>2. /\ Waiting(r) /\ r \notin pending /\ thr[r] = "none"
        /\ \A u \in Conns, v \in Toolchains : relay[u][v] # r
        /\ \A u \in Conns : SendHolds(u, r) => u = s
    BY <2>1, Zenon DEF TaskInv, RequestInv, ThreadInv, RelayInv, SendInv
  <2>3. /\ snd' = [snd EXCEPT ![s] = "send"]
        /\ inflight' = [inflight EXCEPT ![r] = s]
        /\ UNCHANGED <<thr, relay, sndReq, submitted, sent, pending, conn, dpanics>>
    BY <1>4, Zenon DEF StoreInflight, agentVars, cdVars, statVars
  <2>4. \A q \in Requests \ {r} : SameView(q)
    BY <2>3, Zenon DEF SameView, SendHolds, TaskTypes
  <2>5. inflight'[r] # Absent /\ \A u \in Conns : ~SendHolds(u, r)'
    BY <2>1, <2>2, <2>3, BrokerAssumptions, Zenon DEF SendHolds, TaskTypes
  <2>6. RequestInv(r)'
    <3>1. ThreadInv(r)'
      BY <2>2, <2>3, <2>5, Zenon DEF ThreadInv, Waiting
    <3>2. RelayInv(r)'
      BY <2>2, <2>3, <2>5, Zenon DEF RelayInv, Waiting
    <3>3. SendInv(r)'
      BY <2>2, <2>3, <2>5, Zenon DEF SendInv, Waiting
    <3>4. TableInv(r)'
      BY <2>2, <2>3, <2>5, Zenon DEF TableInv, Owned, Waiting
    <3> QED BY <3>1, <3>2, <3>3, <3>4, Zenon DEF RequestInv
  <2>7. \A q \in Requests : RequestInv(q)'
    BY <2>4, <2>6, SameViewKeeps, Zenon DEF TaskInv
  <2>8. \A u \in Conns : StreamInv(u)'
    BY <2>1, <2>3, Zenon DEF TaskInv, StreamInv, TaskTypes
  <2> QED BY <2>3, <2>7, <2>8, Zenon DEF TaskInv, NoNonexistentTask
<1>5. CASE SendRequest(s)
  <2>1. /\ snd[s] = "send" /\ snd' \in {[snd EXCEPT ![s] = "token"], [snd EXCEPT ![s] = "exit"]}
        /\ sndReq' = [sndReq EXCEPT ![s] = NoReq]
        /\ UNCHANGED <<thr, relay, submitted, sent, inflight, pending, conn, dpanics>>
    BY <1>5, Zenon DEF SendRequest, agentVars, cdVars, tableVars, statVars
  <2>2. \A r \in Requests : SameView(r)
    BY <2>1, Zenon DEF SameView, SendHolds, TaskTypes
  <2>3. \A r \in Requests : RequestInv(r)'
    BY <2>2, SameViewKeeps, Zenon DEF TaskInv
  <2>4. \A u \in Conns : StreamInv(u)'
    BY <2>1, Zenon DEF TaskInv, StreamInv, TaskTypes
  <2> QED BY <2>1, <2>3, <2>4, Zenon DEF TaskInv, NoNonexistentTask
<1> QED BY <1>1, <1>2, <1>3, <1>4, <1>5, Zenon DEF SendStep

\* handleResponseQueue keeps the invariant: a request with an inflight entry has
\* no other owner, so requeueing it gives it one and answering it none.
LEMMA TaskResponse ==
  ASSUME TaskTypes, TaskInv, ResponseStep
  PROVE  TaskInv'
<1>1. CASE HandleResponse
  <2> PICK r \in Requests : r = respQ.id
    BY <1>1, ResponseFields, HandleResponseEffect, Zenon DEF TaskTypes
  <2>1. inflight[r] # Absent
    BY <1>1, HandleResponseEffect, Zenon
  <2>2. /\ inflight' = [inflight EXCEPT ![r] = Absent]
        /\ UNCHANGED <<relay, snd, sndReq, submitted, pending, conn, dpanics>>
    BY <1>1, Zenon DEF HandleResponse, streamVars, cdVars
  <2>3. \/ thr' = [thr EXCEPT ![r] = "start"] /\ sent' = sent
        \/ thr' = thr /\ sent' = [sent EXCEPT ![r] = @ + 1]
    BY <1>1, HandleResponseEffect, Zenon
  <2>4. \A q \in Requests \ {r} : SameView(q)
    BY <2>2, <2>3, Zenon DEF SameView, SendHolds, TaskTypes
  <2>5. /\ r \in submitted /\ sent[r] = 0 /\ r \notin pending /\ ~Owned(r)
    BY <2>1, Zenon DEF TaskInv, RequestInv, ThreadInv, RelayInv, SendInv, TableInv, Waiting, Owned
  <2>6. RequestInv(r)'
    <3>1. inflight'[r] = Absent
      BY <2>1, <2>2, Zenon DEF TaskTypes
    <3>2. CASE thr' = [thr EXCEPT ![r] = "start"] /\ sent' = sent
      <4>1. thr'[r] = "start"
        BY <2>1, <3>2, Zenon DEF TaskTypes
      <4>2. ThreadInv(r)'
        BY <2>2, <2>5, <3>1, <3>2, <4>1, Zenon DEF ThreadInv, Waiting, Owned, SendHolds, InPending
      <4>3. RelayInv(r)'
        BY <2>2, <2>5, Zenon DEF RelayInv, Owned
      <4>4. SendInv(r)'
        BY <2>2, <2>5, Zenon DEF SendInv, Owned, SendHolds
      <4>5. TableInv(r)'
        BY <2>2, <2>5, <3>1, <3>2, <4>1, Zenon DEF TableInv, Owned
      <4> QED BY <4>2, <4>3, <4>4, <4>5, Zenon DEF RequestInv
    <3>3. CASE thr' = thr /\ sent' = [sent EXCEPT ![r] = @ + 1]
      <4>1. sent'[r] = 1
        BY <2>1, <2>5, <3>3 DEF TaskTypes
      <4>2. ThreadInv(r)'
        BY <2>5, <3>3, Zenon DEF ThreadInv, Owned
      <4>3. RelayInv(r)'
        BY <2>2, <2>5, Zenon DEF RelayInv, Owned
      <4>4. SendInv(r)'
        BY <2>2, <2>5, Zenon DEF SendInv, Owned, SendHolds
      <4>5. TableInv(r)'
        BY <2>2, <2>5, <3>1, <4>1 DEF TableInv
      <4> QED BY <4>2, <4>3, <4>4, <4>5, Zenon DEF RequestInv
    <3> QED BY <2>3, <3>2, <3>3, Zenon
  <2>7. \A q \in Requests : RequestInv(q)'
    BY <2>4, <2>6, SameViewKeeps, Zenon DEF TaskInv
  <2> QED BY <2>2, <2>7, Zenon DEF TaskInv, StreamInv, NoNonexistentTask
<1>2. CASE DropResponse
  BY <1>2, TaskFrame, Zenon DEF DropResponse, taskVars, agentVars, streamVars, cdVars,
       statVars
<1> QED BY <1>1, <1>2, Zenon DEF ResponseStep

\* The recv goroutine touches no table.
LEMMA TaskRecv ==
  ASSUME TaskTypes, TaskInv, NEW s \in Conns, RecvStep(s)
  PROVE  TaskInv'
<1>1. ASSUME NEW r \in Requests, NEW result \in AgentResults, RecvResponse(s, r, result)
      PROVE  TaskInv'
  <2>1. UNCHANGED <<thr, relay, snd, sndReq, submitted, sent, inflight, pending, conn>>
    BY <1>1, Zenon DEF RecvResponse, agentVars, cdVars, tableVars
  <2>2. NoNonexistentTask'
    BY <1>1, RecvResponseEffect, Zenon DEF TaskInv, NoNonexistentTask
  <2>3. \A q \in Requests : SameView(q)
    BY <2>1, Zenon DEF SameView, SendHolds
  <2>4. \A q \in Requests : RequestInv(q)'
    BY <2>3, SameViewKeeps, Zenon DEF TaskInv
  <2> QED BY <2>1, <2>2, <2>4, Zenon DEF TaskInv, StreamInv
<1>2. CASE RecvDone(s)
  BY <1>2, TaskFrame, Zenon DEF RecvDone, taskVars, agentVars, cdVars, tableVars, statVars
<1> QED BY <1>1, <1>2, Zenon DEF RecvStep

\* Cleanup, the response queue and the cache touch no owner.
LEMMA TaskOther ==
  ASSUME TaskInv, QueueStep \/ CacheStep \/ \E s \in Conns : CleanupStep(s)
  PROVE  TaskInv'
<1>1. CASE QueueStep
  <2>1. UNCHANGED taskVars
    BY <1>1, Zenon DEF QueueStep, QueueFromRoute, QueueFromAgent, QueueFromCleanup, taskVars,
         agentVars, streamVars, cdVars, statVars
  <2> QED BY <2>1, TaskFrame, Zenon
<1>2. CASE CacheStep
  <2>1. UNCHANGED taskVars
    BY <1>2, Zenon DEF CacheStep, WatchCacheAvailability, CacheTransaction, Evict, taskVars,
         agentVars, streamVars, cdVars, tableVars, statVars
  <2> QED BY <2>1, TaskFrame, Zenon
<1>3. ASSUME NEW s \in Conns, CleanupStep(s) PROVE TaskInv'
  <2>1. UNCHANGED taskVars
    BY <1>3, Zenon DEF CleanupStep, CleanupAgent, RangeDefunct, RangeEnd, taskVars,
         streamVars, cdVars, tableVars, statVars
  <2> QED BY <2>1, TaskFrame, Zenon
<1> QED BY <1>1, <1>2, <1>3, Zenon

\* Every step of the broker keeps the invariant.
LEMMA TaskNext == TypeOK /\ TaskInv /\ [Next]_vars => TaskInv'
<1> SUFFICES ASSUME TypeOK, TaskInv, [Next]_vars PROVE TaskInv'
  OBVIOUS
<1>1. CASE Next
  BY <1>1, TaskTypesHold, TaskStreams, TaskRoute, TaskSend, TaskRecv, TaskResponse, TaskOther, Zenon
     DEF Next
<1>2. CASE UNCHANGED vars
  BY <1>2, TaskFrame, Zenon DEF taskVars, vars, agentVars, streamVars, cdVars, tableVars, statVars
<1> QED BY <1>1, <1>2, Zenon

\* In every reachable state a request has one owner, and pendingRequests and
\* inflightRequests agree with where the goroutines of the broker are.
THEOREM TaskInvariant == Spec => []TaskInv
  BY TypeInit, TypeNext, TaskInit, TaskNext, PTL DEF Spec

\* The inductive invariant implies the properties the runs check.
LEMMA TaskInvGives ==
  ASSUME TypeOK, TaskInv
  PROVE  InOnePlace /\ AtMostOneAnswer /\ NoNonexistentTask
<1>1. AtMostOneAnswer
  BY DEF TaskInv, RequestInv, TableInv, AtMostOneAnswer
<1>2. ASSUME NEW r \in Requests
      PROVE  /\ \A p, q \in Places(r) : p = q
             /\ (Places(r) # {}) <=> (r \in submitted /\ sent[r] = 0)
  <2> DEFINE A == {x \in {r} : thr[x] # "none"}
             B == {p \in Conns \X Toolchains : relay[p[1]][p[2]] = r}
             C == {s \in Conns : sndReq[s] = r /\ snd[s] \in {"take", "store"}}
             D == {x \in {r} : inflight[x] # Absent}
  <2>0. ThreadInv(r) /\ RelayInv(r) /\ SendInv(r) /\ TableInv(r)
    BY Zenon DEF TaskInv, RequestInv
  <2>1. Places(r) = (A \X {"route"}) \cup (B \X {"relay"}) \cup (C \X {"send"})
                      \cup (D \X {"inflight"})
    BY Zenon DEF Places
  <2>2. \A x, y \in A : x = y
    OBVIOUS
  <2>3. \A x, y \in D : x = y
    OBVIOUS
  <2>4. \A x, y \in C : x = y
    BY <2>0, Zenon DEF SendInv, SendHolds
  <2>5. \A x, y \in B : x = y
    <3>1. ASSUME NEW x \in B, NEW y \in B PROVE x[1] = y[1] /\ x[2] = y[2]
      BY <2>0 DEF RelayInv
    <3> QED BY <3>1
  <2>6. /\ A # {} => B = {} /\ C = {} /\ D = {}
        /\ B # {} => C = {} /\ D = {}
        /\ C # {} => D = {}
    <3>1. A # {} => B = {} /\ C = {} /\ D = {}
      BY <2>0, Zenon DEF ThreadInv, Waiting, SendHolds
    <3>2. B # {} => C = {} /\ D = {}
      BY <2>0, Zenon DEF RelayInv, Waiting, SendHolds
    <3>3. C # {} => D = {}
      BY <2>0, Zenon DEF SendInv, Waiting, SendHolds
    <3> QED BY <3>1, <3>2, <3>3, Zenon
  <2>7. A # {} \/ B # {} \/ C # {} \/ D # {} <=> r \in submitted /\ sent[r] = 0
    <3>1. A # {} <=> thr[r] # "none"
      OBVIOUS
    <3>2. D # {} <=> inflight[r] # Absent
      OBVIOUS
    <3>3. C # {} <=> \E s \in Conns : SendHolds(s, r)
      BY Zenon DEF SendHolds
    <3>4. B # {} <=> \E s \in Conns, t \in Toolchains : relay[s][t] = r
      <4>1. ASSUME NEW s \in Conns, NEW t \in Toolchains, relay[s][t] = r PROVE <<s, t>> \in B
        BY <4>1, Zenon
      <4> QED BY <4>1, ZenonT(30)
    <3> HIDE DEF A, B, C, D
    <3>5. Owned(r) \/ inflight[r] # Absent <=> r \in submitted /\ sent[r] = 0
      BY <2>0, Zenon DEF ThreadInv, RelayInv, SendInv, TableInv, Waiting, Owned
    <3> QED BY <3>1, <3>2, <3>3, <3>4, <3>5, Zenon DEF Owned
  <2> HIDE DEF A, B, C, D
  <2>8. Places(r) # {} <=> A # {} \/ B # {} \/ C # {} \/ D # {}
    <3>1. ASSUME NEW x \in A PROVE <<x, "route">> \in Places(r)
      BY <2>1, Zenon
    <3>2. ASSUME NEW x \in B PROVE <<x, "relay">> \in Places(r)
      BY <2>1, Zenon
    <3>3. ASSUME NEW x \in C PROVE <<x, "send">> \in Places(r)
      BY <2>1, Zenon
    <3>4. ASSUME NEW x \in D PROVE <<x, "inflight">> \in Places(r)
      BY <2>1, Zenon
    <3> QED BY <2>1, <3>1, <3>2, <3>3, <3>4, Zenon
  <2>9. ASSUME NEW p \in Places(r), NEW q \in Places(r) PROVE p = q
    <3>1. CASE A # {}
      BY <2>1, <2>2, <2>6, <3>1
    <3>2. CASE B # {}
      BY <2>1, <2>5, <2>6, <3>2
    <3>3. CASE C # {}
      BY <2>1, <2>4, <2>6, <3>3
    <3>4. CASE D # {}
      BY <2>1, <2>3, <2>6, <3>4
    <3> QED BY <2>8, <3>1, <3>2, <3>3, <3>4, Zenon
  <2> QED BY <2>7, <2>8, <2>9, Zenon
<1> QED BY <1>1, <1>2, Zenon DEF InOnePlace, TaskInv

\* However agents come, go, reconnect and answer late, a request received from
\* a consumerd is in exactly one place until it is answered.
THEOREM InOnePlaceAlways == Spec => []InOnePlace
  BY TypeCorrect, TaskInvariant, TaskInvGives, PTL

\* No request is answered twice by handleResponseQueue.
THEOREM AtMostOneAnswerAlways == Spec => []AtMostOneAnswer
  BY TypeCorrect, TaskInvariant, TaskInvGives, PTL

\* None of the three DPanics about pendingRequests can be reached.
THEOREM NoNonexistentTaskAlways == Spec => []NoNonexistentTask
  BY TypeCorrect, TaskInvariant, TaskInvGives, PTL
=============================================================================
