------------------------ MODULE BrokerServiceProofs -------------------------
(***************************************************************************)
(* What the broker answers and counts.  A Success is genuine, and Broker   *)
(* implements TaskService: every step of it is a step of the service or    *)
(* invisible.  The tokens of an agent, the answers behind completedTasks   *)
(* and failedTasks, and SchedulingRequestsTotal add up, and a Retry is     *)
(* only written after an agent's stream was lost.                          *)
(***************************************************************************)
EXTENDS BrokerProofs, FiniteSetTheorems

-----------------------------------------------------------------------------
(* Every Success on its way to a consumerd, and every object on its way to *)
(* or in the cache, belongs to a translation unit some agent has compiled. *)
GenuineInv ==
  /\ cache \subseteq built /\ pushes \subseteq built
  /\ \A r \in Requests : thr[r] \in {"hit", "hitstore"} => KeyOf[r] \in built
  /\ \A r \in Requests : outbox[r]["Success"] > 0 => KeyOf[r] \in built
  /\ \A s \in Conns : rcvResp[s].result = "Success" => KeyOf[rcvResp[s].id] \in built
  /\ respQ.result = "Success" => KeyOf[respQ.id] \in built
  /\ SuccessIsGenuine

genuineVars == <<cache, pushes, built, thr, outbox, rcvResp, respQ, answer>>

\* It holds in the empty broker.
LEMMA GenuineInit == Init => GenuineInv
  BY ResultFacts DEF Init, GenuineInv, SuccessIsGenuine, NoResp

\* A step that changes no result, cache or history keeps GenuineInv.
LEMMA GenuineFrame ==
  ASSUME GenuineInv, UNCHANGED genuineVars
  PROVE  GenuineInv'
  BY Zenon DEF GenuineInv, genuineVars, SuccessIsGenuine

\* The routing goroutine moves on without a response; it is at "hit" only
\* after the cache server returned the object.
LEMMA GenuineRouteMove ==
  ASSUME TypeOK, GenuineInv, NEW r \in Requests, NEW to,
         thr' = [thr EXCEPT ![r] = to],
         to \in {"hit", "hitstore"} => KeyOf[r] \in built,
         UNCHANGED <<cache, pushes, built, outbox, rcvResp, respQ, answer>>
  PROVE  GenuineInv'
<1>1. \A q \in Requests : thr'[q] \in {"hit", "hitstore"} => KeyOf[q] \in built
  BY Zenon DEF GenuineInv, TypeOK, TableTypes
<1> QED BY <1>1, Zenon DEF GenuineInv, SuccessIsGenuine

\* It blocks on responseQueue.
LEMMA GenuineRouteStore ==
  ASSUME TypeOK, GenuineInv, NEW r \in Requests, NEW x \in RouteResults,
         x = "Success" => KeyOf[r] \in built,
         thr' = [thr EXCEPT ![r] = "none"],
         outbox' = [outbox EXCEPT ![r][x] = @ + 1],
         UNCHANGED <<cache, pushes, built, rcvResp, respQ, answer>>
  PROVE  GenuineInv'
<1>1. \A q \in Requests : thr'[q] \in {"hit", "hitstore"} => KeyOf[q] \in built
  BY Zenon DEF GenuineInv, TypeOK, TableTypes
<1>2. outbox \in [Requests -> [RouteResults -> Nat]]
  BY Zenon DEF TypeOK, TableTypes
<1>3. \A q \in Requests : outbox'[q]["Success"] > 0 => KeyOf[q] \in built
  <2>1. ASSUME NEW q \in Requests, q # r \/ x # "Success"
        PROVE  outbox'[q]["Success"] = outbox[q]["Success"]
    BY <1>2, <2>1, ResultFacts, Zenon
  <2> QED BY <2>1, Zenon DEF GenuineInv
<1> QED BY <1>1, <1>3, Zenon DEF GenuineInv, SuccessIsGenuine

\* routeNewRequest and the cache hook keep GenuineInv.
LEMMA GenuineRoute ==
  ASSUME TypeOK, GenuineInv, NEW r \in Requests, RouteStep(r)
  PROVE  GenuineInv'
<1>1. CASE StorePending(r)
  <2>1. PICK to \in {"fail", "hook"} : Goto(r, "start", to)
    BY <1>1, Zenon DEF StorePending
  <2> QED BY <1>1, <2>1, GenuineRouteMove, Zenon DEF StorePending, Goto, streamVars, cacheVars
<1>2. CASE PreReceive(r)
  <2>1. PICK to \in {"pull", "check"} : Goto(r, "hook", to)
    BY <1>2, Zenon DEF PreReceive
  <2> QED BY <1>2, <2>1, GenuineRouteMove, Zenon DEF PreReceive, Goto, streamVars, cacheVars,
       statVars
<1>3. CASE PullFound(r)
  <2>1. KeyOf[r] \in built
    BY <1>3, Zenon DEF PullFound, GenuineInv
  <2> QED BY <1>3, <2>1, GenuineRouteMove, Zenon DEF PullFound, Goto, streamVars, cacheVars,
       statVars
<1>4. CASE PullNotFound(r) \/ PullError(r)
  BY <1>4, GenuineRouteMove, Zenon DEF PullNotFound, PullError, Goto, streamVars, cacheVars, statVars
<1>5. CASE TakeHit(r)
  <2>1. KeyOf[r] \in built
    BY <1>5, TakeHitEffect, Zenon DEF GenuineInv
  <2>2. PICK to \in {"hitstore", "check"} : thr' = [thr EXCEPT ![r] = to]
    BY <1>5, TakeHitEffect, Zenon
  <2> QED BY <1>5, <2>1, <2>2, GenuineRouteMove, Zenon DEF TakeHit, streamVars, cacheVars
<1>6. CASE StoreHit(r)
  <2>1. KeyOf[r] \in built
    BY <1>6, Zenon DEF StoreHit, Goto, GenuineInv
  <2> QED BY <1>6, <2>1, GenuineRouteStore, ResultFacts, Zenon DEF StoreHit, Goto,
       streamVars, cacheVars, statVars
<1>7. CASE CheckAgents(r)
  <2>1. PICK to \in {"select", "fail"} : Goto(r, "check", to)
    BY <1>7, Zenon DEF CheckAgents
  <2> QED BY <1>7, <2>1, GenuineRouteMove, Zenon DEF CheckAgents, Goto, streamVars,
       cacheVars, statVars
<1>8. ASSUME NEW s \in Conns, HandOff(r, s) PROVE GenuineInv'
  BY <1>8, GenuineRouteMove, Zenon DEF HandOff, Goto, cacheVars, statVars
<1>9. CASE SelectCancelled(r)
  BY <1>9, GenuineRouteMove, Zenon DEF SelectCancelled, Goto, streamVars, cacheVars, statVars
<1>10. CASE TakeFailed(r)
  <2>1. PICK to \in {"failstore", "none"} : thr' = [thr EXCEPT ![r] = to]
    BY <1>10, TakeFailedEffect, Zenon
  <2> QED BY <1>10, <2>1, GenuineRouteMove, Zenon DEF TakeFailed, streamVars, cacheVars
<1>11. CASE StoreFailed(r)
  <2>1. IfRouteFails(r) \in RouteResults /\ IfRouteFails(r) # "Success"
    BY ResultFacts, Zenon DEF IfRouteFails
  <2> QED BY <1>11, <2>1, GenuineRouteStore, Zenon DEF StoreFailed, Goto, streamVars,
       cacheVars
<1> QED
  BY <1>1, <1>2, <1>3, <1>4, <1>5, <1>6, <1>7, <1>8, <1>9, <1>10, <1>11, Zenon DEF RouteStep

\* An answer of an agent is recorded as built in the step that receives it.
LEMMA GenuineRecv ==
  ASSUME TypeOK, GenuineInv, NEW s \in Conns, RecvStep(s)
  PROVE  GenuineInv'
<1>1. ASSUME NEW r \in Requests, NEW result \in AgentResults, RecvResponse(s, r, result)
      PROVE  GenuineInv'
  <2>1. built \subseteq built' /\ (result = "Success" => KeyOf[r] \in built')
    BY <1>1, RecvResponseEffect
  <2>2. /\ rcvResp' = [rcvResp EXCEPT ![s] = [id |-> r, result |-> result]]
        /\ UNCHANGED <<cache, pushes, thr, outbox, respQ, answer>>
    BY <1>1, Zenon DEF RecvResponse, tableVars
  <2>3. ASSUME NEW u \in Conns, rcvResp'[u].result = "Success"
        PROVE  KeyOf[rcvResp'[u].id] \in built'
    <3>1. CASE u = s
      BY <2>1, <2>2, <2>3, <3>1, Zenon DEF TypeOK, StreamTypes
    <3>2. CASE u # s
      BY <2>1, <2>2, <2>3, <3>2, Zenon DEF TypeOK, StreamTypes, GenuineInv
    <3> QED BY <3>1, <3>2, Zenon
  <2> QED BY <2>1, <2>2, <2>3, Zenon DEF GenuineInv, SuccessIsGenuine
<1>2. CASE RecvDone(s)
  BY <1>2, GenuineFrame, Zenon DEF RecvDone, genuineVars, tableVars, cacheVars, statVars
<1> QED BY <1>1, <1>2, Zenon DEF RecvStep

\* A rendezvous on responseQueue carries the result unchanged.
LEMMA GenuineQueue ==
  ASSUME TypeOK, GenuineInv, QueueStep
  PROVE  GenuineInv'
<1>1. ASSUME NEW r \in Requests, NEW x \in RouteResults, QueueFromRoute(r, x)
      PROVE  GenuineInv'
  <2>1. outbox \in [Requests -> [RouteResults -> Nat]]
    BY Zenon DEF TypeOK, TableTypes
  <2>2. /\ outbox[r][x] > 0 /\ outbox' = [outbox EXCEPT ![r][x] = @ - 1]
        /\ respQ' = [id |-> r, result |-> x]
        /\ UNCHANGED <<cache, pushes, built, thr, rcvResp, answer>>
    BY <1>1, Zenon DEF QueueFromRoute, streamVars, cacheVars, statVars
  <2>3. \A q \in Requests : outbox'[q]["Success"] > 0 => outbox[q]["Success"] > 0
    BY <2>1, <2>2, ResultFacts, Zenon
  <2>4. respQ'.result = "Success" => KeyOf[respQ'.id] \in built'
    BY <2>2, Zenon DEF GenuineInv
  <2> QED BY <2>2, <2>3, <2>4, Zenon DEF GenuineInv, SuccessIsGenuine
<1>2. ASSUME NEW s \in Conns, QueueFromAgent(s) PROVE GenuineInv'
  <2>1. /\ respQ' = rcvResp[s] /\ rcvResp' = [rcvResp EXCEPT ![s] = NoResp]
        /\ UNCHANGED <<cache, pushes, built, thr, outbox, answer>>
    BY <1>2, Zenon DEF QueueFromAgent, cacheVars, statVars
  <2>2. \A u \in Conns : rcvResp'[u] \in {rcvResp[u], NoResp}
    BY <2>1, Zenon DEF TypeOK, StreamTypes
  <2>3. NoResp.result # "Success"
    BY Zenon DEF NoResp
  <2> QED BY <2>1, <2>2, <2>3 DEF GenuineInv, SuccessIsGenuine
<1>3. ASSUME NEW s \in Conns, QueueFromCleanup(s) PROVE GenuineInv'
  <2>1. /\ respQ'.result # "Success"
        /\ UNCHANGED <<cache, pushes, built, thr, outbox, rcvResp, answer>>
    BY <1>3, Zenon DEF QueueFromCleanup, streamVars, cacheVars, statVars
  <2> QED BY <2>1, Zenon DEF GenuineInv, SuccessIsGenuine
<1> QED BY <1>1, <1>2, <1>3, Zenon DEF QueueStep

\* handleResponseQueue answers with, and caches, what it received.
LEMMA GenuineResponse ==
  ASSUME TypeOK, GenuineInv, ResponseStep
  PROVE  GenuineInv'
<1>1. NoResp.result # "Success"
  BY Zenon DEF NoResp
<1>2. CASE HandleResponse
  <2> PICK r \in Requests : r = respQ.id
    BY <1>2, ResponseFields, HandleResponseEffect, Zenon DEF TypeOK, TableTypes
  <2>1. respQ' = NoResp /\ UNCHANGED <<cache, built, outbox, rcvResp>>
    BY <1>2, Zenon DEF HandleResponse, streamVars
  <2>2. pushes' \subseteq built
    BY <1>2, HandleResponseEffect, Zenon DEF GenuineInv
  <2>3. \A q \in Requests : thr'[q] \in {"hit", "hitstore"} => KeyOf[q] \in built
    BY <1>2, HandleResponseEffect, Zenon DEF GenuineInv, TypeOK, TableTypes
  <2>4. \A q \in Requests : answer'[q] = "Success" => KeyOf[q] \in built
    BY <1>2, HandleResponseEffect DEF GenuineInv, SuccessIsGenuine, TypeOK, StatTypes
  <2> QED BY <1>1, <2>1, <2>2, <2>3, <2>4, Zenon DEF GenuineInv, SuccessIsGenuine
<1>3. CASE DropResponse
  BY <1>1, <1>3, Zenon DEF DropResponse, GenuineInv, SuccessIsGenuine, streamVars, cacheVars,
       statVars
<1> QED BY <1>2, <1>3, Zenon DEF ResponseStep

\* No other goroutine handles results, except the cache with what was built.
LEMMA GenuineOther ==
  ASSUME TypeOK, GenuineInv,
         StreamStep \/ CacheStep \/ \E s \in Conns : SendStep(s) \/ CleanupStep(s)
  PROVE  GenuineInv'
<1>1. ASSUME NEW r \in Requests, RecvRequest(r) PROVE GenuineInv'
  BY <1>1, GenuineRouteMove, Zenon DEF RecvRequest, streamVars, cacheVars, statVars
<1>2. CASE StreamStep /\ \A r \in Requests : ~RecvRequest(r)
  <2>1. UNCHANGED genuineVars
    BY <1>2, Zenon DEF StreamStep, NewAgentTaskStream, Disconnect, NewConsumerdTaskStream,
         ConsumerdDisconnect, RecvRequestError, RelayExit, genuineVars, streamVars,
         tableVars, cacheVars, statVars
  <2> QED BY <2>1, GenuineFrame, Zenon
<1>3. CASE CacheStep
  <2>1. /\ cache' \subseteq cache \cup pushes /\ pushes' \subseteq pushes
        /\ UNCHANGED <<built, thr, outbox, rcvResp, respQ, answer>>
    BY <1>3, Zenon DEF CacheStep, WatchCacheAvailability, CacheTransaction, Evict, streamVars,
         tableVars, statVars
  <2> QED BY <2>1, Zenon DEF GenuineInv, SuccessIsGenuine
<1>4. ASSUME NEW s \in Conns, SendStep(s) PROVE GenuineInv'
  <2>1. UNCHANGED genuineVars
    BY <1>4, Zenon DEF SendStep, LockToken, SendDone, Filter, TakePending, StoreInflight,
         SendRequest, genuineVars, tableVars, cacheVars, statVars
  <2> QED BY <2>1, GenuineFrame, Zenon
<1>5. ASSUME NEW s \in Conns, CleanupStep(s) PROVE GenuineInv'
  <2>1. UNCHANGED genuineVars
    BY <1>5, Zenon DEF CleanupStep, CleanupAgent, RangeDefunct, RangeEnd, genuineVars, streamVars,
         tableVars, cacheVars, statVars
  <2> QED BY <2>1, GenuineFrame, Zenon
<1> QED BY <1>1, <1>2, <1>3, <1>4, <1>5, Zenon

\* Every step of the broker keeps GenuineInv.
LEMMA GenuineNext == TypeOK /\ GenuineInv /\ [Next]_vars => GenuineInv'
<1> SUFFICES ASSUME TypeOK, GenuineInv, [Next]_vars PROVE GenuineInv'
  BY Zenon
<1>1. CASE Next
  BY <1>1, GenuineRoute, GenuineRecv, GenuineQueue, GenuineResponse, GenuineOther, Zenon DEF Next
<1>2. CASE UNCHANGED vars
  BY <1>2, GenuineFrame, Zenon DEF genuineVars, vars, streamVars, tableVars, cacheVars, statVars
<1> QED BY <1>1, <1>2, Zenon

\* A consumerd is told Success only for a translation unit some agent compiled.
THEOREM SuccessIsGenuineAlways == Spec => []SuccessIsGenuine
<1>1. GenuineInv => SuccessIsGenuine
  BY Zenon DEF GenuineInv
<1> QED BY <1>1, TypeCorrect, GenuineInit, GenuineNext, PTL DEF Spec

-----------------------------------------------------------------------------
(* Agents are only ever given requests that were received.                 *)
SentInv ==
  /\ \A s \in Conns : snd[s] \in {"take", "store", "send"} => sndReq[s] \in submitted
  /\ \A s \in Conns, r \in Requests : work[s][r] > 0 => r \in submitted

sentVars == <<snd, sndReq, submitted, work>>

\* It holds in the empty broker.
LEMMA SentInit == Init => SentInv
  BY DEF Init, SentInv

\* A step that sends nothing to an agent keeps SentInv.
LEMMA SentFrame ==
  ASSUME SentInv, UNCHANGED sentVars
  PROVE  SentInv'
  BY Zenon DEF SentInv, sentVars

\* Only received requests are sent to agents.
LEMMA SentSend ==
  ASSUME TypeOK, TaskInv, SentInv, NEW s \in Conns, SendStep(s)
  PROVE  SentInv'
<1>1. CASE LockToken(s) \/ SendDone(s)
  BY <1>1, Zenon DEF LockToken, SendDone, SentInv, TypeOK, StreamTypes, cdVars
<1>2. ASSUME NEW t \in Toolchains, Filter(s, t) PROVE SentInv'
  <2>1. relay[s][t] \in submitted
    BY <1>2, Zenon DEF Filter, TaskInv, RequestInv, RelayInv, Waiting
  <2>2. /\ snd' = [snd EXCEPT ![s] = "take"] /\ sndReq' = [sndReq EXCEPT ![s] = relay[s][t]]
        /\ UNCHANGED <<submitted, work>>
    BY <1>2, Zenon DEF Filter, cdVars
  <2>3. \A u \in Conns : u # s => snd'[u] = snd[u] /\ sndReq'[u] = sndReq[u]
    BY <2>2, Zenon DEF TypeOK, StreamTypes
  <2>4. sndReq'[s] \in submitted
    BY <2>1, <2>2, Zenon DEF TypeOK, StreamTypes
  <2>5. \A u \in Conns : snd'[u] \in {"take", "store", "send"} => sndReq'[u] \in submitted'
    BY <2>2, <2>3, <2>4 DEF SentInv
  <2>6. \A u \in Conns, r \in Requests : work'[u][r] > 0 => r \in submitted'
    BY <2>2, Zenon DEF SentInv
  <2> QED BY <2>5, <2>6, Zenon DEF SentInv
<1>3. CASE TakePending(s)
  <2>1. /\ snd[s] = "take" /\ UNCHANGED <<submitted, work>>
        /\ \/ snd' = [snd EXCEPT ![s] = "store"] /\ sndReq' = sndReq
           \/ snd' = [snd EXCEPT ![s] = "token"] /\ sndReq' = [sndReq EXCEPT ![s] = NoReq]
    BY <1>3, Zenon DEF TakePending, cdVars
  <2>2. \A u \in Conns : snd'[u] \in {"take", "store", "send"} =>
          snd[u] \in {"take", "store", "send"} /\ sndReq'[u] = sndReq[u]
    BY <2>1, Zenon DEF TypeOK, StreamTypes
  <2> QED BY <2>1, <2>2, Zenon DEF SentInv
<1>4. CASE StoreInflight(s)
  BY <1>4, Zenon DEF StoreInflight, SentInv, TypeOK, StreamTypes, cdVars
<1>5. CASE SendRequest(s)
  <2>1. /\ snd[s] = "send" /\ submitted' = submitted
        /\ snd' \in {[snd EXCEPT ![s] = "token"], [snd EXCEPT ![s] = "exit"]}
        /\ sndReq' = [sndReq EXCEPT ![s] = NoReq]
        /\ work' = work \/ work' = [work EXCEPT ![s][sndReq[s]] = @ + 1]
    BY <1>5, Zenon DEF SendRequest, cdVars
  <2>2. sndReq[s] \in submitted
    BY <2>1, Zenon DEF SentInv
  <2>3. work \in [Conns -> [Requests -> Nat]]
    BY Zenon DEF TypeOK, StreamTypes
  <2>4. \A u \in Conns, r \in Requests : work'[u][r] = work[u][r] \/ r = sndReq[s]
    BY <2>1, <2>3
  <2>5. \A u \in Conns : snd'[u] \in {"take", "store", "send"} =>
                           snd'[u] = snd[u] /\ sndReq'[u] = sndReq[u]
    BY <2>1, Zenon DEF TypeOK, StreamTypes
  <2> QED BY <2>1, <2>2, <2>4, <2>5 DEF SentInv
<1> QED BY <1>1, <1>2, <1>3, <1>4, <1>5, Zenon DEF SendStep

\* Every step of the broker keeps SentInv.
LEMMA SentNext == TypeOK /\ TaskInv /\ SentInv /\ [Next]_vars => SentInv'
<1> SUFFICES ASSUME TypeOK, TaskInv, SentInv, [Next]_vars PROVE SentInv'
  BY Zenon
<1>1. ASSUME NEW s \in Conns, SendStep(s) PROVE SentInv'
  BY <1>1, SentSend, Zenon
<1>2. ASSUME NEW s \in Conns, RecvStep(s) PROVE SentInv'
  <2>1. UNCHANGED <<snd, sndReq, submitted>>
    BY <1>2, Zenon DEF RecvStep, RecvResponse, RecvDone, cdVars
  <2>2. work \in [Conns -> [Requests -> Nat]]
    BY Zenon DEF TypeOK, StreamTypes
  <2>3. \A u \in Conns, q \in Requests : work'[u][q] > 0 => work[u][q] > 0
    BY <1>2, <2>2 DEF RecvStep, RecvResponse, RecvDone
  <2> QED BY <2>1, <2>3, Zenon DEF SentInv
<1>3. CASE StreamStep
  <2>1. ASSUME NEW s \in Conns, NewAgentTaskStream(s) PROVE SentInv'
    BY <2>1, Zenon DEF NewAgentTaskStream, SentInv, TypeOK, StreamTypes, cdVars
  <2>2. ASSUME NEW r \in Requests, RecvRequest(r) PROVE SentInv'
    BY <2>2, Zenon DEF RecvRequest, SentInv, streamVars
  <2>3. CASE \/ \E s \in Conns : Disconnect(s)
             \/ \E c \in Consumerds :
                  NewConsumerdTaskStream(c) \/ ConsumerdDisconnect(c) \/ RecvRequestError(c)
             \/ \E s \in Conns, t \in Toolchains : RelayExit(s, t)
    <3>1. UNCHANGED sentVars
      BY <2>3, Zenon DEF Disconnect, NewConsumerdTaskStream, ConsumerdDisconnect,
           RecvRequestError,
           RelayExit, sentVars, streamVars, cdVars
    <3> QED BY <3>1, SentFrame, Zenon
  <2> QED BY <1>3, <2>1, <2>2, <2>3, Zenon DEF StreamStep
<1>4. CASE CacheStep \/ QueueStep \/ ResponseStep \/ UNCHANGED vars
  <2>1. UNCHANGED sentVars
    BY <1>4, Zenon DEF CacheStep, WatchCacheAvailability, CacheTransaction, Evict,
         QueueStep, QueueFromRoute, QueueFromAgent, QueueFromCleanup,
         ResponseStep, HandleResponse, DropResponse, sentVars, streamVars, cdVars, vars
  <2> QED BY <2>1, SentFrame, Zenon
<1>5. ASSUME NEW r \in Requests, RouteStep(r) PROVE SentInv'
  <2>1. UNCHANGED sentVars
    BY <1>5, Zenon DEF RouteStep, StorePending, PreReceive, PullFound, PullNotFound,
         PullError,
         TakeHit, StoreHit, CheckAgents, HandOff, SelectCancelled, TakeFailed, StoreFailed,
         sentVars, streamVars, cdVars
  <2> QED BY <2>1, SentFrame, Zenon
<1>6. ASSUME NEW s \in Conns, CleanupStep(s) PROVE SentInv'
  <2>1. UNCHANGED sentVars
    BY <1>6, Zenon DEF CleanupStep, CleanupAgent, RangeDefunct, RangeEnd, sentVars,
         streamVars, cdVars
  <2> QED BY <2>1, SentFrame, Zenon
<1> QED BY <1>1, <1>2, <1>3, <1>4, <1>5, <1>6, Zenon DEF Next

-----------------------------------------------------------------------------
(* The refinement.                                                         *)

\* Only these four variables are visible to a consumerd.
shownVars == <<submitted, sent, answer, built>>

\* A step that changes nothing the consumerd sees is a stuttering step.
LEMMA InvisibleStep ==
  ASSUME UNCHANGED shownVars
  PROVE  UNCHANGED Service!serviceVars
  BY Zenon DEF shownVars, Service!serviceVars

\* The empty broker maps to the initial state of the service.
LEMMA ServiceInitial == Init => Service!ServiceInit
  BY ZenonT(30) DEF Init, Service!ServiceInit

\* Receiving a request is Accept.
LEMMA AcceptStep ==
  ASSUME TypeOK, TaskInv, NEW r \in Requests, RecvRequest(r)
  PROVE  Service!Accept(r)
<1>1. /\ r \notin submitted /\ submitted' = submitted \cup {r}
      /\ UNCHANGED <<sent, answer, built>>
  BY Zenon DEF RecvRequest, cacheVars, statVars
<1>2. sent[r] = 0
  BY <1>1, Zenon DEF TaskInv, RequestInv, TableInv
<1> QED BY <1>1, <1>2, Zenon DEF Service!Accept

\* An answer of an agent is Compile, or a stuttering step.
LEMMA CompileStep ==
  ASSUME TypeOK, SentInv, NEW s \in Conns, NEW r \in Requests, NEW result \in AgentResults,
         RecvResponse(s, r, result)
  PROVE  Service!Compile(KeyOf[r]) \/ UNCHANGED Service!serviceVars
<1>1. r \in submitted /\ UNCHANGED <<submitted, sent, answer>>
  BY Zenon DEF RecvResponse, SentInv, cdVars
<1>2. built' = built \/ built' = built \cup {KeyOf[r]}
  BY RecvResponseEffect, Zenon
<1>3. CASE built' = built
  BY <1>1, <1>3, InvisibleStep, Zenon DEF shownVars
<1>4. CASE built' = built \cup {KeyOf[r]}
  BY <1>1, <1>4, Zenon DEF Service!Compile
<1> QED BY <1>2, <1>3, <1>4, Zenon

\* handleResponseQueue is Answer, or a stuttering step when it requeues.
LEMMA AnswerStep ==
  ASSUME TypeOK, TaskInv, GenuineInv, HandleResponse
  PROVE  \/ \E r \in Requests, result \in Results \ {"Defunct"} : Service!Answer(r, result)
         \/ UNCHANGED Service!serviceVars
<1>1. PICK r \in Requests, result \in Results : r = respQ.id /\ result = respQ.result
  BY ResponseFields, HandleResponseEffect, Zenon DEF TypeOK, TableTypes
<1>2. r \in submitted /\ sent[r] = 0 /\ UNCHANGED <<submitted, built>>
  <2>1. inflight[r] # Absent
    BY <1>1, HandleResponseEffect, Zenon
  <2>2. UNCHANGED <<submitted, built>>
    BY Zenon DEF HandleResponse, cdVars
  <2> QED BY <2>1, <2>2, Zenon DEF TaskInv, RequestInv, TableInv
<1>3. CASE result = "Defunct"
  <2>1. UNCHANGED shownVars
    BY <1>1, <1>2, <1>3, HandleResponseEffect, Zenon DEF shownVars
  <2> QED BY <2>1, InvisibleStep, Zenon
<1>4. CASE result # "Defunct"
  <2>1. /\ sent' = [sent EXCEPT ![r] = @ + 1]
        /\ answer' = [answer EXCEPT ![r] = result]
    BY <1>1, <1>4, HandleResponseEffect, Zenon
  <2>2. result = "Success" => KeyOf[r] \in built
    BY <1>1, Zenon DEF GenuineInv
  <2>3. sent'[r] = 1 /\ \A q \in Requests \ {r} : sent'[q] = sent[q]
    BY <1>2, <2>1 DEF TypeOK, StatTypes
  <2> DEFINE Status == [q \in Requests |-> IF q \notin submitted THEN "new"
                                          ELSE IF sent[q] = 0 THEN "accepted" ELSE "answered"]
  <2>4. Status[r] = "accepted" /\ Status' = [Status EXCEPT ![r] = "answered"]
    <3>1. Status[r] = "accepted"
      BY <1>2, Zenon
    <3>2. \A q \in Requests : Status'[q] = IF q = r THEN "answered" ELSE Status[q]
      BY <1>2, <2>3
    <3>3. /\ Status' = [q \in Requests |-> Status'[q]]
          /\ Status = [q \in Requests |-> Status[q]]
      BY Zenon
    <3> HIDE DEF Status
    <3> QED BY <3>1, <3>2, <3>3, Zenon
  <2>5. Service!Answer(r, result)
    BY <1>2, <2>1, <2>2, <2>4, Zenon DEF Service!Answer
  <2> QED BY <1>4, <2>5, Zenon
<1> QED BY <1>3, <1>4, Zenon

\* Every step of the broker is a step of the service or a stuttering step.
LEMMA ServiceStep ==
  TypeOK /\ TaskInv /\ GenuineInv /\ SentInv /\ [Next]_vars
    => [Service!ServiceNext]_(Service!serviceVars)
<1> SUFFICES ASSUME TypeOK, TaskInv, GenuineInv, SentInv, [Next]_vars
             PROVE  Service!ServiceNext \/ UNCHANGED Service!serviceVars
  BY Zenon
<1> DEFINE Goal == Service!ServiceNext \/ UNCHANGED Service!serviceVars
<1>1. ASSUME NEW r \in Requests, RecvRequest(r) PROVE Goal
  BY <1>1, AcceptStep, Zenon DEF Service!ServiceNext
<1>2. ASSUME NEW s \in Conns, NEW r \in Requests, NEW result \in AgentResults,
             RecvResponse(s, r, result)
      PROVE  Goal
  <2>1. KeyOf[r] \in Keys
    BY BrokerAssumptions, Zenon
  <2> QED BY <1>2, <2>1, CompileStep, Zenon DEF Service!ServiceNext
<1>3. ASSUME HandleResponse PROVE Goal
  BY <1>3, AnswerStep, Zenon DEF Service!ServiceNext
<1>4. ASSUME UNCHANGED shownVars PROVE Goal
  BY <1>4, InvisibleStep, Zenon
<1>5. ASSUME NEW r \in Requests, RouteStep(r) PROVE Goal
  <2>1. UNCHANGED shownVars
    BY <1>5, Zenon DEF RouteStep, StorePending, PreReceive, PullFound, PullNotFound,
         PullError,
         TakeHit, StoreHit, CheckAgents, HandOff, SelectCancelled, TakeFailed, StoreFailed,
         shownVars, cdVars, cacheVars, statVars
  <2> QED BY <1>4, <2>1, Zenon
<1>6. ASSUME NEW s \in Conns, SendStep(s) \/ CleanupStep(s) \/ RecvDone(s) PROVE Goal
  <2>1. UNCHANGED shownVars
    BY <1>6, Zenon DEF SendStep, LockToken, SendDone, Filter, TakePending, StoreInflight,
         SendRequest, CleanupStep, CleanupAgent, RangeDefunct, RangeEnd, RecvDone, shownVars,
         cdVars, cacheVars, statVars
  <2> QED BY <1>4, <2>1, Zenon
<1>7. ASSUME StreamStep, \A r \in Requests : ~RecvRequest(r) PROVE Goal
  <2>1. UNCHANGED shownVars
    BY <1>7, Zenon DEF StreamStep, NewAgentTaskStream, Disconnect, NewConsumerdTaskStream,
         ConsumerdDisconnect, RecvRequestError, RelayExit, shownVars, cdVars, cacheVars,
         statVars
  <2> QED BY <1>4, <2>1, Zenon
<1>8. ASSUME CacheStep \/ QueueStep \/ DropResponse \/ UNCHANGED vars PROVE Goal
  <2>1. UNCHANGED shownVars
    BY <1>8, Zenon DEF CacheStep, WatchCacheAvailability, CacheTransaction, Evict,
         QueueStep, QueueFromRoute, QueueFromAgent, QueueFromCleanup, DropResponse,
         shownVars, cdVars, cacheVars, statVars, vars
  <2> QED BY <1>4, <2>1, Zenon
<1> HIDE DEF Goal
<1>9. ASSUME NEW s \in Conns, RecvStep(s) PROVE Goal
  BY <1>2, <1>6, <1>9, Zenon DEF RecvStep
<1>10. ASSUME StreamStep PROVE Goal
  BY <1>1, <1>7, <1>10, Zenon
<1>11. Goal
  BY <1>3, <1>5, <1>6, <1>8, <1>9, <1>10, Zenon DEF Next, ResponseStep
<1> QED BY <1>11, Zenon DEF Goal

\* The broker implements the service it offers to consumerds.
THEOREM BrokerImplementsTaskService == Spec => ImplementsTaskService
<1>1. Init /\ TypeOK => TaskInv /\ GenuineInv /\ SentInv
  BY TaskInit, GenuineInit, SentInit, Zenon
<1> QED
  BY <1>1, TypeInit, TypeNext, TaskNext, GenuineNext, SentNext, ServiceInitial, ServiceStep, PTL
     DEF Spec, ImplementsTaskService, Service!ServiceSpec

-----------------------------------------------------------------------------
(* Tokens.  While the stream is up the locked tokens are exactly accounted *)
(* for; once it is done a request may be lost with its token, so there are *)
(* at least as many.                                                       *)

TokenInv(s) ==
  /\ IsFiniteSet(Copies(work[s]))
  /\ conn[s] = "off" => Copies(work[s]) = {} /\ locked[s] = 0
  /\ conn[s] # "off" => avail[s] + locked[s] = Limit
  /\ conn[s] = "live" => locked[s] = Busy(s) + Cardinality(Copies(work[s]))
  /\ conn[s] = "done" => locked[s] >= Busy(s) + Cardinality(Copies(work[s]))

TokensInv == "token" \notin dpanics /\ \A s \in Conns : TokenInv(s)

\* The types of what the tokens of a stream depend on.
TokenTypes ==
  /\ conn \in [Conns -> {"off", "live", "done"}] /\ snd \in [Conns -> SendSteps]
  /\ avail \in [Conns -> Nat] /\ locked \in [Conns -> Nat]
  /\ work \in [Conns -> [Requests -> Nat]]

\* Type correctness gives them.
LEMMA TokenTypesHold == TypeOK => TokenTypes
  BY Zenon DEF TypeOK, AgentTypes, StreamTypes, TokenTypes

\* The copies of a request are numbered from 1.
LEMMA CopiesMember ==
  ASSUME NEW w \in [Requests -> Nat], NEW r \in Requests, NEW i \in Nat
  PROVE  <<r, i>> \in Copies(w) <=> i \in 1 .. w[r]
<1>1. ASSUME <<r, i>> \in Copies(w) PROVE i \in 1 .. w[r]
  <2>1. PICK q \in Requests : <<r, i>> \in {q} \X (1 .. w[q])
    BY <1>1, Zenon DEF Copies
  <2>2. r = q /\ i \in 1 .. w[q]
    BY <2>1, Zenon
  <2> QED BY <2>2, Zenon
<1>2. ASSUME i \in 1 .. w[r] PROVE <<r, i>> \in Copies(w)
  <2>1. <<r, i>> \in {r} \X (1 .. w[r])
    BY <1>2, Zenon
  <2> QED BY <2>1, Zenon DEF Copies
<1> QED BY <1>1, <1>2, Zenon

\* A copy is a request with its number.
LEMMA CopiesPairs ==
  ASSUME NEW w \in [Requests -> Nat], NEW x \in Copies(w)
  PROVE  \E r \in Requests, i \in Nat : x = <<r, i>> /\ i \in 1 .. w[r]
<1>1. PICK q \in Requests : x \in {q} \X (1 .. w[q])
  BY Zenon DEF Copies
<1>2. PICK i \in 1 .. w[q] : x = <<q, i>>
  BY <1>1
<1>3. i \in Nat
  OBVIOUS
<1> QED BY <1>2, <1>3, Zenon

\* One more copy of one request is one more copy.
LEMMA OneMoreCopy ==
  ASSUME NEW w \in [Requests -> Nat], NEW v \in [Requests -> Nat], NEW r \in Requests,
         v[r] = w[r] + 1, \A q \in Requests \ {r} : v[q] = w[q],
         IsFiniteSet(Copies(w)) \/ IsFiniteSet(Copies(v))
  PROVE  /\ IsFiniteSet(Copies(w)) /\ IsFiniteSet(Copies(v))
         /\ Cardinality(Copies(v)) = Cardinality(Copies(w)) + 1
<1> DEFINE x == <<r, w[r] + 1>>
<1>1. \A q \in Requests, i \in Nat :
        i \in 1 .. v[q] <=> i \in 1 .. w[q] \/ (q = r /\ i = w[r] + 1)
  OBVIOUS
<1>2. w[r] + 1 \in Nat /\ w[r] + 1 \notin 1 .. w[r] /\ w[r] + 1 \in 1 .. v[r]
  OBVIOUS
<1>3. x \notin Copies(w)
  BY <1>2, CopiesMember, Zenon
<1>4. ASSUME NEW y \in Copies(v) PROVE y \in Copies(w) \cup {x}
  <2>1. PICK q \in Requests, i \in Nat : y = <<q, i>> /\ i \in 1 .. v[q]
    BY CopiesPairs, Zenon
  <2> QED BY <1>1, <2>1, CopiesMember, Zenon
<1>5. ASSUME NEW y \in Copies(w) PROVE y \in Copies(v)
  <2>1. PICK q \in Requests, i \in Nat : y = <<q, i>> /\ i \in 1 .. w[q]
    BY CopiesPairs, Zenon
  <2> QED BY <1>1, <2>1, CopiesMember, Zenon
<1>6. x \in Copies(v)
  BY <1>2, CopiesMember, Zenon
<1> HIDE DEF x
<1>7. Copies(v) = Copies(w) \cup {x}
  BY <1>4, <1>5, <1>6, Zenon
<1>8. Copies(w) \subseteq Copies(v)
  BY <1>5, Zenon
<1>9. IsFiniteSet(Copies(w))
  BY <1>8, FS_Subset, Zenon
<1> QED BY <1>3, <1>7, <1>9, FS_AddElement

\* Without copies there is nothing to answer.
LEMMA NoCopies ==
  ASSUME NEW w \in [Requests -> Nat], \A r \in Requests : w[r] = 0
  PROVE  Copies(w) = {}
<1>1. \A r \in Requests, i \in Nat : i \notin 1 .. w[r]
  OBVIOUS
<1> QED BY <1>1, CopiesPairs, Zenon

\* The tokens are in order in the empty broker.
LEMMA TokensInit == Init => TokensInv
<1> SUFFICES ASSUME Init PROVE TokensInv
  BY Zenon
<1>1. ASSUME NEW s \in Conns PROVE TokenInv(s)
  <2>1. /\ conn[s] = "off" /\ locked[s] = 0
        /\ work[s] = [r \in Requests |-> 0]
    BY Zenon DEF Init
  <2>2. work[s] \in [Requests -> Nat] /\ \A r \in Requests : work[s][r] = 0
    BY <2>1
  <2>3. Copies(work[s]) = {}
    BY <2>2, NoCopies, Zenon
  <2> QED BY <2>1, <2>3, FS_EmptySet, Zenon DEF TokenInv
<1> QED BY <1>1, Zenon DEF TokensInv, Init

\* A step that changes nothing TokenInv(s) reads.
SameTokens(s) ==
  /\ conn'[s] = conn[s] /\ avail'[s] = avail[s] /\ locked'[s] = locked[s]
  /\ work'[s] = work[s] /\ Busy(s)' = Busy(s)

\* Such a step keeps it.
LEMMA SameTokensKeep ==
  ASSUME NEW s \in Conns, TokenInv(s), SameTokens(s)
  PROVE  TokenInv(s)'
  BY Zenon DEF TokenInv, SameTokens

\* Nothing but the goroutines of a stream touches its tokens.
LEMMA TokensFrame ==
  ASSUME TokensInv, UNCHANGED <<conn, avail, locked, snd, work>>, "token" \notin dpanics'
  PROVE  TokensInv'
  BY SameTokensKeep, Zenon DEF TokensInv, SameTokens, Busy

\* The send goroutine moves a token before it takes a request, and the token is
\* the request's once it is sent; a request lost on a dead stream keeps one locked.
LEMMA TokensSend ==
  ASSUME TokenTypes, TokenTypes', TaskInv, TokensInv, NEW s \in Conns, SendStep(s)
  PROVE  TokensInv'
<1> USE DEF TokenTypes
<1>0. conn[s] # "off" /\ TokenInv(s)
  BY Zenon DEF SendStep, LockToken, SendDone, Filter, TakePending, StoreInflight, SendRequest,
       TaskInv, StreamInv, TokensInv
<1>1. CASE LockToken(s)
  <2>1. /\ snd[s] = "token" /\ snd' = [snd EXCEPT ![s] = "filter"] /\ avail[s] > 0
        /\ avail' = [avail EXCEPT ![s] = @ - 1] /\ locked' = [locked EXCEPT ![s] = @ + 1]
        /\ UNCHANGED <<conn, work, dpanics>>
    BY <1>1, Zenon DEF LockToken, agentVars, statVars
  <2>2. \A u \in Conns \ {s} : SameTokens(u)
    BY <2>1, Zenon DEF SameTokens, Busy
  <2>3. Busy(s) = 0 /\ Busy(s)' = 1
    BY <2>1, Zenon DEF Busy
  <2>4. avail'[s] = avail[s] - 1 /\ locked'[s] = locked[s] + 1
    BY <2>1, Zenon
  <2>5. Cardinality(Copies(work[s])) \in Nat
    BY <1>0, FS_CardinalityType, Zenon DEF TokenInv
  <2>6. TokenInv(s)'
    <3>1. /\ locked[s] \in Nat /\ avail[s] \in Nat /\ Limit \in Nat
          /\ conn'[s] = conn[s] /\ work'[s] = work[s]
      BY <2>1, BrokerAssumptions, Zenon
    <3> HIDE DEF TokenTypes
    <3> QED BY <1>0, <2>3, <2>4, <2>5, <3>1 DEF TokenInv
  <2> QED BY <2>1, <2>2, <2>6, SameTokensKeep, Zenon DEF TokensInv
<1>2. CASE SendDone(s)
  <2>1. /\ snd[s] = "token" /\ snd' = [snd EXCEPT ![s] = "exit"]
        /\ UNCHANGED <<conn, avail, locked, work, dpanics>>
    BY <1>2, Zenon DEF SendDone, agentVars, statVars
  <2>2. \A u \in Conns : SameTokens(u)
    BY <2>1, Zenon DEF SameTokens, Busy
  <2> QED BY <2>1, <2>2, SameTokensKeep, Zenon DEF TokensInv
<1>3. ASSUME NEW t \in Toolchains, Filter(s, t) PROVE TokensInv'
  <2>1. /\ snd[s] = "filter" /\ snd' = [snd EXCEPT ![s] = "take"]
        /\ UNCHANGED <<conn, avail, locked, work, dpanics>>
    BY <1>3, Zenon DEF Filter, agentVars, statVars
  <2>2. \A u \in Conns : SameTokens(u)
    BY <2>1, Zenon DEF SameTokens, Busy
  <2> QED BY <2>1, <2>2, SameTokensKeep, Zenon DEF TokensInv
<1>4. CASE TakePending(s)
  <2>1. sndReq[s] \in Requests /\ sndReq[s] \in pending
    BY <1>4, Zenon DEF TakePending, TaskInv, StreamInv, RequestInv, SendInv, SendHolds
  <2>2. /\ snd[s] = "take" /\ snd' = [snd EXCEPT ![s] = "store"]
        /\ UNCHANGED <<conn, avail, locked, work, dpanics>>
    BY <1>4, <2>1, TakePendingEffect, Zenon DEF TakePending, agentVars
  <2>3. \A u \in Conns : SameTokens(u)
    BY <2>2, Zenon DEF SameTokens, Busy
  <2> QED BY <2>2, <2>3, SameTokensKeep, Zenon DEF TokensInv
<1>5. CASE StoreInflight(s)
  <2>1. /\ snd[s] = "store" /\ snd' = [snd EXCEPT ![s] = "send"]
        /\ UNCHANGED <<conn, avail, locked, work, dpanics>>
    BY <1>5, Zenon DEF StoreInflight, agentVars, statVars
  <2>2. \A u \in Conns : SameTokens(u)
    BY <2>1, Zenon DEF SameTokens, Busy
  <2> QED BY <2>1, <2>2, SameTokensKeep, Zenon DEF TokensInv
<1>6. CASE SendRequest(s)
  <2> DEFINE r == sndReq[s]
  <2>1. snd[s] = "send" /\ r \in Requests
    BY <1>6, Zenon DEF SendRequest, TaskInv, StreamInv
  <2>2. /\ UNCHANGED <<conn, avail, locked, dpanics>>
        /\ snd' \in {[snd EXCEPT ![s] = "token"], [snd EXCEPT ![s] = "exit"]}
        /\ \/ conn[s] = "live" /\ work' = [work EXCEPT ![s][r] = @ + 1]
           \/ conn[s] = "done" /\ work' = work
    BY <1>6, Zenon DEF SendRequest, agentVars, statVars
  <2> HIDE DEF r
  <2>3. \A u \in Conns \ {s} : SameTokens(u)
    BY <2>2, Zenon DEF SameTokens, Busy
  <2>4. Busy(s) = 1 /\ Busy(s)' = 0
    BY <2>1, <2>2, Zenon DEF Busy
  <2>5. Cardinality(Copies(work[s])) \in Nat /\ IsFiniteSet(Copies(work[s]))
    BY <1>0, FS_CardinalityType, Zenon DEF TokenInv
  <2>6. TokenInv(s)'
    <3>1. CASE conn[s] = "live" /\ work' = [work EXCEPT ![s][r] = @ + 1]
      <4>1. /\ work[s] \in [Requests -> Nat] /\ work'[s] \in [Requests -> Nat]
            /\ work'[s][r] = work[s][r] + 1 /\ \A q \in Requests \ {r} : work'[s][q] = work[s][q]
        BY <2>1, <3>1, Zenon
      <4>2. /\ IsFiniteSet(Copies(work'[s]))
            /\ Cardinality(Copies(work'[s])) = Cardinality(Copies(work[s])) + 1
        BY <2>1, <2>5, <4>1, OneMoreCopy, Zenon
      <4> QED BY <1>0, <2>2, <2>4, <2>5, <3>1, <4>2 DEF TokenInv
    <3>2. CASE conn[s] = "done" /\ work' = work
      BY <1>0, <2>2, <2>4, <2>5, <3>2 DEF TokenInv
    <3> QED BY <2>2, <3>1, <3>2, Zenon
  <2> QED BY <2>2, <2>3, <2>6, SameTokensKeep, Zenon DEF TokensInv
<1> QED BY <1>1, <1>2, <1>3, <1>4, <1>5, <1>6, Zenon DEF SendStep

\* The recv goroutine gives back the token of the answered copy: there is one.
LEMMA TokensRecv ==
  ASSUME TokenTypes, TokenTypes', TokensInv, NEW s \in Conns, RecvStep(s)
  PROVE  TokensInv'
<1> USE DEF TokenTypes
<1>1. ASSUME NEW r \in Requests, NEW result \in AgentResults, RecvResponse(s, r, result)
      PROVE  TokensInv'
  <2>1. /\ work[s][r] > 0 /\ work' = [work EXCEPT ![s][r] = @ - 1]
        /\ UNCHANGED <<conn, snd>> /\ TokenInv(s)
    BY <1>1, Zenon DEF RecvResponse, agentVars, TokensInv
  <2>2. /\ work[s] \in [Requests -> Nat] /\ work'[s] \in [Requests -> Nat]
        /\ work[s][r] = work'[s][r] + 1 /\ \A q \in Requests \ {r} : work[s][q] = work'[s][q]
    BY <2>1
  <2>3. /\ IsFiniteSet(Copies(work[s])) /\ IsFiniteSet(Copies(work'[s]))
        /\ Cardinality(Copies(work[s])) = Cardinality(Copies(work'[s])) + 1
    <3>1. IsFiniteSet(Copies(work'[s])) \/ IsFiniteSet(Copies(work[s]))
      BY <2>1, Zenon DEF TokenInv
    <3> HIDE DEF TokenTypes
    <3> QED BY <2>2, <3>1, OneMoreCopy
  <2>4. Cardinality(Copies(work'[s])) \in Nat
    BY <2>3, FS_CardinalityType, Zenon
  <2>5. Busy(s)' = Busy(s) /\ Busy(s) \in {0, 1}
    BY <2>1, Zenon DEF Busy
  <2>6. conn[s] # "off"
    <3>1. 1 \in 1 .. work[s][r] /\ 1 \in Nat
      BY <2>1, <2>2
    <3>2. <<r, 1>> \in Copies(work[s])
      BY <2>2, <3>1, CopiesMember, Zenon
    <3> QED BY <2>1, <3>2, Zenon DEF TokenInv
  <2>7. locked[s] > 0
    BY <2>1, <2>3, <2>4, <2>5, <2>6 DEF TokenInv
  <2>8. /\ locked' = [locked EXCEPT ![s] = @ - 1] /\ avail' = [avail EXCEPT ![s] = @ + 1]
        /\ dpanics' = dpanics
    BY <1>1, <2>7, RecvResponseEffect, Zenon
  <2>9. TokenInv(s)'
    <3>1. locked'[s] = locked[s] - 1 /\ avail'[s] = avail[s] + 1
      BY <2>8, Zenon
    <3>2. locked[s] \in Nat /\ avail[s] \in Nat /\ Limit \in Nat /\ conn'[s] = conn[s]
      BY <2>1, BrokerAssumptions, Zenon
    <3> HIDE DEF TokenTypes
    <3> QED BY <2>1, <2>3, <2>4, <2>5, <2>6, <3>1, <3>2 DEF TokenInv
  <2>10. \A u \in Conns \ {s} : SameTokens(u)
    BY <2>1, <2>8, Zenon DEF SameTokens, Busy
  <2> QED BY <2>8, <2>9, <2>10, SameTokensKeep, Zenon DEF TokensInv
<1>2. CASE RecvDone(s)
  BY <1>2, TokensFrame, Zenon DEF RecvDone, agentVars, statVars, TokensInv
<1> QED BY <1>1, <1>2, Zenon DEF RecvStep

\* A stream starts with all its tokens, and its end leaves them where they are.
LEMMA TokensStreams ==
  ASSUME TokenTypes, TokenTypes', TaskInv, TokensInv, StreamStep
  PROVE  TokensInv'
<1> USE DEF TokenTypes
<1>1. ASSUME NEW s \in Conns, NewAgentTaskStream(s) PROVE TokensInv'
  <2>1. /\ conn[s] = "off" /\ conn' = [conn EXCEPT ![s] = "live"]
        /\ avail' = [avail EXCEPT ![s] = Limit] /\ snd' = [snd EXCEPT ![s] = "token"]
        /\ UNCHANGED <<locked, work, dpanics>>
    BY <1>1, Zenon DEF NewAgentTaskStream, statVars
  <2>2. Copies(work[s]) = {} /\ locked[s] = 0
    BY <2>1, Zenon DEF TokensInv, TokenInv
  <2>3. Busy(s)' = 0 /\ conn'[s] = "live" /\ avail'[s] = Limit
    BY <2>1, Zenon DEF Busy
  <2>4. TokenInv(s)'
    BY <2>1, <2>2, <2>3, FS_EmptySet, BrokerAssumptions DEF TokenInv
  <2>5. \A u \in Conns \ {s} : SameTokens(u)
    BY <2>1, Zenon DEF SameTokens, Busy
  <2> QED BY <2>1, <2>4, <2>5, SameTokensKeep, Zenon DEF TokensInv
<1>2. ASSUME NEW s \in Conns, Disconnect(s) PROVE TokensInv'
  <2>1. /\ conn[s] = "live" /\ conn' = [conn EXCEPT ![s] = "done"]
        /\ UNCHANGED <<avail, snd, locked, work, dpanics>>
    BY <1>2, Zenon DEF Disconnect, streamVars, statVars
  <2>2. Busy(s)' = Busy(s) /\ Busy(s) \in {0, 1} /\ conn'[s] = "done" /\ TokenInv(s)
    BY <2>1, Zenon DEF Busy, TokensInv
  <2>3. Cardinality(Copies(work[s])) \in Nat
    BY <2>2, FS_CardinalityType, Zenon DEF TokenInv
  <2>4. TokenInv(s)'
    BY <2>1, <2>2, <2>3 DEF TokenInv
  <2>5. \A u \in Conns \ {s} : SameTokens(u)
    BY <2>1, Zenon DEF SameTokens, Busy
  <2> QED BY <2>1, <2>4, <2>5, SameTokensKeep, Zenon DEF TokensInv
<1>3. CASE \/ \E c \in Consumerds :
                NewConsumerdTaskStream(c) \/ ConsumerdDisconnect(c) \/ RecvRequestError(c)
           \/ \E r \in Requests : RecvRequest(r)
           \/ \E s \in Conns, t \in Toolchains : RelayExit(s, t)
  <2>1. UNCHANGED <<conn, avail, locked, snd, work, dpanics>>
    BY <1>3, Zenon DEF NewConsumerdTaskStream, ConsumerdDisconnect, RecvRequestError, RecvRequest,
         RelayExit, agentVars, streamVars, statVars
  <2> QED BY <2>1, TokensFrame, Zenon DEF TokensInv
<1> QED BY <1>1, <1>2, <1>3, Zenon DEF StreamStep

\* Every step of the broker keeps the tokens in order.
LEMMA TokensNext == TypeOK /\ TypeOK' /\ TaskInv /\ TokensInv /\ [Next]_vars => TokensInv'
<1> SUFFICES ASSUME TypeOK, TypeOK', TaskInv, TokensInv, [Next]_vars PROVE TokensInv'
  BY Zenon
<1>0. TokenTypes /\ TokenTypes'
  BY TokenTypesHold, PTL
<1>1. ASSUME NEW r \in Requests, RouteStep(r) PROVE TokensInv'
  <2>1. UNCHANGED <<conn, avail, locked, snd, work>>
    BY <1>1, Zenon DEF RouteStep, StorePending, PreReceive, PullFound, PullNotFound, PullError,
         TakeHit, StoreHit, CheckAgents, HandOff, SelectCancelled, TakeFailed, StoreFailed,
         agentVars, streamVars
  <2>2. dpanics' \in {dpanics, dpanics \cup {"hook"}, dpanics \cup {"load"}}
    BY <1>1, Zenon DEF RouteStep, StorePending, PreReceive, PullFound, PullNotFound, PullError,
         TakeHit, StoreHit, CheckAgents, HandOff, SelectCancelled, TakeFailed, StoreFailed, statVars
  <2>3. "token" \notin dpanics'
    BY <2>2 DEF TokensInv
  <2> QED BY <2>1, <2>3, TokensFrame, Zenon
<1>2. CASE QueueStep \/ ResponseStep \/ CacheStep \/ (\E s \in Conns : CleanupStep(s))
            \/ UNCHANGED vars
  <2>1. UNCHANGED <<conn, avail, locked, snd, work, dpanics>>
    BY <1>2, Zenon DEF QueueStep, QueueFromRoute, QueueFromAgent, QueueFromCleanup, ResponseStep,
         HandleResponse, DropResponse, CacheStep, WatchCacheAvailability, CacheTransaction, Evict,
         CleanupStep, CleanupAgent, RangeDefunct, RangeEnd, vars, agentVars, streamVars, statVars
  <2> QED BY <2>1, TokensFrame, Zenon DEF TokensInv
<1> QED BY <1>0, <1>1, <1>2, TokensSend, TokensRecv, TokensStreams, Zenon DEF Next

\* Tokens of an agent are neither made nor lost: "Token Imbalance" is unreachable,
\* and a live agent is never sent more than ConcurrentProcessLimit requests at
\* once (handleAgentStream), for any number of agents, requests and streams.
THEOREM TokensBalanceAlways == Spec => []TokensBalance
<1>1. TokensInv => TokensBalance
  BY Zenon DEF TokensInv, TokenInv, TokensBalance
<1>2. Spec => []TokensInv
  BY TypeCorrect, TaskInvariant, TokensInit, TokensNext, PTL DEF Spec
<1> QED BY <1>1, <1>2, PTL

-----------------------------------------------------------------------------
(* Loss.  Until the stream of an agent is done there is no Defunct, so     *)
(* every request is routed by its consumerd's own goroutine, which never   *)
(* asks for a Retry.                                                       *)

Loss == \E s \in Conns : conn[s] = "done"

NoLossYet ==
  /\ \A s \in Conns : cln[s] # "range" /\ clnReq[s] = NoReq
  /\ \A s \in Conns : rcvResp[s].result \notin {"Retry", "Defunct"}
  /\ respQ.result \notin {"Retry", "Defunct"}
  /\ \A r \in Requests : answer[r] # "Retry" /\ outbox[r]["Retry"] = 0
  /\ \A r \in Requests : thr[r] # "none" => cdReq[Owner[r]] = r
  /\ \A r \in Requests, x \in RouteResults :
       outbox[r][x] > 0 => thr[r] = "none" /\ r \in submitted

LossInv == Loss \/ NoLossYet

lossVars == <<cln, clnReq, rcvResp, respQ, answer, outbox, thr, cdReq, submitted>>

\* The part of TypeOK the argument needs.
LossTypes ==
  /\ thr \in [Requests -> ThreadSteps] /\ outbox \in [Requests -> [RouteResults -> Nat]]
  /\ cdReq \in [Consumerds -> Requests \cup {NoReq}] /\ submitted \subseteq Requests
  /\ conn \in [Conns -> {"off", "live", "done"}] /\ cln \in [Conns -> {"off", "watch", "range", "done"}]
  /\ rcvResp \in [Conns -> Responses \cup {NoResp}] /\ respQ \in Responses \cup {NoResp}
  /\ answer \in [Requests -> Results \cup {"none"}]

\* Type correctness gives it.
LEMMA LossTypesHold == TypeOK => LossTypes
  BY Zenon DEF TypeOK, AgentTypes, StreamTypes, CdTypes, TableTypes, StatTypes, LossTypes

\* Nothing is lost and nobody asks for a Retry in the empty broker.
LEMMA LossInit == Init => LossInv
<1> SUFFICES ASSUME Init PROVE NoLossYet
  BY Zenon DEF LossInv
<1>1. \A r \in Requests, x \in RouteResults : outbox[r][x] = 0
  BY Zenon DEF Init
<1> QED BY <1>1, ResultFacts DEF Init, NoLossYet, NoResp

\* A step that changes nothing of this keeps it.
LEMMA LossFrame ==
  ASSUME NoLossYet, UNCHANGED lossVars
  PROVE  NoLossYet'
  BY Zenon DEF NoLossYet, lossVars

\* The routing goroutine moves on.
LEMMA LossMove ==
  ASSUME LossTypes, NoLossYet, NEW r \in Requests, NEW to, thr[r] # "none",
         thr' = [thr EXCEPT ![r] = to],
         UNCHANGED <<cln, clnReq, rcvResp, respQ, answer, outbox, cdReq, submitted>>
  PROVE  NoLossYet'
<1>1. \A q \in Requests : thr'[q] # "none" => thr[q] # "none"
  BY Zenon DEF LossTypes
<1>2. \A q \in Requests, x \in RouteResults : outbox[q][x] > 0 => q # r
  BY Zenon DEF NoLossYet
<1>3. \A q \in Requests : q # r => thr'[q] = thr[q]
  BY Zenon DEF LossTypes
<1> QED BY <1>1, <1>2, <1>3, Zenon DEF NoLossYet

\* routeNewRequest returns, and the consumerd's goroutine is free.
LEMMA LossRelease ==
  ASSUME LossTypes, NoLossYet, NEW r \in Requests,
         thr' = [thr EXCEPT ![r] = "none"], Release(r),
         UNCHANGED <<cln, clnReq, rcvResp, respQ, answer, outbox, submitted>>
  PROVE  NoLossYet'
<1>1. \A q \in Requests : thr'[q] # "none" => q # r /\ thr[q] # "none"
  BY Zenon DEF LossTypes
<1>2. \A q \in Requests : thr'[q] # "none" => cdReq'[Owner[q]] = q
  BY <1>1, BrokerAssumptions, Zenon DEF NoLossYet, Release
<1>3. \A q \in Requests : thr[q] = "none" => thr'[q] = "none"
  BY Zenon DEF LossTypes
<1> QED BY <1>2, <1>3, Zenon DEF NoLossYet

\* It blocks on responseQueue with a response other than Retry.
LEMMA LossStore ==
  ASSUME LossTypes, NoLossYet, NEW r \in Requests, NEW x \in RouteResults, x # "Retry",
         r \in submitted, thr' = [thr EXCEPT ![r] = "none"],
         outbox' = [outbox EXCEPT ![r][x] = @ + 1],
         UNCHANGED <<cln, clnReq, rcvResp, respQ, answer, cdReq, submitted>>
  PROVE  NoLossYet'
<1>1. /\ thr'[r] = "none" /\ \A q \in Requests : q # r => thr'[q] = thr[q]
      /\ \A q \in Requests : q # r => outbox'[q] = outbox[q]
      /\ outbox'[r]["Retry"] = outbox[r]["Retry"]
  BY ResultFacts, Zenon DEF LossTypes
<1>2. \A q \in Requests : outbox'[q]["Retry"] = 0
  BY <1>1, Zenon DEF NoLossYet
<1>3. \A q \in Requests : thr'[q] # "none" => cdReq[Owner[q]] = q
  BY <1>1, Zenon DEF NoLossYet
<1>4. \A q \in Requests, y \in RouteResults :
        outbox'[q][y] > 0 => thr'[q] = "none" /\ q \in submitted
  BY <1>1, Zenon DEF NoLossYet
<1> QED BY <1>2, <1>3, <1>4, Zenon DEF NoLossYet

\* The step of routeNewRequest that answers a failed route says DoNotRetry, as
\* the goroutine is the consumerd's own.
LEMMA LossRoute ==
  ASSUME LossTypes, TaskInv, NoLossYet, NEW r \in Requests, RouteStep(r)
  PROVE  NoLossYet'
<1>1. CASE \/ StorePending(r) \/ PreReceive(r) \/ PullFound(r) \/ PullNotFound(r) \/ PullError(r)
           \/ CheckAgents(r) \/ SelectCancelled(r)
  <2>1. thr[r] # "none" /\ \E to : thr' = [thr EXCEPT ![r] = to]
    BY <1>1, Zenon DEF StorePending, PreReceive, PullFound, PullNotFound, PullError, CheckAgents,
         SelectCancelled, Goto
  <2>2. UNCHANGED <<cln, clnReq, rcvResp, respQ, answer, outbox, cdReq, submitted>>
    BY <1>1, Zenon DEF StorePending, PreReceive, PullFound, PullNotFound, PullError, CheckAgents,
         SelectCancelled, agentVars, streamVars, cdVars, statVars
  <2> QED BY <2>1, <2>2, LossMove, Zenon
<1>2. CASE TakeHit(r)
  <2>1. thr[r] # "none" /\ \E to : thr' = [thr EXCEPT ![r] = to]
    BY <1>2, TakeHitEffect, Zenon
  <2>2. UNCHANGED <<cln, clnReq, rcvResp, respQ, answer, outbox, cdReq, submitted>>
    BY <1>2, Zenon DEF TakeHit, agentVars, streamVars, cdVars
  <2> QED BY <2>1, <2>2, LossMove, Zenon
<1>3. CASE StoreHit(r)
  <2>1. r \in submitted
    BY <1>3, Zenon DEF StoreHit, Goto, TaskInv, RequestInv, ThreadInv, Waiting
  <2> QED BY <1>3, <2>1, LossStore, ResultFacts, Zenon DEF StoreHit, Goto, agentVars, streamVars,
       cdVars, statVars
<1>4. ASSUME NEW s \in Conns, HandOff(r, s) PROVE NoLossYet'
  BY <1>4, LossRelease, Zenon DEF HandOff, Goto, agentVars, statVars
<1>5. CASE TakeFailed(r)
  <2>1. UNCHANGED <<cln, clnReq, rcvResp, respQ, answer, outbox, submitted>>
    BY <1>5, Zenon DEF TakeFailed, agentVars, streamVars
  <2>2. thr[r] # "none"
    BY <1>5, TakeFailedEffect, Zenon
  <2>3. CASE r \in pending
    BY <1>5, <2>1, <2>2, <2>3, TakeFailedEffect, LossMove, Zenon
  <2>4. CASE r \notin pending
    BY <1>5, <2>1, <2>4, TakeFailedEffect, LossRelease, Zenon
  <2> QED BY <2>3, <2>4, Zenon
<1>6. CASE StoreFailed(r)
  <2>1. thr[r] # "none"
    BY <1>6, Zenon DEF StoreFailed, Goto
  <2>2. IfRouteFails(r) = "DoNotRetry" /\ r \in submitted
    BY <2>1, Zenon DEF NoLossYet, IfRouteFails, TaskInv, RequestInv, ThreadInv, Waiting
  <2>3. IfRouteFails(r) \in RouteResults /\ IfRouteFails(r) # "Retry"
    BY <2>2, ResultFacts, Zenon
  <2> QED BY <1>6, <2>2, <2>3, LossStore, Zenon DEF StoreFailed, Goto, agentVars, streamVars, cdVars
<1> QED BY <1>1, <1>2, <1>3, <1>4, <1>5, <1>6, Zenon DEF RouteStep

\* Until a stream is lost only routeNewRequest and agents answer.
LEMMA LossQueue ==
  ASSUME LossTypes, NoLossYet, QueueStep \/ ResponseStep
  PROVE  NoLossYet'
<1>1. ASSUME NEW r \in Requests, NEW x \in RouteResults, QueueFromRoute(r, x) PROVE NoLossYet'
  <2>1. /\ outbox[r][x] > 0 /\ outbox' = [outbox EXCEPT ![r][x] = @ - 1]
        /\ respQ' = [id |-> r, result |-> x] /\ Release(r)
        /\ UNCHANGED <<cln, clnReq, rcvResp, answer, thr, submitted>>
    BY <1>1, Zenon DEF QueueFromRoute, agentVars, streamVars, statVars
  <2>2. x # "Retry" /\ x # "Defunct"
    BY <2>1 DEF NoLossYet, RouteResults, Fails
  <2>3. respQ'.result \notin {"Retry", "Defunct"}
    BY <2>1, <2>2, Zenon
  <2>4. thr[r] = "none"
    BY <2>1, Zenon DEF NoLossYet
  <2>5. \A q \in Requests : thr'[q] # "none" => cdReq'[Owner[q]] = q
    BY <2>1, <2>4, BrokerAssumptions, Zenon DEF NoLossYet, Release
  <2>6. \A q \in Requests, y \in RouteResults : outbox'[q][y] > 0 => outbox[q][y] > 0
    BY <2>1, Zenon DEF LossTypes
  <2>7. \A q \in Requests : outbox'[q]["Retry"] = outbox[q]["Retry"]
    BY <2>1, <2>2, ResultFacts, Zenon DEF LossTypes
  <2> QED BY <2>1, <2>3, <2>5, <2>6, <2>7, Zenon DEF NoLossYet
<1>2. ASSUME NEW s \in Conns, QueueFromAgent(s) PROVE NoLossYet'
  <2>1. /\ respQ' = rcvResp[s] /\ rcvResp' = [rcvResp EXCEPT ![s] = NoResp]
        /\ UNCHANGED <<cln, clnReq, answer, outbox, thr, cdReq, submitted>>
    BY <1>2, Zenon DEF QueueFromAgent, agentVars, cdVars, statVars
  <2>2. NoResp.result = "none"
    BY Zenon DEF NoResp
  <2>3. \A u \in Conns : rcvResp'[u] = rcvResp[u] \/ rcvResp'[u] = NoResp
    BY <2>1, Zenon DEF LossTypes
  <2>4. \A u \in Conns : rcvResp'[u].result \notin {"Retry", "Defunct"}
    BY <2>2, <2>3, Zenon DEF NoLossYet
  <2> QED BY <2>1, <2>4, Zenon DEF NoLossYet
<1>3. ASSUME NEW s \in Conns, QueueFromCleanup(s) PROVE FALSE
  BY <1>3, Zenon DEF QueueFromCleanup, NoLossYet
<1>4. CASE HandleResponse
  <2>1. /\ respQ # NoResp /\ respQ.result # "Defunct" /\ respQ.result # "Retry"
        /\ respQ.id \in Requests
    BY <1>4, ResponseFields, Zenon DEF HandleResponse, NoLossYet, LossTypes
  <2>2. /\ thr' = thr /\ answer' = [answer EXCEPT ![respQ.id] = respQ.result]
        /\ respQ' = NoResp /\ UNCHANGED <<cln, clnReq, rcvResp, outbox, cdReq, submitted>>
    BY <1>4, <2>1, HandleResponseEffect, Zenon DEF HandleResponse, streamVars, cdVars
  <2>3. \A r \in Requests : answer'[r] # "Retry"
    BY <2>1, <2>2, Zenon DEF LossTypes, NoLossYet
  <2>4. respQ'.result \notin {"Retry", "Defunct"}
    BY <2>2, Zenon DEF NoResp
  <2> QED BY <2>2, <2>3, <2>4, Zenon DEF NoLossYet
<1>5. CASE DropResponse
  <2>1. respQ'.result \notin {"Retry", "Defunct"}
    BY <1>5, Zenon DEF DropResponse, NoResp
  <2> QED BY <1>5, <2>1, Zenon DEF DropResponse, NoLossYet, agentVars, streamVars, cdVars, statVars
<1> QED BY <1>1, <1>2, <1>3, <1>4, <1>5, Zenon DEF QueueStep, ResponseStep

\* Streams that start, requests received and answers of agents.
LEMMA LossStreams ==
  ASSUME LossTypes, TaskInv, NoLossYet, StreamStep \/ \E s \in Conns : RecvStep(s), ~Loss'
  PROVE  NoLossYet'
<1>1. ASSUME NEW s \in Conns, NewAgentTaskStream(s) PROVE NoLossYet'
  <2>1. /\ cln' = [cln EXCEPT ![s] = "watch"]
        /\ UNCHANGED <<clnReq, rcvResp, respQ, answer, outbox, thr, cdReq, submitted>>
    BY <1>1, Zenon DEF NewAgentTaskStream, cdVars, tableVars, statVars
  <2>2. \A u \in Conns : cln'[u] # "range"
    BY <2>1, Zenon DEF LossTypes, NoLossYet
  <2> QED BY <2>1, <2>2, Zenon DEF NoLossYet
<1>2. ASSUME NEW s \in Conns, Disconnect(s) PROVE FALSE
  BY <1>2, Zenon DEF Disconnect, Loss, LossTypes
<1>3. CASE \/ \E c \in Consumerds :
                NewConsumerdTaskStream(c) \/ ConsumerdDisconnect(c) \/ RecvRequestError(c)
           \/ \E s \in Conns, t \in Toolchains : RelayExit(s, t)
  BY <1>3, LossFrame, Zenon DEF NewConsumerdTaskStream, ConsumerdDisconnect, RecvRequestError,
       RelayExit, lossVars, agentVars, streamVars, cdVars, tableVars, statVars
<1>4. ASSUME NEW r \in Requests, RecvRequest(r) PROVE NoLossYet'
  <2>1. /\ cdReq[Owner[r]] = NoReq /\ r \notin submitted /\ submitted' = submitted \cup {r}
        /\ cdReq' = [cdReq EXCEPT ![Owner[r]] = r] /\ thr' = [thr EXCEPT ![r] = "start"]
        /\ UNCHANGED <<cln, clnReq, rcvResp, respQ, answer, outbox>>
    BY <1>4, Zenon DEF RecvRequest, agentVars, streamVars, statVars
  <2>2. \A q \in Requests \ {r} : thr'[q] = thr[q]
    BY <2>1, Zenon DEF LossTypes
  <2>3. cdReq'[Owner[r]] = r
    BY <2>1, BrokerAssumptions, Zenon DEF LossTypes
  <2>4. ASSUME NEW q \in Requests \ {r}, thr[q] # "none" PROVE cdReq'[Owner[q]] = q
    <3>1. cdReq[Owner[q]] = q /\ Owner[q] # Owner[r]
      BY <2>1, <2>4, BrokerAssumptions, Zenon DEF NoLossYet
    <3> QED BY <2>1, <3>1, BrokerAssumptions, Zenon DEF LossTypes
  <2>5. \A q \in Requests : thr'[q] # "none" => cdReq'[Owner[q]] = q
    BY <2>2, <2>3, <2>4, Zenon
  <2>6. \A q \in Requests, x \in RouteResults :
          outbox'[q][x] > 0 => thr'[q] = "none" /\ q \in submitted'
    BY <2>1, <2>2, Zenon DEF NoLossYet
  <2> QED BY <2>1, <2>5, <2>6, Zenon DEF NoLossYet
<1>5. ASSUME NEW s \in Conns, NEW r \in Requests, NEW x \in AgentResults, RecvResponse(s, r, x)
      PROVE  NoLossYet'
  <2>1. /\ rcvResp' = [rcvResp EXCEPT ![s] = [id |-> r, result |-> x]]
        /\ UNCHANGED <<cln, clnReq, respQ, answer, outbox, thr, cdReq, submitted>>
    BY <1>5, Zenon DEF RecvResponse, agentVars, cdVars, tableVars
  <2>2. x \notin {"Retry", "Defunct"}
    BY Zenon DEF AgentResults
  <2>3. \A u \in Conns : rcvResp'[u] = rcvResp[u] \/ rcvResp'[u] = [id |-> r, result |-> x]
    BY <2>1, Zenon DEF LossTypes
  <2>4. \A u \in Conns : rcvResp'[u].result \notin {"Retry", "Defunct"}
    BY <2>2, <2>3 DEF NoLossYet
  <2> QED BY <2>1, <2>4, Zenon DEF NoLossYet
<1>6. ASSUME NEW s \in Conns, RecvDone(s) PROVE NoLossYet'
  BY <1>6, LossFrame, Zenon DEF RecvDone, lossVars, agentVars, cdVars, tableVars, statVars
<1> QED BY <1>1, <1>2, <1>3, <1>4, <1>5, <1>6, Zenon DEF StreamStep, RecvStep

\* Every step of the broker keeps LossInv: a stream that is done stays done.
LEMMA LossNext == TypeOK /\ TaskInv /\ LossInv /\ [Next]_vars => LossInv'
<1> SUFFICES ASSUME TypeOK, TaskInv, LossInv, [Next]_vars, ~Loss' PROVE NoLossYet'
  BY Zenon DEF LossInv
<1>0. LossTypes
  BY LossTypesHold, Zenon
<1>1. conn' = conn \/ \E s \in Conns : NewAgentTaskStream(s) \/ Disconnect(s)
  <2>1. CASE StreamStep
    BY <2>1, Zenon DEF StreamStep, NewConsumerdTaskStream, ConsumerdDisconnect, RecvRequestError,
         RecvRequest, RelayExit, agentVars
  <2>2. ASSUME NEW r \in Requests, RouteStep(r) PROVE conn' = conn
    BY <2>2, Zenon DEF RouteStep, StorePending, PreReceive, PullFound, PullNotFound, PullError,
         TakeHit, StoreHit, CheckAgents, HandOff, SelectCancelled, TakeFailed, StoreFailed, agentVars
  <2>3. ASSUME NEW s \in Conns, SendStep(s) \/ RecvStep(s) \/ CleanupStep(s) PROVE conn' = conn
    BY <2>3, Zenon DEF SendStep, LockToken, SendDone, Filter, TakePending, StoreInflight,
         SendRequest, RecvStep, RecvResponse, RecvDone, CleanupStep, CleanupAgent, RangeDefunct,
         RangeEnd, agentVars
  <2>4. CASE QueueStep \/ ResponseStep \/ CacheStep \/ UNCHANGED vars
    BY <2>4, Zenon DEF QueueStep, QueueFromRoute, QueueFromAgent, QueueFromCleanup, ResponseStep,
         HandleResponse, DropResponse, CacheStep, WatchCacheAvailability, CacheTransaction, Evict,
         vars, agentVars
  <2> QED BY <2>1, <2>2, <2>3, <2>4, Zenon DEF Next
<1>2. ~Loss
  BY <1>0, <1>1, Zenon DEF Loss, LossTypes, NewAgentTaskStream, Disconnect
<1>3. NoLossYet
  BY <1>2, Zenon DEF LossInv
<1>4. ASSUME NEW s \in Conns, SendStep(s) PROVE NoLossYet'
  BY <1>3, <1>4, LossFrame, Zenon DEF SendStep, LockToken, SendDone, Filter, TakePending,
       StoreInflight, SendRequest, lossVars, agentVars, cdVars, tableVars, statVars
<1>5. ASSUME NEW s \in Conns, CleanupStep(s) PROVE FALSE
  BY <1>2, <1>3, <1>5, Zenon DEF CleanupStep, CleanupAgent, RangeDefunct, RangeEnd, Loss, NoLossYet
<1>6. CASE CacheStep \/ UNCHANGED vars
  BY <1>3, <1>6, LossFrame, Zenon DEF CacheStep, WatchCacheAvailability, CacheTransaction, Evict,
       vars, lossVars, agentVars, streamVars, cdVars, tableVars, statVars
<1> QED BY <1>0, <1>3, <1>4, <1>5, <1>6, LossRoute, LossQueue, LossStreams, Zenon DEF Next

-----------------------------------------------------------------------------
(* Counters.  An answer is counted when it is written; a request between   *)
(* requestCount.Inc and its hand-off may still be taken back, so the       *)
(* requests in that phase are owed to SchedulingRequestsTotal.             *)

Answered(x) == {r \in Requests : answer[r] = x}
Routing == {r \in Requests : thr[r] \notin {"none", "start"}}

CountInv ==
  /\ \A r \in Requests : sent[r] = 0 => answer[r] = "none"
  /\ IsFiniteSet(Answered("Success")) /\ IsFiniteSet(Answered("Fail")) /\ IsFiniteSet(Routing)
  /\ completedTasks = Cardinality(Answered("Success"))
  /\ failedTasks = Cardinality(Answered("Fail"))
  /\ requestCount >= completedTasks + failedTasks + Cardinality(Routing)

\* The types of the counters.
LEMMA CountTypes ==
  ASSUME TypeOK
  PROVE  /\ requestCount \in Int /\ completedTasks \in Nat /\ failedTasks \in Nat
         /\ thr \in [Requests -> ThreadSteps] /\ sent \in [Requests -> Nat]
         /\ answer \in [Requests -> Results \cup {"none"}] /\ respQ \in Responses \cup {NoResp}
  BY Zenon DEF TypeOK, TableTypes, StatTypes

\* Nothing is counted in the empty broker.
LEMMA CountInit == Init => CountInv
<1> SUFFICES ASSUME Init PROVE CountInv
  BY Zenon
<1>1. Answered("Success") = {} /\ Answered("Fail") = {} /\ Routing = {}
  BY Zenon DEF Init, Answered, Routing
<1>2. \A r \in Requests : answer[r] = "none"
  BY Zenon DEF Init
<1>3. requestCount = 0 /\ completedTasks = 0 /\ failedTasks = 0
  BY Zenon DEF Init
<1> QED BY <1>1, <1>2, <1>3, FS_EmptySet DEF CountInv

\* A step that changes no answer, counter or phase of a request keeps CountInv.
LEMMA CountFrame ==
  ASSUME CountInv, UNCHANGED <<sent, answer, completedTasks, failedTasks, requestCount>>,
         Routing' = Routing
  PROVE  CountInv'
  BY Zenon DEF CountInv, Answered

\* A request that leaves its routing phase may take one from the total with it.
LEMMA CountLeaves ==
  ASSUME TypeOK, CountInv, NEW r \in Routing, Routing' = Routing \ {r},
         requestCount' \in {requestCount, requestCount - 1},
         UNCHANGED <<sent, answer, completedTasks, failedTasks>>
  PROVE  CountInv'
<1>1. Cardinality(Routing) \in Nat /\ IsFiniteSet(Routing)
  BY FS_CardinalityType, Zenon DEF CountInv
<1>2. IsFiniteSet(Routing') /\ Cardinality(Routing') = Cardinality(Routing) - 1
  BY <1>1, FS_RemoveElement, Zenon
<1>3. requestCount' >= completedTasks' + failedTasks' + Cardinality(Routing')
  BY <1>1, <1>2, CountTypes DEF CountInv
<1> QED BY <1>2, <1>3, Zenon DEF CountInv, Answered

\* routeNewRequest: the total is raised when the phase begins, and taken back at
\* most once, when it ends.
LEMMA CountRoute ==
  ASSUME TypeOK, TaskInv, CountInv, NEW r \in Requests, RouteStep(r)
  PROVE  CountInv'
<1> DEFINE Phase == ThreadSteps \ {"none", "start"}
<1>0. thr \in [Requests -> ThreadSteps]
  BY CountTypes, Zenon
<1>1. CASE StorePending(r)
  <2>1. PICK to \in {"fail", "hook"} : Goto(r, "start", to)
    BY <1>1, Zenon DEF StorePending
  <2>2. r \notin Routing /\ Routing' = Routing \cup {r}
    BY <1>0, <2>1, Zenon DEF Goto, Routing
  <2>3. /\ requestCount' = requestCount + 1
        /\ UNCHANGED <<sent, answer, completedTasks, failedTasks>>
    BY <1>1, Zenon DEF StorePending
  <2>4. Cardinality(Routing) \in Nat /\ IsFiniteSet(Routing)
    BY FS_CardinalityType, Zenon DEF CountInv
  <2>5. IsFiniteSet(Routing') /\ Cardinality(Routing') = Cardinality(Routing) + 1
    BY <2>2, <2>4, FS_AddElement, Zenon
  <2>6. requestCount' >= completedTasks' + failedTasks' + Cardinality(Routing')
    BY <2>3, <2>4, <2>5, CountTypes DEF CountInv
  <2> QED BY <2>3, <2>5, <2>6, Zenon DEF CountInv, Answered
<1>2. CASE \/ PreReceive(r) \/ PullFound(r) \/ PullNotFound(r) \/ PullError(r)
           \/ CheckAgents(r) \/ SelectCancelled(r)
  <2>1. \E from, to \in Phase : Goto(r, from, to)
    BY <1>2, Zenon DEF PreReceive, PullFound, PullNotFound, PullError, CheckAgents, SelectCancelled, Goto,
         ThreadSteps
  <2>2. Routing' = Routing
    BY <1>0, <2>1, Zenon DEF Goto, Routing
  <2>3. UNCHANGED <<sent, answer, completedTasks, failedTasks, requestCount>>
    BY <1>2, Zenon DEF PreReceive, PullFound, PullNotFound, PullError, CheckAgents,
         SelectCancelled, statVars
  <2> QED BY <2>2, <2>3, CountFrame, Zenon
<1>3. CASE TakeHit(r)
  <2>1. thr[r] = "hit" /\ \E to \in {"hitstore", "check"} : thr' = [thr EXCEPT ![r] = to]
    BY <1>3, TakeHitEffect, Zenon
  <2>2. Routing' = Routing
    BY <1>0, <2>1, Zenon DEF Routing
  <2> QED BY <1>3, <2>2, CountFrame, Zenon DEF TakeHit
<1>4. CASE StoreHit(r) \/ StoreFailed(r) \/ \E s \in Conns : HandOff(r, s)
  <2>1. thr[r] \in Phase /\ thr' = [thr EXCEPT ![r] = "none"]
    BY <1>4, Zenon DEF StoreHit, StoreFailed, HandOff, Goto, ThreadSteps
  <2>2. r \in Routing /\ Routing' = Routing \ {r}
    BY <1>0, <2>1, Zenon DEF Routing
  <2>3. /\ requestCount' \in {requestCount, requestCount - 1}
        /\ UNCHANGED <<sent, answer, completedTasks, failedTasks>>
    BY <1>4, Zenon DEF StoreHit, StoreFailed, HandOff, statVars
  <2> QED BY <2>2, <2>3, CountLeaves, Zenon
<1>5. CASE TakeFailed(r)
  <2>1. r \in pending
    BY <1>5, TakeFailedEffect, Zenon DEF TaskInv, RequestInv, ThreadInv, InPending
  <2>2. thr[r] = "fail" /\ thr' = [thr EXCEPT ![r] = "failstore"]
    BY <1>5, <2>1, TakeFailedEffect, Zenon
  <2>3. Routing' = Routing
    BY <1>0, <2>2, Zenon DEF Routing
  <2> QED BY <1>5, <2>3, CountFrame, Zenon DEF TakeFailed
<1> QED BY <1>1, <1>2, <1>3, <1>4, <1>5, Zenon DEF RouteStep

\* handleResponseQueue: an answer is counted once, for the request had none.
LEMMA CountResponse ==
  ASSUME TypeOK, TaskInv, CountInv, HandleResponse
  PROVE  CountInv'
<1> DEFINE r == respQ.id
           x == respQ.result
<1>1. /\ r \in Requests /\ x \in Results /\ inflight[r] # Absent
  BY ResponseFields, CountTypes, HandleResponseEffect, Zenon
<1>2. sent[r] = 0 /\ answer[r] = "none" /\ thr[r] = "none"
  BY <1>1, Zenon DEF TaskInv, RequestInv, TableInv, ThreadInv, Waiting, CountInv
<1>3. Routing' = Routing
  <2>1. thr' = thr \/ thr' = [thr EXCEPT ![r] = "start"]
    BY HandleResponseEffect, Zenon
  <2> QED BY <1>1, <1>2, <2>1, CountTypes, Zenon DEF Routing
<1>4. requestCount' = requestCount + 1
  BY Zenon DEF HandleResponse
<1>5. /\ Cardinality(Routing) \in Nat /\ IsFiniteSet(Routing)
      /\ IsFiniteSet(Answered("Success")) /\ IsFiniteSet(Answered("Fail"))
  BY FS_CardinalityType, Zenon DEF CountInv
<1>6. CASE x = "Defunct"
  <2>1. sent' = sent /\ answer' = answer
    BY <1>6, HandleResponseEffect, Zenon
  <2>2. completedTasks' = completedTasks /\ failedTasks' = failedTasks
    BY <1>6, Zenon DEF HandleResponse
  <2>3. requestCount' >= completedTasks' + failedTasks' + Cardinality(Routing')
    BY <1>3, <1>4, <1>5, <2>2, CountTypes DEF CountInv
  <2> QED BY <1>3, <2>1, <2>2, <2>3, Zenon DEF CountInv, Answered
<1>7. CASE x # "Defunct"
  <2>1. sent' = [sent EXCEPT ![r] = @ + 1] /\ answer' = [answer EXCEPT ![r] = x]
    BY <1>7, HandleResponseEffect, Zenon
  <2>2. \A q \in Requests : sent'[q] = 0 => answer'[q] = "none"
    BY <1>1, <1>2, <2>1, CountTypes DEF CountInv
  <2> HIDE DEF r, x
  <2>3. \A y \in {"Success", "Fail"} :
          Answered(y)' = IF x = y THEN Answered(y) \cup {r} ELSE Answered(y)
    BY <1>1, <1>2, <2>1, CountTypes, Zenon DEF Answered
  <2>4. \A y \in {"Success", "Fail"} : r \notin Answered(y)
    BY <1>2, Zenon DEF Answered
  <2>5. \A y \in {"Success", "Fail"} :
          /\ IsFiniteSet(Answered(y)')
          /\ Cardinality(Answered(y)') = Cardinality(Answered(y)) + (IF x = y THEN 1 ELSE 0)
    <3>1. ASSUME NEW y \in {"Success", "Fail"}, x = y
          PROVE  /\ IsFiniteSet(Answered(y)')
                 /\ Cardinality(Answered(y)') = Cardinality(Answered(y)) + 1
      <4>1. IsFiniteSet(Answered(y)) /\ r \notin Answered(y) /\ Answered(y)' = Answered(y) \cup {r}
        BY <1>5, <2>3, <2>4, <3>1, Zenon
      <4> QED BY <4>1, FS_AddElement, Zenon
    <3>2. ASSUME NEW y \in {"Success", "Fail"}, x # y
          PROVE  IsFiniteSet(Answered(y)') /\ Cardinality(Answered(y)') = Cardinality(Answered(y))
      BY <1>5, <2>3, <3>2, Zenon
    <3>3. \A y \in {"Success", "Fail"} : Cardinality(Answered(y)) \in Nat
      BY <1>5, FS_CardinalityType, Zenon
    <3> QED BY <3>1, <3>2, <3>3
  <2>6. /\ completedTasks' = completedTasks + (IF x = "Success" THEN 1 ELSE 0)
        /\ failedTasks' = failedTasks + (IF x = "Fail" THEN 1 ELSE 0)
    BY CountTypes DEF HandleResponse, x
  <2>7. /\ completedTasks' = Cardinality(Answered("Success")')
        /\ failedTasks' = Cardinality(Answered("Fail")')
    BY <2>5, <2>6, Zenon DEF CountInv
  <2>8. requestCount' >= completedTasks' + failedTasks' + Cardinality(Routing')
    BY <1>3, <1>4, <1>5, <2>6, CountTypes DEF CountInv
  <2>9. IsFiniteSet(Answered("Success")') /\ IsFiniteSet(Answered("Fail")')
    BY <2>5, Zenon
  <2> QED BY <1>3, <1>5, <2>2, <2>7, <2>8, <2>9, Zenon DEF CountInv
<1> QED BY <1>6, <1>7, Zenon

\* Every step of the broker keeps CountInv.
LEMMA CountNext == TypeOK /\ TaskInv /\ CountInv /\ [Next]_vars => CountInv'
<1> SUFFICES ASSUME TypeOK, TaskInv, CountInv, [Next]_vars PROVE CountInv'
  BY Zenon
<1>1. ASSUME NEW r \in Requests, RecvRequest(r) PROVE CountInv'
  <2>1. thr[r] = "none" /\ thr' = [thr EXCEPT ![r] = "start"]
    BY <1>1, Zenon DEF RecvRequest, TaskInv, RequestInv, ThreadInv, Waiting
  <2>2. Routing' = Routing
    BY <2>1, CountTypes, Zenon DEF Routing
  <2> QED BY <1>1, <2>2, CountFrame, Zenon DEF RecvRequest, statVars
<1>2. CASE \/ \E s \in Conns : NewAgentTaskStream(s) \/ Disconnect(s)
           \/ \E c \in Consumerds :
                NewConsumerdTaskStream(c) \/ ConsumerdDisconnect(c) \/ RecvRequestError(c)
           \/ \E s \in Conns, t \in Toolchains : RelayExit(s, t)
  <2>1. UNCHANGED <<thr, sent, answer, completedTasks, failedTasks, requestCount>>
    BY <1>2, Zenon DEF NewAgentTaskStream, Disconnect, NewConsumerdTaskStream, ConsumerdDisconnect,
         RecvRequestError, RelayExit, tableVars, statVars
  <2> QED BY <2>1, CountFrame, Zenon DEF Routing
<1>3. ASSUME NEW s \in Conns, SendStep(s) \/ RecvStep(s) \/ CleanupStep(s) PROVE CountInv'
  <2>1. UNCHANGED <<thr, sent, answer, completedTasks, failedTasks, requestCount>>
    BY <1>3, Zenon DEF SendStep, LockToken, SendDone, Filter, TakePending, StoreInflight,
         SendRequest, RecvStep, RecvResponse, RecvDone, CleanupStep, CleanupAgent, RangeDefunct,
         RangeEnd, tableVars, statVars
  <2> QED BY <2>1, CountFrame, Zenon DEF Routing
<1>4. CASE QueueStep \/ DropResponse \/ CacheStep \/ UNCHANGED vars
  <2>1. UNCHANGED <<thr, sent, answer, completedTasks, failedTasks, requestCount>>
    BY <1>4, Zenon DEF QueueStep, QueueFromRoute, QueueFromAgent, QueueFromCleanup, DropResponse,
         CacheStep, WatchCacheAvailability, CacheTransaction, Evict, vars, tableVars, statVars
  <2> QED BY <2>1, CountFrame, Zenon DEF Routing
<1> QED BY <1>1, <1>2, <1>3, <1>4, CountRoute, CountResponse, Zenon DEF Next, StreamStep, ResponseStep

\* What consumerds are told and what the broker counts agree, for any number of
\* requests, agents and losses: one answer per request, Retry only after a stream
\* was lost, completedTasks and failedTasks exact, and SchedulingRequestsTotal
\* never below them although a failed route decrements it (handleResponseQueue).
THEOREM AnswersAgreeAlways == Spec => []AnswersAgree
<1>1. LossInv => RetryOnlyAfterLoss
  BY Zenon DEF LossInv, Loss, NoLossYet, RetryOnlyAfterLoss
<1>2. TypeOK /\ CountInv => CountersAgree
  <2> SUFFICES ASSUME TypeOK, CountInv PROVE CountersAgree
    BY Zenon
  <2>1. Cardinality(Routing) \in Nat
    BY FS_CardinalityType, Zenon DEF CountInv
  <2>2. requestCount >= completedTasks + failedTasks
    BY <2>1, CountTypes DEF CountInv
  <2> QED BY <2>2, Zenon DEF CountInv, CountersAgree, Answered
<1>3. Spec => []LossInv
  BY TypeCorrect, TaskInvariant, LossInit, LossNext, PTL DEF Spec
<1>4. Spec => []CountInv
  BY TypeCorrect, TaskInvariant, CountInit, CountNext, PTL DEF Spec
<1>5. AtMostOneAnswer /\ RetryOnlyAfterLoss /\ CountersAgree => AnswersAgree
  BY Zenon DEF AnswersAgree
<1> QED BY <1>1, <1>2, <1>3, <1>4, <1>5, TypeCorrect, AtMostOneAnswerAlways, PTL
=============================================================================
