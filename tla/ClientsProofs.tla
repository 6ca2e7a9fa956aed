--------------------------- MODULE ClientsProofs ---------------------------
(* What talks to the scheduler and to the monitor, for any number of calls,     *)
(* requests, providers, handlers and streams: the health condition of a stream  *)
(* manager follows its stream, every answer finds its call, and the panics of   *)
(* the clients are out of reach but in the cases named.                         *)
EXTENDS MCClients, TLAPS

(* The stream manager. *)

\* What a step of the stream manager or of its surroundings does to a stream that
\* others hold on to: a stream that failed stays failed, a new one has a number of
\* its own, and a server that was told to stop stays so.
StreamMoves ==
  /\ ctxDone => ctxDone'
  /\ (gen' = gen /\ (alive' => alive)) \/ gen' = gen + 1

LEMMA StreamStep ==
  ASSUME SMStep \/ SMEnvironment
  PROVE  StreamMoves
<1>1. CASE TryConnectFails BY <1>1, Zenon DEF TryConnectFails, StreamMoves
<1>2. CASE TryConnect BY <1>2, Zenon DEF TryConnect, StreamMoves
<1>3. CASE HandleStreamEnds BY <1>3, Zenon DEF HandleStreamEnds, StreamMoves
<1>4. CASE WaitBackoff BY <1>4, Zenon DEF WaitBackoff, StreamMoves
<1>5. CASE RemoteStarts BY <1>5, Zenon DEF RemoteStarts, StreamMoves
<1>6. CASE StreamFails BY <1>6, Zenon DEF StreamFails, StreamMoves
<1>7. CASE Shutdown BY <1>7, Zenon DEF Shutdown, StreamMoves
<1> QED BY <1>1, <1>2, <1>3, <1>4, <1>5, <1>6, <1>7, Zenon DEF SMStep, SMEnvironment

LEMMA StreamSame ==
  ASSUME UNCHANGED smVars
  PROVE  StreamMoves
BY Zenon DEF smVars, StreamMoves

LEMMA ConditionStep ==
  ASSUME ConditionMatchesStream, SMStep \/ SMEnvironment
  PROVE  ConditionMatchesStream'
<1> USE DEF ConditionMatchesStream
<1>1. CASE TryConnectFails BY <1>1, Zenon DEF TryConnectFails, GiveUpOrRetry, Reapply
<1>2. CASE TryConnect BY <1>2, Zenon DEF TryConnect
<1>3. CASE HandleStreamEnds BY <1>3, Zenon DEF HandleStreamEnds, GiveUpOrRetry, Reapply
<1>4. CASE WaitBackoff BY <1>4, Zenon DEF WaitBackoff
<1>5. CASE RemoteStarts BY <1>5, Zenon DEF RemoteStarts
<1>6. CASE StreamFails BY <1>6, Zenon DEF StreamFails
<1>7. CASE Shutdown BY <1>7, Zenon DEF Shutdown
<1> QED BY <1>1, <1>2, <1>3, <1>4, <1>5, <1>6, <1>7, Zenon DEF SMStep, SMEnvironment

LEMMA ConditionSame ==
  ASSUME ConditionMatchesStream, UNCHANGED smVars
  PROVE  ConditionMatchesStream'
BY Zenon DEF smVars, ConditionMatchesStream

----------------------------------------------------------------------------
\* The client's channels: what is in pending, and why a call was canceled.
CallInv ==
  /\ call \in [Calls -> {"new", "sent", "waiting"} \cup Results] /\ pending \subseteq Calls
  /\ PendingAreWaiting
  /\ \A c \in Calls : call[c] = "canceled" => ctxDone
  /\ PanicOnlyOnShutdown

\* The agent's answers.  A compiler is killed only after its stream or the server
\* has ended, and neither comes back.
JobInv ==
  /\ gen \in Nat /\ DOMAIN job = Jobs /\ DOMAIN jobOn = Jobs /\ DOMAIN result = Jobs
  /\ \A j \in Jobs : jobOn[j] \in 0 .. gen
  /\ killed \subseteq Jobs
  /\ \A j \in killed : job[j] \in {"returned", "over"} /\ ContextDone(j)
  /\ \A r \in replies :
        /\ r.job \in Jobs /\ job[r.job] = "over" /\ r.on = jobOn[r.job]
        /\ r.job \in killed => ctxDone
  /\ \A q, r \in replies : q.job = r.job => q = r

\* The handlers of a display: as long as no two of them had the same provider, each
\* that waits still has its row or its gauge.
HandlerShape ==
  /\ online \subseteq Watched /\ DOMAIN hnd = Handlers
  /\ \A h \in Handlers : DOMAIN hnd[h] = {"of", "pc", "done", "rows"}
  /\ \A h \in Handlers : hnd[h].pc # "none" => hnd[h].of \in Watched
EntryShape ==
  /\ DOMAIN entry = Watched /\ posted \in [Watched -> Readings \cup {Zero}]
  /\ \A p \in Gauges : entry[p] # Gone
RowsInv ==
  ~twice =>
    /\ \A g, h \in Handlers : Waiting(g) /\ Waiting(h) /\ hnd[g].of = hnd[h].of => g = h
    /\ \A h \in Handlers : Waiting(h) => entry[hnd[h].of] # Gone
WatchInv == HandlerShape /\ EntryShape /\ RowsInv /\ PanicOnlyIfTwice

----------------------------------------------------------------------------
(* What a step of each part does to the stream. *)

HandlerTakes ==
  /\ sm = "load" /\ sm' = "handle"
  /\ UNCHANGED <<cond, gen, alive, remote, outages, ctxDone>>

StreamKept == SMStep \/ SMEnvironment \/ HandlerTakes \/ UNCHANGED smVars

LEMMA RequestStream ==
  ASSUME RequestNext
  PROVE  StreamKept
<1> USE DEF StreamKept
<1>1. CASE (SMStep \/ SMEnvironment) /\ UNCHANGED rcVars BY <1>1, Zenon
<1>2. CASE LoadNewStream BY <1>2, Zenon DEF LoadNewStream, HandlerTakes
<1>3. CASE RecvStarts \/ RecvNext \/ RecvFails \/ DrainEnds \/ ResetStream
  BY <1>3, Zenon DEF RecvStarts, RecvNext, RecvFails, DrainEnds, ResetStream
<1>4. CASE \E c \in Calls : \/ CompileSend(c) \/ CompileStore(c) \/ CompileCanceled(c)
                           \/ SchedulerAnswers(c) \/ Recv(c) \/ Drain(c)
  BY <1>4, Zenon DEF CompileSend, CompileStore, CompileCanceled, SchedulerAnswers, Recv, Drain
<1> QED BY <1>1, <1>2, <1>3, <1>4, Zenon DEF RequestNext, RequestStep

LEMMA ProviderStream ==
  ASSUME ProviderNext
  PROVE  StreamKept
<1> USE DEF StreamKept
<1>1. CASE SMEnvironment BY <1>1, Zenon
<1>2. CASE HandleStream BY <1>2, Zenon DEF HandleStream, HandlerTakes
<1>3. CASE ProviderRun BY <1>3, Zenon DEF ProviderRun, SMStep
<1>4. CASE (\E c \in Conds : ClearCondition(c)) \/ EndInitialize \/ StreamHealthUpdates \/ WatchRecv
  BY <1>4, Zenon DEF ClearCondition, EndInitialize, StreamHealthUpdates, WatchRecv
<1>5. CASE WatchEnds \/ WatchPost \/ SendMetric \/ HandleStreamReturns \/ OtherCondition \/ PostMetric
  BY <1>5, Zenon DEF WatchEnds, WatchPost, SendMetric, HandleStreamReturns, OtherCondition, PostMetric
<1> QED BY <1>1, <1>2, <1>3, <1>4, <1>5, Zenon DEF ProviderNext, ProviderStep

LEMMA AgentStream ==
  ASSUME AgentNext
  PROVE  StreamKept
<1> USE DEF StreamKept
<1>1. CASE (SMStep \/ SMEnvironment) /\ UNCHANGED agentVars BY <1>1, Zenon
<1>2. CASE HandleStreamStarts BY <1>2, Zenon DEF HandleStreamStarts, HandlerTakes
<1>3. CASE postTaskStatus BY <1>3, Zenon DEF postTaskStatus
<1>4. CASE \E j \in Jobs : \/ RecvMsg(j) \/ CountTask(j) \/ CompileJob(j) \/ CompilerKilled(j)
                          \/ SendMsg(j) \/ SchedulerSends(j) \/ CompilerExits(j)
  BY <1>4, Zenon DEF RecvMsg, CountTask, CompileJob, CompilerKilled, SendMsg, SchedulerSends, CompilerExits
<1> QED BY <1>1, <1>2, <1>3, <1>4, Zenon DEF AgentNext, AgentStep

LEMMA AnyStream ==
  ASSUME Next
  PROVE  StreamKept
<1>1. CASE RequestNext BY <1>1, RequestStream, Zenon
<1>2. CASE ProviderNext BY <1>2, ProviderStream, Zenon
<1>3. CASE AgentNext BY <1>3, AgentStream, Zenon
<1>4. CASE UNCHANGED smVars BY <1>4, Zenon DEF StreamKept
<1> QED BY <1>1, <1>2, <1>3, <1>4, Zenon DEF Next

LEMMA AnyStreamMoves ==
  ASSUME Next
  PROVE  StreamMoves
<1>1. StreamKept BY AnyStream, Zenon
<1>2. CASE HandlerTakes BY <1>2, Zenon DEF HandlerTakes, StreamMoves
<1> QED BY <1>1, <1>2, StreamStep, StreamSame, Zenon DEF StreamKept

\* The condition of a component's health is in force exactly while Run has no stream
\* to handle (stream.go:165), whoever uses the stream manager and however often the
\* stream fails.
THEOREM ConditionMatchesStreamAlways == Spec => []ConditionMatchesStream
<1>1. Init => ConditionMatchesStream
  BY Zenon DEF Init, RequestInit, SMInit, ConditionMatchesStream
<1>2. ASSUME ConditionMatchesStream, [Next]_vars PROVE ConditionMatchesStream'
  <2>1. CASE Next
    <3>1. StreamKept BY <2>1, AnyStream, Zenon
    <3>2. CASE HandlerTakes BY <1>2, <3>2, Zenon DEF HandlerTakes, ConditionMatchesStream
    <3> QED BY <1>2, <3>1, <3>2, ConditionStep, ConditionSame, Zenon DEF StreamKept
  <2>2. CASE UNCHANGED vars BY <1>2, <2>2, ConditionSame, Zenon DEF vars
  <2> QED BY <1>2, <2>1, <2>2, Zenon
<1> QED BY <1>1, <1>2, PTL DEF Spec

----------------------------------------------------------------------------
(* The request client. *)

LEMMA CallInit == ASSUME Init PROVE CallInv
BY Zenon DEF Init, RequestInit, CallInv, PendingAreWaiting, PanicOnlyOnShutdown

LEMMA CallSame ==
  ASSUME CallInv, call' = call, pending' = pending, panicked' = panicked, ctxDone => ctxDone'
  PROVE  CallInv'
BY Zenon DEF CallInv, PendingAreWaiting, PanicOnlyOnShutdown

\* Delivering to a call that has a channel takes the channel away; only a call that was
\* canceled makes the worker panic.
LEMMA CallDelivered ==
  ASSUME CallInv, NEW c \in pending, NEW r \in {"ok", "recvError"},
         Deliver(c, r), pending' = pending \ {c}, ctxDone' = ctxDone
  PROVE  CallInv'
<1>1. c \in Calls /\ call[c] \in {"waiting", "canceled"} BY Zenon DEF CallInv, PendingAreWaiting
<1>2. call' \in [Calls -> {"new", "sent", "waiting"} \cup Results]
  BY <1>1, Zenon DEF CallInv, Deliver, Results
<1>3. \A d \in Calls : d # c => call'[d] = call[d] BY <1>1, Zenon DEF CallInv, Deliver
<1>4. call'[c] # "waiting" /\ (call'[c] = "canceled" => call[c] = "canceled")
  BY <1>1, Zenon DEF CallInv, Deliver
<1>5. PendingAreWaiting' BY <1>1, <1>3, <1>4, Zenon DEF CallInv, PendingAreWaiting
<1>6. \A d \in Calls : call'[d] = "canceled" => ctxDone' BY <1>3, <1>4, Zenon DEF CallInv
<1>7. PanicOnlyOnShutdown' BY <1>1, Zenon DEF CallInv, Deliver, PanicOnlyOnShutdown
<1> QED BY <1>2, <1>5, <1>6, <1>7, Zenon DEF CallInv

LEMMA CallStep ==
  ASSUME CallInv, RequestNext
  PROVE  CallInv'
<1>1. CASE (SMStep \/ SMEnvironment) /\ UNCHANGED rcVars
  BY <1>1, StreamStep, CallSame, Zenon DEF rcVars, StreamMoves
<1>2. CASE LoadNewStream \/ RecvStarts \/ RecvNext \/ RecvFails \/ DrainEnds \/ ResetStream
  <2>1. UNCHANGED <<call, pending, panicked>>
    BY <1>2, ZenonT(30) DEF LoadNewStream, RecvStarts, RecvNext, RecvFails, DrainEnds, ResetStream
  <2>2. ctxDone' = ctxDone
    BY <1>2, ZenonT(30) DEF LoadNewStream, RecvStarts, RecvNext, RecvFails, DrainEnds, ResetStream, smVars
  <2> QED BY <2>1, <2>2, CallSame, Zenon
<1>3. ASSUME NEW c \in Calls, CompileSend(c) PROVE CallInv'
  <2>1. call' \in [Calls -> {"new", "sent", "waiting"} \cup Results]
    BY <1>3, Zenon DEF CompileSend, CallInv, Results
  <2>2. \A d \in Calls : d # c => call'[d] = call[d] BY <1>3, Zenon DEF CompileSend, CallInv
  <2>3. call'[c] \notin {"waiting", "canceled"} BY <1>3, Zenon DEF CompileSend, CallInv
  <2>4. c \notin pending BY <1>3, Zenon DEF CompileSend, CallInv, PendingAreWaiting
  <2>5. pending' = pending /\ panicked' = panicked /\ ctxDone' = ctxDone
    BY <1>3, Zenon DEF CompileSend, smVars
  <2> QED BY <2>1, <2>2, <2>3, <2>4, <2>5, Zenon DEF CallInv, PendingAreWaiting, PanicOnlyOnShutdown
<1>4. ASSUME NEW c \in Calls, CompileStore(c) PROVE CallInv'
  <2>1. call' \in [Calls -> {"new", "sent", "waiting"} \cup Results]
    BY <1>4, Zenon DEF CompileStore, CallInv
  <2>2. \A d \in Calls : d # c => call'[d] = call[d] BY <1>4, Zenon DEF CompileStore, CallInv
  <2>3. call'[c] = "waiting" BY <1>4, Zenon DEF CompileStore, CallInv
  <2>4. pending' = pending \cup {c} /\ panicked' = panicked /\ ctxDone' = ctxDone
    BY <1>4, Zenon DEF CompileStore, smVars
  <2> QED BY <2>1, <2>2, <2>3, <2>4, Zenon DEF CallInv, PendingAreWaiting, PanicOnlyOnShutdown
<1>5. ASSUME NEW c \in Calls, CompileCanceled(c) PROVE CallInv'
  <2>1. call' \in [Calls -> {"new", "sent", "waiting"} \cup Results]
    BY <1>5, Zenon DEF CompileCanceled, CallInv, Results
  <2>2. \A d \in Calls : d # c => call'[d] = call[d] BY <1>5, Zenon DEF CompileCanceled, CallInv
  <2>3. call'[c] = "canceled" /\ ctxDone BY <1>5, Zenon DEF CompileCanceled, CanceledByContext, CallInv
  <2>4. pending' = pending /\ panicked' = panicked /\ ctxDone' = ctxDone
    BY <1>5, Zenon DEF CompileCanceled, smVars
  <2> QED BY <2>1, <2>2, <2>3, <2>4, Zenon DEF CallInv, PendingAreWaiting, PanicOnlyOnShutdown
<1>6. ASSUME NEW c \in Calls, SchedulerAnswers(c) PROVE CallInv'
  BY <1>6, CallSame, Zenon DEF SchedulerAnswers, smVars
<1>7. ASSUME NEW c \in Calls, Recv(c) PROVE CallInv'
  <2>1. ctxDone' = ctxDone BY <1>7, Zenon DEF Recv, smVars
  <2>2. CASE c \in pending
    BY <1>7, <2>1, <2>2, CallDelivered, Zenon DEF Recv, Taken
  <2>3. CASE c \notin pending
    BY <1>7, <2>1, <2>3, CallSame, Zenon DEF Recv
  <2> QED BY <2>2, <2>3, Zenon
<1>8. ASSUME NEW c \in Calls, Drain(c) PROVE CallInv'
  BY <1>8, CallDelivered, Zenon DEF Drain, smVars
<1> QED BY <1>1, <1>2, <1>3, <1>4, <1>5, <1>6, <1>7, <1>8, Zenon DEF RequestNext, RequestStep

LEMMA CallNext ==
  ASSUME CallInv, [Next]_vars
  PROVE  CallInv'
<1>1. CASE RequestNext BY <1>1, CallStep, Zenon
<1>2. CASE Next /\ UNCHANGED rcVars
  BY <1>2, AnyStreamMoves, CallSame, Zenon DEF rcVars, StreamMoves
<1>3. CASE UNCHANGED vars BY <1>3, CallSame, Zenon DEF vars, rcVars, smVars
<1> QED BY <1>1, <1>2, <1>3, Zenon DEF Next

----------------------------------------------------------------------------
(* The agent. *)

LEMMA JobInit == ASSUME Init PROVE JobInv
BY DEF Init, AgentInit, SMInit, JobInv, ContextDone

\* A context that is done stays done: a stream that a request came on is never alive
\* again once it has failed or has been replaced.
LEMMA DoneStays ==
  ASSUME JobInv, StreamMoves, jobOn' = jobOn, NEW j \in Jobs, ContextDone(j)
  PROVE  ContextDone(j)'
<1>1. gen \in Nat /\ jobOn[j] \in 0 .. gen BY Zenon DEF JobInv
<1>2. CASE gen' = gen /\ (alive' => alive) BY <1>2, Zenon DEF ContextDone, StreamMoves
<1>3. CASE gen' = gen + 1 BY <1>1, <1>3 DEF ContextDone
<1> QED BY <1>2, <1>3 DEF StreamMoves

LEMMA JobSame ==
  ASSUME JobInv, StreamMoves,
         UNCHANGED <<job, jobOn, result, replies, killed>>
  PROVE  JobInv'
<1>1. gen \in Nat /\ gen' \in Nat /\ gen <= gen'
  <2>1. gen \in Nat /\ gen' \in {gen, gen + 1} BY Zenon DEF JobInv, StreamMoves
  <2> QED BY <2>1
<1>2. ASSUME NEW j \in Jobs PROVE jobOn'[j] \in 0 .. gen'
  <2>1. jobOn'[j] \in 0 .. gen BY Zenon DEF JobInv
  <2> QED BY <1>1, <2>1
<1>3. \A j \in killed : ContextDone(j)' BY DoneStays DEF JobInv
<1>4. ctxDone => ctxDone' BY Zenon DEF StreamMoves
<1> QED BY Zenon, <1>1, <1>2, <1>3, <1>4 DEF JobInv

\* A step that moves one request to a stage before its answer.
LEMMA JobMoves ==
  ASSUME JobInv, NEW j \in Jobs, NEW pc, job[j] # "over", pc # "over",
         job' = [job EXCEPT ![j] = pc], DOMAIN result' = Jobs,
         j \in killed => pc = "returned",
         UNCHANGED <<smVars, jobOn, replies, killed>>
  PROVE  JobInv'
<1>1. DOMAIN job' = Jobs /\ job'[j] = pc /\ \A i \in Jobs : i # j => job'[i] = job[i] BY Zenon DEF JobInv
<1>2. \A i \in Jobs : ContextDone(i) => ContextDone(i)' BY Zenon DEF ContextDone, smVars
<1>3. \A i \in killed' : job'[i] \in {"returned", "over"} /\ ContextDone(i)' BY <1>1, <1>2, Zenon DEF JobInv
<1>4. \A r \in replies : r.job \in Jobs /\ r.job # j /\ job[r.job] = "over" BY Zenon DEF JobInv
<1>5. \A r \in replies : job'[r.job] = "over" BY <1>1, <1>4, Zenon
<1> QED BY <1>1, <1>3, <1>5, Zenon DEF JobInv, smVars

LEMMA JobStep ==
  ASSUME JobInv, AgentNext
  PROVE  JobInv'
<1>1. CASE (SMStep \/ SMEnvironment) /\ UNCHANGED agentVars
  BY <1>1, StreamStep, JobSame, Zenon DEF agentVars
<1>2. CASE HandleStreamStarts
  BY <1>2, JobSame, Zenon DEF HandleStreamStarts, agentVars, StreamMoves
<1>3. CASE postTaskStatus
  BY <1>3, StreamSame, JobSame, Zenon DEF postTaskStatus
<1>4. ASSUME NEW j \in Jobs, SchedulerSends(j) PROVE JobInv'
  <2>1. j \notin killed /\ \A r \in replies : r.job \in Jobs /\ r.job # j
    BY <1>4, Zenon DEF SchedulerSends, JobInv
  <2>2. UNCHANGED <<sm, gen, alive, ctxDone, result, replies, killed>>
    BY <1>4, Zenon DEF SchedulerSends, smVars
  <2>3. DOMAIN job' = Jobs /\ DOMAIN jobOn' = Jobs /\ jobOn'[j] = gen
    BY <1>4, Zenon DEF SchedulerSends, JobInv
  <2>4. \A i \in Jobs : i # j => job'[i] = job[i] /\ jobOn'[i] = jobOn[i]
    BY <1>4, Zenon DEF SchedulerSends, JobInv
  <2>5. ASSUME NEW i \in Jobs PROVE jobOn'[i] \in 0 .. gen'
    <3>1. gen \in Nat /\ jobOn[i] \in 0 .. gen BY Zenon DEF JobInv
    <3>2. gen \in 0 .. gen BY <3>1
    <3> QED BY <2>2, <2>3, <2>4, <3>1, <3>2, Zenon
  <2>6. \A i \in killed' : job'[i] \in {"returned", "over"} /\ ContextDone(i)'
    BY <2>1, <2>2, <2>4, Zenon DEF JobInv, ContextDone
  <2>7. \A r \in replies' :
           /\ r.job \in Jobs /\ job'[r.job] = "over" /\ r.on = jobOn'[r.job]
           /\ r.job \in killed' => ctxDone'
    BY <2>1, <2>2, <2>4, Zenon DEF JobInv
  <2> QED BY <2>2, <2>3, <2>5, <2>6, <2>7, Zenon DEF JobInv
<1>5. ASSUME NEW j \in Jobs, RecvMsg(j) \/ CountTask(j) PROVE JobInv'
  <2>1. j \notin killed BY <1>5, Zenon DEF RecvMsg, CountTask, JobInv
  <2> QED BY <1>5, <2>1, JobMoves, Zenon DEF RecvMsg, CountTask, JobInv
<1>6. ASSUME NEW j \in Jobs, CompileJob(j) \/ CompilerExits(j) PROVE JobInv'
  <2>1. j \notin killed /\ job[j] # "over" BY <1>6, Zenon DEF CompileJob, CompilerExits, JobInv
  <2>2. DOMAIN result' = Jobs BY <1>6, Zenon DEF CompileJob, CompilerExits, Returns, JobInv
  <2>3. \E pc \in {"runs", "returned"} : job' = [job EXCEPT ![j] = pc]
    BY <1>6, Zenon DEF CompileJob, CompilerExits, Returns
  <2>4. UNCHANGED <<smVars, jobOn, replies, killed>> BY <1>6, Zenon DEF CompileJob, CompilerExits
  <2> QED BY <2>1, <2>2, <2>3, <2>4, JobMoves, Zenon
<1>7. ASSUME NEW j \in Jobs, CompilerKilled(j) PROVE JobInv'
  <2>1. DOMAIN job' = Jobs /\ job'[j] = "returned" /\ \A i \in Jobs : i # j => job'[i] = job[i]
    BY <1>7, Zenon DEF CompilerKilled, Returns, JobInv
  <2>2. DOMAIN result' = Jobs BY <1>7, Zenon DEF CompilerKilled, Returns, JobInv
  <2>3. UNCHANGED <<gen, alive, ctxDone, jobOn, replies>> BY <1>7, Zenon DEF CompilerKilled, smVars
  <2>4. killed' = killed \cup {j} /\ ContextDone(j) /\ job[j] = "runs" BY <1>7, Zenon DEF CompilerKilled
  <2>5. \A i \in Jobs : ContextDone(i)' <=> ContextDone(i) BY <2>3, Zenon DEF ContextDone
  <2>6. \A i \in killed' : i \in Jobs /\ job'[i] \in {"returned", "over"} /\ ContextDone(i)'
    BY <2>1, <2>4, <2>5, Zenon DEF JobInv
  <2>7. \A r \in replies : r.job \in Jobs /\ r.job # j /\ job[r.job] = "over" BY <2>4, Zenon DEF JobInv
  <2>8. \A r \in replies' :
           /\ r.job \in Jobs /\ job'[r.job] = "over" /\ r.on = jobOn'[r.job]
           /\ r.job \in killed' => ctxDone'
    BY <2>1, <2>3, <2>4, <2>7, Zenon DEF JobInv
  <2> QED BY <2>1, <2>2, <2>3, <2>6, <2>8, Zenon DEF JobInv
<1>8. ASSUME NEW j \in Jobs, SendMsg(j) PROVE JobInv'
  <2>1. DOMAIN job' = Jobs /\ job'[j] = "over" /\ \A i \in Jobs : i # j => job'[i] = job[i]
    BY <1>8, Zenon DEF SendMsg, JobInv
  <2>2. UNCHANGED <<gen, alive, ctxDone, jobOn, result, killed>> BY <1>8, Zenon DEF SendMsg, smVars
  <2>3. \A i \in Jobs : ContextDone(i)' <=> ContextDone(i) BY <2>2, Zenon DEF ContextDone
  <2>4. \A i \in killed' : job'[i] \in {"returned", "over"} /\ ContextDone(i)'
    BY <2>1, <2>2, <2>3, Zenon DEF JobInv
  <2>5. \A r \in replies : r.job \in Jobs /\ r.job # j
    BY <1>8, Zenon DEF SendMsg, JobInv
  <2>6. CASE UNCHANGED replies
    BY <2>1, <2>2, <2>4, <2>5, <2>6, Zenon DEF JobInv
  <2>7. CASE /\ StreamOf(j) = gen /\ alive
             /\ replies' = replies \cup {[job |-> j, on |-> gen, result |-> result[j]]}
    <3> DEFINE new == [job |-> j, on |-> gen, result |-> result[j]]
    <3>1. new.job = j /\ new.on = jobOn[j] BY <2>7, Zenon DEF StreamOf
    <3>2. j \in killed => ctxDone BY <2>7, Zenon DEF JobInv, ContextDone, StreamOf
    <3>3. replies' = replies \cup {new} BY <2>7, Zenon
    <3> HIDE DEF new
    <3>4. \A r \in replies' :
             /\ r.job \in Jobs /\ job'[r.job] = "over" /\ r.on = jobOn'[r.job]
             /\ r.job \in killed' => ctxDone'
      BY <2>1, <2>2, <2>5, <3>1, <3>2, <3>3, Zenon DEF JobInv
    <3>5. \A q, r \in replies' : q.job = r.job => q = r
      BY <2>5, <3>1, <3>3, Zenon DEF JobInv
    <3> QED BY <2>1, <2>2, <2>4, <3>4, <3>5, Zenon DEF JobInv
  <2> QED BY <1>8, <2>6, <2>7, Zenon DEF SendMsg
<1> QED BY <1>1, <1>2, <1>3, <1>4, <1>5, <1>6, <1>7, <1>8, Zenon DEF AgentNext, AgentStep

LEMMA JobNext ==
  ASSUME JobInv, [Next]_vars
  PROVE  JobInv'
<1>1. CASE AgentNext BY <1>1, JobStep, Zenon
<1>2. CASE Next /\ UNCHANGED agentVars BY <1>2, AnyStreamMoves, JobSame, Zenon DEF agentVars
<1>3. CASE UNCHANGED vars BY <1>3, StreamSame, JobSame, Zenon DEF vars, agentVars
<1> QED BY <1>1, <1>2, <1>3, Zenon DEF Next

\* An answer finds its call on both ends of the scheduler's streams, for any number of
\* calls, requests and reconnections: the agent sends at most one per request, on the
\* request's own stream and never a failure of a compiler that it killed with that
\* stream (agent/server.go:225), and the client has a channel for exactly the calls
\* that wait or were canceled (clients/scheduler.go:84).
THEOREM AnswersFindTheirCallsAlways == Spec => []AnswersFindTheirCalls
<1>1. Init => CallInv /\ JobInv BY CallInit, JobInit, Zenon
<1>2. CallInv /\ JobInv /\ [Next]_vars => (CallInv /\ JobInv)' BY CallNext, JobNext, Zenon
<1>3. CallInv /\ JobInv => AnswersFindTheirCalls
  BY Zenon DEF CallInv, JobInv, AnswersFindTheirCalls, AnswerIsGenuine
<1> QED BY <1>1, <1>2, <1>3, PTL DEF Spec

----------------------------------------------------------------------------
(* The handlers that follow the providers. *)

LEMMA WatchInit == ASSUME Init PROVE WatchInv
<1>1. HandlerShape BY Zenon DEF Init, PWInit, HandlerShape
<1>2. EntryShape BY DEF Init, PWInit, EntryShape, Gauges, Zero, Gone
<1>3. RowsInv BY DEF Init, PWInit, RowsInv, Waiting
<1> QED BY <1>1, <1>2, <1>3, Zenon DEF Init, PWInit, WatchInv, PanicOnlyIfTwice

\* A step that leaves who waits for whom alone, and takes no entry away.
LEMMA WatchKeeps ==
  ASSUME WatchInv, ~died, UNCHANGED <<died, twice>>,
         HandlerShape', EntryShape',
         \A h \in Handlers : Waiting(h)' => Waiting(h) /\ hnd'[h].of = hnd[h].of,
         \A p \in Watched : entry[p] # Gone => entry'[p] # Gone
  PROVE  WatchInv'
<1>1. RowsInv'
  <2>1. SUFFICES ASSUME ~twice PROVE
          /\ \A g, h \in Handlers : Waiting(g)' /\ Waiting(h)' /\ hnd'[g].of = hnd'[h].of => g = h
          /\ \A h \in Handlers : Waiting(h)' => entry'[hnd'[h].of] # Gone
    BY Zenon DEF RowsInv
  <2>2. \A h \in Handlers : Waiting(h) => hnd[h].of \in Watched
    BY Zenon DEF WatchInv, HandlerShape, Waiting
  <2>3. /\ \A g, h \in Handlers : Waiting(g) /\ Waiting(h) /\ hnd[g].of = hnd[h].of => g = h
        /\ \A h \in Handlers : Waiting(h) => entry[hnd[h].of] # Gone
    BY <2>1, Zenon DEF WatchInv, RowsInv
  <2> QED BY <2>2, <2>3, Zenon
<1> QED BY <1>1, Zenon DEF WatchInv, PanicOnlyIfTwice

LEMMA WatchSame ==
  ASSUME WatchInv, UNCHANGED pwVars
  PROVE  WatchInv'
BY Zenon DEF WatchInv, pwVars, HandlerShape, EntryShape, RowsInv, PanicOnlyIfTwice, Waiting

\* The monitor and the listener of its providers only cancel handlers, or start one.
LEMMA WatchMonitor ==
  ASSUME WatchInv, ~died, UNCHANGED <<entry, died, twice>>, online' \subseteq Watched,
         posted' \in [Watched -> Readings \cup {Zero}],
         DOMAIN hnd' = Handlers,
         \A h \in Handlers : DOMAIN hnd'[h] = {"of", "pc", "done", "rows"},
         \A h \in Handlers : \/ hnd'[h].of = hnd[h].of /\ hnd'[h].pc = hnd[h].pc
                             \/ hnd'[h].of \in Watched /\ hnd'[h].pc = "whois"
  PROVE  WatchInv'
<1>1. HandlerShape' BY Zenon DEF WatchInv, HandlerShape
<1>2. EntryShape' BY Zenon DEF WatchInv, EntryShape
<1>3. \A h \in Handlers : Waiting(h)' => Waiting(h) /\ hnd'[h].of = hnd[h].of BY Zenon DEF Waiting
<1> QED BY <1>1, <1>2, <1>3, WatchKeeps, Zenon

LEMMA CancelledSame ==
  ASSUME HandlerShape, NEW gone, hnd' = Cancelled(gone)
  PROVE  /\ DOMAIN hnd' = Handlers
         /\ \A h \in Handlers : /\ DOMAIN hnd'[h] = {"of", "pc", "done", "rows"}
                                /\ hnd'[h].of = hnd[h].of /\ hnd'[h].pc = hnd[h].pc
BY Zenon DEF HandlerShape, Cancelled

LEMMA WatchEnvironment ==
  ASSUME WatchInv, ~died, MonitorLost \/ \E p \in Watched : Connect(p) \/ PostValue(p) \/ Disconnect(p)
  PROVE  WatchInv'
<1>0. HandlerShape /\ online \subseteq Watched /\ posted \in [Watched -> Readings \cup {Zero}]
  BY Zenon DEF WatchInv, HandlerShape, EntryShape
<1>1. CASE MonitorLost
  <2>1. online' \subseteq Watched /\ posted' \in [Watched -> Readings \cup {Zero}]
    BY <1>0, <1>1, Zenon DEF MonitorLost, Leave
  <2>2. hnd' = Cancelled(Watched) /\ UNCHANGED <<entry, died, twice>> BY <1>1, Zenon DEF MonitorLost
  <2> QED BY <1>0, <2>1, <2>2, CancelledSame, WatchMonitor, Zenon
<1>2. ASSUME NEW p \in Watched, Connect(p) \/ PostValue(p) \/ Disconnect(p) PROVE WatchInv'
  <2>1. online' \subseteq Watched /\ posted' \in [Watched -> Readings \cup {Zero}]
    BY <1>0, <1>2, Zenon DEF Connect, PostValue, Disconnect, Leave
  <2>2. hnd' = hnd /\ UNCHANGED <<entry, died, twice>> BY <1>2, Zenon DEF Connect, PostValue, Disconnect
  <2> QED BY <1>0, <2>1, <2>2, WatchMonitor, Zenon DEF HandlerShape
<1> QED BY <1>1, <1>2, Zenon

LEMMA WatchChanged ==
  ASSUME WatchInv, ~died, ProvidersChanged
  PROVE  WatchInv'
<1>0. HandlerShape /\ online \subseteq Watched /\ posted \in [Watched -> Readings \cup {Zero}]
  BY Zenon DEF WatchInv, HandlerShape, EntryShape
<1>1. CASE hnd' = Cancelled(Removed(online)) /\ UNCHANGED <<online, posted, entry, died, twice>>
  BY <1>0, <1>1, CancelledSame, WatchMonitor, Zenon
<1>2. ASSUME NEW p \in online, NEW h \in Handlers,
             hnd' = [hnd EXCEPT ![h].of = p, ![h].pc = "whois"], UNCHANGED <<online, posted, entry, died, twice>>
      PROVE  WatchInv'
  <2>1. DOMAIN hnd' = Handlers /\ \A g \in Handlers : g # h => hnd'[g] = hnd[g]
    BY <1>0, <1>2, Zenon DEF HandlerShape
  <2>2. DOMAIN hnd'[h] = {"of", "pc", "done", "rows"} /\ hnd'[h].of = p /\ hnd'[h].pc = "whois"
    BY <1>0, <1>2, Zenon DEF HandlerShape
  <2>3. \A g \in Handlers : DOMAIN hnd'[g] = {"of", "pc", "done", "rows"}
    BY <1>0, <2>1, <2>2, Zenon DEF HandlerShape
  <2> QED BY <1>0, <1>2, <2>1, <2>2, <2>3, WatchMonitor, Zenon
<1> QED BY <1>1, <1>2, Zenon DEF ProvidersChanged

\* The handler of a provider that is there waits from now on, with its row or its
\* gauge; if another one waits for that provider, twice says so.
LEMMA WatchWhois ==
  ASSUME WatchInv, ~died, NEW h \in Handlers, WhoisReply(h)
  PROVE  WatchInv'
<1> DEFINE p == hnd[h].of
<1>1. p \in Watched /\ hnd[h].pc = "whois" BY Zenon DEF WatchInv, HandlerShape, WhoisReply
<1>2. UNCHANGED <<online, posted>> BY Zenon DEF WhoisReply
<1>3. \E pc \in {"over", "waiting"} : hnd' = [hnd EXCEPT ![h].pc = pc]
  BY Zenon DEF WhoisReply, WhoisFailed
<1>4. DOMAIN hnd' = Handlers /\ \A g \in Handlers : g # h => hnd'[g] = hnd[g]
  BY <1>3, Zenon DEF WatchInv, HandlerShape
<1>5. hnd'[h].of = p /\ \A g \in Handlers : DOMAIN hnd'[g] = {"of", "pc", "done", "rows"}
  BY <1>3, Zenon DEF WatchInv, HandlerShape
<1>6. HandlerShape' BY <1>1, <1>2, <1>4, <1>5, Zenon DEF WatchInv, HandlerShape
<1>7. CASE /\ p \notin online /\ hnd' = [hnd EXCEPT ![h].pc = "over"]
           /\ died' = (p \in Exported) /\ UNCHANGED <<entry, twice>>
  <2>1. hnd'[h].pc = "over" BY <1>7, Zenon DEF WatchInv, HandlerShape
  <2>2. EntryShape' BY <1>2, <1>7, Zenon DEF WatchInv, EntryShape
  <2>3. \A g \in Handlers : Waiting(g)' => Waiting(g) /\ hnd'[g].of = hnd[g].of
    BY <1>4, <2>1, Zenon DEF Waiting
  <2>4. RowsInv' BY <1>7, <2>3, Zenon DEF WatchInv, RowsInv
  <2>5. PanicOnlyIfTwice' BY <1>5, <1>7, <2>1, Zenon DEF PanicOnlyIfTwice
  <2> QED BY <1>6, <2>2, <2>4, <2>5, Zenon DEF WatchInv
<1>8. CASE /\ hnd' = [hnd EXCEPT ![h].pc = "waiting"]
           /\ entry' = [entry EXCEPT ![p] = IF p \in Listed THEN Zero ELSE @]
           /\ twice' = (twice \/ SameProvider(h)) /\ UNCHANGED died
  <2>1. hnd'[h].pc = "waiting" BY <1>8, Zenon DEF WatchInv, HandlerShape
  <2>2. /\ DOMAIN entry' = Watched /\ \A q \in Watched : q # p => entry'[q] = entry[q]
        /\ entry'[p] = IF p \in Listed THEN Zero ELSE entry[p]
    BY <1>1, <1>8, Zenon DEF WatchInv, EntryShape
  <2>3. \A q \in Gauges : entry[q] # Gone BY Zenon DEF WatchInv, EntryShape
  <2>9. Zero # Gone BY DEF Zero, Gone
  <2> HIDE DEF p
  <2>4. entry'[p] # Gone BY <1>1, <2>2, <2>3, <2>9, Zenon DEF Gauges
  <2> USE DEF p
  <2>5. EntryShape' BY <1>2, <2>2, <2>3, <2>4, Zenon DEF WatchInv, EntryShape, Gauges
  <2>6. ASSUME ~twice' PROVE
          /\ \A f, g \in Handlers : Waiting(f)' /\ Waiting(g)' /\ hnd'[f].of = hnd'[g].of => f = g
          /\ \A g \in Handlers : Waiting(g)' => entry'[hnd'[g].of] # Gone
    <3>1. ~twice /\ \A g \in Handlers : g # h /\ Waiting(g) => hnd[g].of # p
      BY <1>8, <2>6, Zenon DEF SameProvider
    <3>2. \A g \in Handlers : g # h => (Waiting(g)' <=> Waiting(g)) BY <1>4, Zenon DEF Waiting
    <3>3. \A f, g \in Handlers : Waiting(f) /\ Waiting(g) /\ hnd[f].of = hnd[g].of => f = g
      BY <3>1, Zenon DEF WatchInv, RowsInv
    <3>4. \A g \in Handlers : Waiting(g) => entry[hnd[g].of] # Gone /\ hnd[g].of \in Watched
      BY <3>1, Zenon DEF WatchInv, RowsInv, HandlerShape, Waiting
    <3>5. \A f, g \in Handlers : Waiting(f)' /\ Waiting(g)' /\ hnd'[f].of = hnd'[g].of => f = g
      BY <1>4, <1>5, <3>1, <3>2, <3>3, Zenon
    <3>6. \A g \in Handlers : Waiting(g)' => entry'[hnd'[g].of] # Gone
      BY <1>4, <1>5, <2>2, <2>4, <3>1, <3>2, <3>4, Zenon
    <3> QED BY <3>5, <3>6, Zenon
  <2>7. RowsInv' BY <2>6, Zenon DEF RowsInv
  <2> QED BY <1>6, <1>8, <2>5, <2>7, Zenon DEF WatchInv, PanicOnlyIfTwice
<1> QED BY <1>7, <1>8, Zenon DEF WhoisReply, WhoisFailed

\* A handler that is done deletes the entry of its provider, which is its own unless two
\* handlers waited for that provider.
LEMMA WatchDone ==
  ASSUME WatchInv, ~died, NEW h \in Handlers, Done(h)
  PROVE  WatchInv'
<1> DEFINE p == hnd[h].of
<1>1. p \in Watched /\ Waiting(h) BY Zenon DEF WatchInv, HandlerShape, Done, Waiting
<1>2. UNCHANGED <<online, posted, twice>> BY Zenon DEF Done
<1>3. CASE entry[p] = Gone
  <2>1. UNCHANGED <<entry, hnd>> BY <1>3, Zenon DEF Done
  <2>2. HandlerShape' /\ EntryShape' /\ RowsInv'
    BY Zenon, <1>2, <2>1 DEF WatchInv, HandlerShape, EntryShape, RowsInv, Waiting
  <2>3. twice BY <1>1, <1>3, Zenon DEF WatchInv, RowsInv
  <2> QED BY <1>2, <2>2, <2>3, Zenon DEF WatchInv, PanicOnlyIfTwice
<1>4. CASE entry[p] # Gone
  <2>1. entry' = [entry EXCEPT ![p] = Cleared(p)] /\ died' = died BY <1>4, Zenon DEF Done
  <2>2. \E pc \in {"over", "rows"}, rows \in {Draw(p, entry')} :
          hnd' = [hnd EXCEPT ![h].pc = pc, ![h].rows = rows]
    BY <1>4, Zenon DEF Done, Drawn
  <2>3. DOMAIN hnd' = Handlers /\ \A g \in Handlers : g # h => hnd'[g] = hnd[g]
    BY <2>2, Zenon DEF WatchInv, HandlerShape
  <2>4. /\ hnd'[h].of = p /\ hnd'[h].pc \in {"over", "rows"}
        /\ DOMAIN hnd'[h] = {"of", "pc", "done", "rows"}
    BY <2>2 DEF WatchInv, HandlerShape
  <2>5. HandlerShape' BY <1>1, <1>2, <2>3, <2>4 DEF WatchInv, HandlerShape
  <2>6. /\ DOMAIN entry' = Watched /\ \A q \in Watched : q # p => entry'[q] = entry[q]
        /\ entry'[p] = Cleared(p)
    BY <1>1, <2>1, Zenon DEF WatchInv, EntryShape
  <2>13. Zero # Gone BY DEF Zero, Gone
  <2>7. p \in Gauges => Cleared(p) # Gone BY <1>4, <2>13, Zenon DEF Cleared, Gauges
  <2>8. \A q \in Gauges : q \in Watched /\ entry[q] # Gone BY Zenon DEF WatchInv, EntryShape, Gauges
  <2>12. EntryShape' BY <1>2, <2>6, <2>7, <2>8, Zenon DEF WatchInv, EntryShape
  <2>9. \A g \in Handlers : Waiting(g)' => g # h /\ Waiting(g) /\ hnd'[g].of = hnd[g].of
    BY <2>3, <2>4, Zenon DEF Waiting
  <2>10. ASSUME ~twice PROVE
          /\ \A f, g \in Handlers : Waiting(f)' /\ Waiting(g)' /\ hnd'[f].of = hnd'[g].of => f = g
          /\ \A g \in Handlers : Waiting(g)' => entry'[hnd'[g].of] # Gone
    <3>1. \A f, g \in Handlers : Waiting(f) /\ Waiting(g) /\ hnd[f].of = hnd[g].of => f = g
      BY <2>10, Zenon DEF WatchInv, RowsInv
    <3>2. \A g \in Handlers : Waiting(g) => entry[hnd[g].of] # Gone /\ hnd[g].of \in Watched
      BY <2>10, Zenon DEF WatchInv, RowsInv, HandlerShape, Waiting
    <3>3. \A g \in Handlers : Waiting(g)' => hnd[g].of # p BY <1>1, <2>9, <3>1, Zenon
    <3> QED BY <2>6, <2>9, <3>1, <3>2, <3>3, Zenon
  <2>11. RowsInv' BY <1>2, <2>10, Zenon DEF RowsInv
  <2> QED BY <2>1, <2>5, <2>11, <2>12, Zenon DEF WatchInv, PanicOnlyIfTwice
<1> QED BY <1>3, <1>4, Zenon

\* The goroutine of OnValueChanged sets an entry and takes none away.
LEMMA ApplyKeeps ==
  ASSUME EntryShape, NEW h \in Handlers, NEW v, NEW next, Apply(h, v, next),
         hnd[h].of \in Watched => v \in Readings \cup {Zero}
  PROVE  /\ DOMAIN entry' = Watched
         /\ \A p \in Watched : entry[p] # Gone => entry'[p] # Gone
<1>1. hnd[h].of \in Watched => v # Gone BY ReadingsAssumption DEF Zero, Gone
<1>2. DOMAIN entry = Watched BY DEF EntryShape
<1>3. \E w \in {v, entry[hnd[h].of]} : entry' = [entry EXCEPT ![hnd[h].of] = w] BY Zenon DEF Apply
<1> QED BY <1>1, <1>2, <1>3, Zenon

LEMMA WatchListens ==
  ASSUME WatchInv, ~died, NEW h \in Handlers, Changed(h) \/ Expired(h) \/ readFromDataSource(h)
  PROVE  WatchInv'
<1>0. EntryShape /\ HandlerShape BY Zenon DEF WatchInv
<1>1. CASE Changed(h) \/ Expired(h)
  <2>1. UNCHANGED <<online, posted, hnd, died, twice>> BY <1>1, Zenon DEF Changed, Expired
  <2>2. CASE Changed(h)
    <3>1. hnd[h].of \in Watched => posted[hnd[h].of] \in Readings \cup {Zero} BY <1>0, Zenon DEF EntryShape
    <3>2. Apply(h, posted[hnd[h].of], "recv") BY <2>2, Zenon DEF Changed
    <3>3. /\ DOMAIN entry' = Watched
          /\ \A p \in Watched : entry[p] # Gone => entry'[p] # Gone
      BY <1>0, <3>1, <3>2, ApplyKeeps, Zenon
    <3>4. HandlerShape' /\ EntryShape' BY <1>0, <2>1, <3>3, Zenon DEF HandlerShape, EntryShape, Gauges
    <3> QED BY <2>1, <3>3, <3>4, WatchKeeps, Zenon DEF Waiting
  <2>3. CASE Expired(h)
    <3>1. Apply(h, Zero, "over") \/ UNCHANGED entry BY <2>3, Zenon DEF Expired
    <3>3. /\ DOMAIN entry' = Watched
          /\ \A p \in Watched : entry[p] # Gone => entry'[p] # Gone
      BY <1>0, <3>1, ApplyKeeps, Zenon DEF EntryShape
    <3>4. HandlerShape' /\ EntryShape' BY <1>0, <2>1, <3>3, Zenon DEF HandlerShape, EntryShape, Gauges
    <3> QED BY <2>1, <3>3, <3>4, WatchKeeps, Zenon DEF Waiting
  <2> QED BY <1>1, <2>2, <2>3, Zenon
<1>2. CASE readFromDataSource(h)
  <2>1. UNCHANGED <<online, posted, entry, died, twice>> BY <1>2, Zenon DEF readFromDataSource
  <2>2. EntryShape' BY <1>0, <2>1, Zenon DEF EntryShape
  <2>3. CASE hnd' = hnd
    <3>1. HandlerShape' BY <1>0, <2>1, <2>3, Zenon DEF HandlerShape
    <3> QED BY <2>1, <2>2, <2>3, <3>1, WatchKeeps, Zenon DEF Waiting
  <2>4. CASE hnd[h].pc = "rows" /\ hnd' = [hnd EXCEPT ![h].pc = "over", ![h].rows = NoRows]
    <3>1. DOMAIN hnd' = Handlers /\ \A g \in Handlers : g # h => hnd'[g] = hnd[g]
      BY <1>0, <2>4, Zenon DEF HandlerShape
    <3>2. /\ hnd'[h].of = hnd[h].of /\ hnd'[h].pc = "over"
          /\ DOMAIN hnd'[h] = {"of", "pc", "done", "rows"}
      BY <1>0, <2>4, Zenon DEF HandlerShape
    <3>3. HandlerShape' BY <1>0, <2>1, <2>4, <3>1, <3>2, Zenon DEF HandlerShape
    <3>4. \A g \in Handlers : Waiting(g)' => Waiting(g) /\ hnd'[g].of = hnd[g].of
      BY <3>1, <3>2, Zenon DEF Waiting
    <3> QED BY <2>1, <2>2, <3>3, <3>4, WatchKeeps, Zenon
  <2> QED BY <1>2, <2>3, <2>4, Zenon DEF readFromDataSource
<1> QED BY <1>1, <1>2, Zenon

LEMMA WatchNext ==
  ASSUME WatchInv, [Next]_vars
  PROVE  WatchInv'
<1>1. CASE PWNext
  BY <1>1, WatchEnvironment, WatchChanged, WatchWhois, WatchDone, WatchListens, Zenon DEF PWNext, PWStep
<1>2. CASE UNCHANGED pwVars BY <1>2, WatchSame, Zenon
<1>3. CASE UNCHANGED vars BY <1>3, WatchSame, Zenon DEF vars
<1> QED BY <1>1, <1>2, <1>3, Zenon DEF Next

\* The panics of the clients are out of reach but in the cases named, for any number of
\* calls, providers and sessions: the receive worker sends on a closed channel only when
\* the process stops (clients/scheduler.go:84), and a handler of the display finds no row
\* to delete only after two handlers of one provider waited at once (ui/sources.go:273),
\* the exporter's lost Whois aside.
THEOREM PanicsExplainedAlways == Spec => []PanicsExplained
<1>1. Init => CallInv /\ WatchInv BY CallInit, WatchInit, Zenon
<1>2. CallInv /\ WatchInv /\ [Next]_vars => (CallInv /\ WatchInv)' BY CallNext, WatchNext, Zenon
<1>3. CallInv /\ WatchInv => PanicsExplained BY Zenon DEF CallInv, WatchInv, PanicsExplained
<1> QED BY <1>1, <1>2, <1>3, PTL DEF Spec
=============================================================================
