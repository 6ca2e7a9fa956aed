---------------------------- MODULE ServerProofs ----------------------------
(***************************************************************************)
(* What the servers keep and what their handlers know, for any number of   *)
(* streams, objects, calls and processes:                                  *)
(*   - the scheduler's Broker.agents and the streams agree, and it never   *)
(*     looks healthy without agents (AgentRegistry);                       *)
(*   - the cache server over memory and S3 keeps its word (Storage);       *)
(*   - a handler knows its caller (Metadata).                              *)
(***************************************************************************)
EXTENDS AgentRegistry, Storage, Metadata, FiniteSetTheorems, TLAPS

(* Agent streams at the scheduler. *)

\* The streams whose handler is at one of the steps in Q.
Within(f, Q) == {s \in Conns : f[s] \in Q}

CountedSteps == {"cancel", "calc", "post", "serve", "calcEnd", "postEnd", "leave"}
LeftSteps == {"store", "end"}

\* agentCount is the number of streams between CountIn and CountOut, and a
\* condition was applied at most once per stream that has left.
CountInv ==
  /\ agentCount = Cardinality(Within(pc, CountedSteps))
  /\ applied <= Cardinality(Within(pc, LeftSteps)) + 1

\* Until handleAgentStream has looked its Agent up a stream has no cleanup
\* goroutine, and one that shares its UUID with nobody is still registered.
OwnInv ==
  \A s \in Conns :
    /\ pc[s] \in {"off", "lock", "wait", "handle"} => cleaner[s] = "none"
    /\ Alone(s) /\ pc[s] = "handle" => agents[uuid[s]] = s

RegistryInv ==
  /\ TypeOK /\ CountInv /\ OwnInv
  /\ NoGhostAgent /\ HandlesOwnAgent /\ NoAgentsIsReported

-----------------------------------------------------------------------------
\* A set of streams told apart by their handlers' steps is finite.
LEMMA WithinFinite ==
  ASSUME NEW f, NEW Q
  PROVE  /\ IsFiniteSet(Within(f, Q))
         /\ Cardinality(Within(f, Q)) \in 0 .. Cardinality(Conns)
<1>1. Within(f, Q) \subseteq Conns
  BY Zenon DEF Within
<1>2. /\ IsFiniteSet(Within(f, Q))
      /\ Cardinality(Within(f, Q)) <= Cardinality(Conns)
  BY <1>1, FS_Subset, RegistryAssumptions, Zenon
<1> QED
  BY <1>2, FS_CardinalityType, RegistryAssumptions

\* The computed limits are a number.
LEMMA LimitsType == PreferredUsageLimits \in Nat
<1>1. {u \in Uuids : agents[u] # NoConn} \subseteq Uuids
  BY Zenon
<1>2. IsFiniteSet({u \in Uuids : agents[u] # NoConn})
  BY <1>1, FS_Subset, RegistryAssumptions, Zenon
<1> QED
  BY <1>2, FS_CardinalityType, Zenon DEF PreferredUsageLimits

-----------------------------------------------------------------------------
\* One handler's step changes a set of streams by that stream at most.
LEMMA HandlerMoves ==
  ASSUME TypeOK, NEW s \in Conns, NEW a, NEW b \in Steps, Goto(s, a, b), NEW Q
  PROVE  /\ pc' \in [Conns -> Steps] /\ pc[s] = a /\ pc'[s] = b
         /\ Cardinality(Within(pc', Q)) \in 0 .. Cardinality(Conns)
         /\ Cardinality(Within(pc, Q)) \in 0 .. Cardinality(Conns)
         /\ (a \in Q <=> b \in Q) => Cardinality(Within(pc', Q)) = Cardinality(Within(pc, Q))
         /\ a \notin Q /\ b \in Q => Cardinality(Within(pc', Q)) = Cardinality(Within(pc, Q)) + 1
         /\ a \in Q /\ b \notin Q => Cardinality(Within(pc', Q)) = Cardinality(Within(pc, Q)) - 1
<1>1. pc \in [Conns -> Steps] /\ pc[s] = a /\ pc' = [pc EXCEPT ![s] = b]
  BY Zenon DEF TypeOK, Goto
<1>2. pc' \in [Conns -> Steps] /\ pc'[s] = b
  BY <1>1, Zenon
<1>3. /\ Cardinality(Within(pc', Q)) \in 0 .. Cardinality(Conns)
      /\ Cardinality(Within(pc, Q)) \in 0 .. Cardinality(Conns)
  BY WithinFinite, Zenon
<1>4. ASSUME a \in Q <=> b \in Q
      PROVE  Within(pc', Q) = Within(pc, Q)
  BY <1>1, <1>4, Zenon DEF Within
<1>5. ASSUME a \notin Q, b \in Q
      PROVE  Cardinality(Within(pc', Q)) = Cardinality(Within(pc, Q)) + 1
  <2>1. Within(pc', Q) = Within(pc, Q) \cup {s} /\ s \notin Within(pc, Q)
    BY <1>1, <1>5, Zenon DEF Within
  <2> QED
    BY <2>1, WithinFinite, FS_AddElement, Zenon
<1>6. ASSUME a \in Q, b \notin Q
      PROVE  Cardinality(Within(pc', Q)) = Cardinality(Within(pc, Q)) - 1
  <2>1. Within(pc', Q) = Within(pc, Q) \ {s} /\ s \in Within(pc, Q)
    BY <1>1, <1>6, Zenon DEF Within
  <2> QED
    BY <2>1, WithinFinite, FS_RemoveElement, Zenon
<1> QED
  BY <1>1, <1>2, <1>3, <1>4, <1>5, <1>6, Zenon

\* A step of a handler that neither counts nor leaves keeps both counts.
LEMMA CountFrame ==
  ASSUME TypeOK, CountInv, UNCHANGED <<agentCount, applied>>,
         NEW s \in Conns, NEW a, NEW b \in Steps, Goto(s, a, b),
         a \in CountedSteps <=> b \in CountedSteps, a \in LeftSteps <=> b \in LeftSteps
  PROVE  pc' \in [Conns -> Steps] /\ CountInv'
<1>1. pc' \in [Conns -> Steps]
  BY HandlerMoves, Zenon
<1>2. Cardinality(Within(pc', CountedSteps)) = Cardinality(Within(pc, CountedSteps))
  BY HandlerMoves, Zenon
<1>3. Cardinality(Within(pc', LeftSteps)) = Cardinality(Within(pc, LeftSteps))
  BY HandlerMoves, Zenon
<1> QED
  BY <1>1, <1>2, <1>3, Zenon DEF CountInv

\* Every action keeps the types and the counts.
LEMMA CountStep ==
  ASSUME TypeOK, CountInv, Next
  PROVE  TypeOK' /\ CountInv'
<1> DEFINE N == Cardinality(Conns)
<1>0. N \in Nat
  BY FS_CardinalityType, RegistryAssumptions, Zenon
<1>1. ASSUME NEW s \in Conns, Connect(s)
      PROVE  TypeOK' /\ CountInv'
  <2>1. pc' \in [Conns -> Steps] /\ CountInv'
    BY <1>1, CountFrame, Zenon DEF Connect, Steps, CountedSteps, LeftSteps
  <2> QED
    BY <1>1, <2>1, Zenon DEF Connect, TypeOK
<1>2. ASSUME NEW s \in Conns, Disconnect(s)
      PROVE  TypeOK' /\ CountInv'
  BY <1>2, Zenon DEF Disconnect, TypeOK, CountInv, connVars
<1>3. ASSUME NEW s \in Conns, LockAgents(s)
      PROVE  TypeOK' /\ CountInv'
  <2>1. pc' \in [Conns -> Steps] /\ CountInv'
    BY <1>3, CountFrame, Zenon DEF LockAgents, Steps, CountedSteps, LeftSteps
  <2> QED
    BY <1>3, <2>1, Zenon DEF LockAgents, TypeOK
<1>4. ASSUME NEW s \in Conns, ToolchainsReceived(s)
      PROVE  TypeOK' /\ CountInv'
  <2>1. pc' \in [Conns -> Steps] /\ CountInv'
    BY <1>4, CountFrame, Zenon DEF ToolchainsReceived, Steps, CountedSteps, LeftSteps
  <2> QED
    BY <1>4, <2>1, Zenon DEF ToolchainsReceived, TypeOK
<1>5. ASSUME NEW s \in Conns, ToolchainsTimeout(s)
      PROVE  TypeOK' /\ CountInv'
  <2>1. pc' \in [Conns -> Steps] /\ CountInv'
    BY <1>5, CountFrame, Zenon DEF ToolchainsTimeout, Steps, CountedSteps, LeftSteps
  <2> QED
    BY <1>5, <2>1, Zenon DEF ToolchainsTimeout, TypeOK
<1>6. ASSUME NEW s \in Conns, HandleAgentStream(s)
      PROVE  TypeOK' /\ CountInv'
  <2>1. pc' \in [Conns -> Steps] /\ CountInv'
    BY <1>6, CountFrame, Zenon DEF HandleAgentStream, Steps, CountedSteps, LeftSteps
  <2> QED
    BY <1>6, <2>1, Zenon DEF HandleAgentStream, TypeOK
<1>7. ASSUME NEW s \in Conns, CountIn(s)
      PROVE  TypeOK' /\ CountInv'
  <2>1. PICK b \in {"cancel", "calc"} : Goto(s, "count", b)
    BY <1>7, Zenon DEF CountIn
  <2>2. /\ Cardinality(Within(pc', CountedSteps)) = Cardinality(Within(pc, CountedSteps)) + 1
        /\ Cardinality(Within(pc', CountedSteps)) \in 0 .. N /\ pc' \in [Conns -> Steps]
    BY <2>1, HandlerMoves DEF Steps, CountedSteps
  <2>3. Cardinality(Within(pc', LeftSteps)) = Cardinality(Within(pc, LeftSteps))
    BY <2>1, HandlerMoves DEF Steps, LeftSteps
  <2> QED
    BY <1>7, <2>2, <2>3, Zenon DEF CountIn, TypeOK, CountInv
<1>8. ASSUME NEW s \in Conns, CancelCond(s)
      PROVE  TypeOK' /\ CountInv'
  <2>1. pc' \in [Conns -> Steps] /\ CountInv'
    BY <1>8, CountFrame, Zenon DEF CancelCond, Steps, CountedSteps, LeftSteps
  <2> QED
    BY <1>8, <2>1, Zenon DEF CancelCond, TypeOK
<1>9. ASSUME NEW s \in Conns, CalcLimits(s)
      PROVE  TypeOK' /\ CountInv'
  <2>1. pc' \in [Conns -> Steps] /\ CountInv'
    <3>1. CASE Goto(s, "calc", "post")
      BY <1>9, <3>1, CountFrame, Zenon DEF CalcLimits, Steps, CountedSteps, LeftSteps
    <3>2. CASE Goto(s, "calcEnd", "postEnd")
      BY <1>9, <3>2, CountFrame, Zenon DEF CalcLimits, Steps, CountedSteps, LeftSteps
    <3> QED
      BY <1>9, <3>1, <3>2, Zenon DEF CalcLimits
  <2> QED
    BY <1>9, <2>1, LimitsType, Zenon DEF CalcLimits, TypeOK
<1>10. ASSUME NEW s \in Conns, PostLimits(s)
      PROVE  TypeOK' /\ CountInv'
  <2>1. pc' \in [Conns -> Steps] /\ CountInv'
    <3>1. CASE Goto(s, "post", "serve")
      BY <1>10, <3>1, CountFrame, Zenon DEF PostLimits, Steps, CountedSteps, LeftSteps
    <3>2. CASE Goto(s, "postEnd", "leave")
      BY <1>10, <3>2, CountFrame, Zenon DEF PostLimits, Steps, CountedSteps, LeftSteps
    <3> QED
      BY <1>10, <3>1, <3>2, Zenon DEF PostLimits
  <2> QED
    BY <1>10, <2>1, Zenon DEF PostLimits, TypeOK
<1>11. ASSUME NEW s \in Conns, StreamDone(s)
      PROVE  TypeOK' /\ CountInv'
  <2>1. pc' \in [Conns -> Steps] /\ CountInv'
    BY <1>11, CountFrame, Zenon DEF StreamDone, Steps, CountedSteps, LeftSteps
  <2> QED
    BY <1>11, <2>1, Zenon DEF StreamDone, TypeOK
<1>12. ASSUME NEW s \in Conns, CountOut(s)
      PROVE  TypeOK' /\ CountInv'
  <2>1. PICK b \in {"apply", "end"} : Goto(s, "leave", b)
    BY <1>12, Zenon DEF CountOut
  <2>2. /\ Cardinality(Within(pc', CountedSteps)) = Cardinality(Within(pc, CountedSteps)) - 1
        /\ Cardinality(Within(pc', CountedSteps)) \in 0 .. N /\ pc' \in [Conns -> Steps]
    BY <2>1, HandlerMoves DEF Steps, CountedSteps
  <2>3. /\ Cardinality(Within(pc', LeftSteps)) >= Cardinality(Within(pc, LeftSteps))
        /\ Cardinality(Within(pc', LeftSteps)) \in 0 .. N
        /\ Cardinality(Within(pc, LeftSteps)) \in 0 .. N
    BY <1>0, <2>1, HandlerMoves DEF Steps, LeftSteps
  <2> QED
    BY <1>12, <1>0, <2>2, <2>3 DEF CountOut, TypeOK, CountInv, Generations
<1>13. ASSUME NEW s \in Conns, ApplyCond(s)
      PROVE  TypeOK' /\ CountInv'
  <2>1. Goto(s, "apply", "store")
    BY <1>13, Zenon DEF ApplyCond
  <2>2. /\ Cardinality(Within(pc', CountedSteps)) = Cardinality(Within(pc, CountedSteps))
        /\ pc' \in [Conns -> Steps]
    BY <2>1, HandlerMoves, Zenon DEF Steps, CountedSteps
  <2>3. /\ Cardinality(Within(pc', LeftSteps)) = Cardinality(Within(pc, LeftSteps)) + 1
        /\ Cardinality(Within(pc', LeftSteps)) \in 0 .. N
    BY <2>1, HandlerMoves, Zenon DEF Steps, LeftSteps
  <2>4. CountInv' /\ applied + 1 \in Generations
    BY <1>13, <1>0, <2>2, <2>3 DEF ApplyCond, TypeOK, CountInv, Generations
  <2> QED
    BY <1>13, <2>2, <2>4, Zenon DEF ApplyCond, TypeOK
<1>14. ASSUME NEW s \in Conns, StoreCancel(s)
      PROVE  TypeOK' /\ CountInv'
  <2>1. pc' \in [Conns -> Steps] /\ CountInv'
    BY <1>14, CountFrame, Zenon DEF StoreCancel, Steps, CountedSteps, LeftSteps
  <2>2. 1 \in Generations /\ mine[s] \in Generations
    BY <1>0 DEF Generations, TypeOK
  <2> QED
    BY <1>14, <2>1, <2>2, Zenon DEF StoreCancel, TypeOK
<1>15. ASSUME NEW s \in Conns, Cleanup(s)
      PROVE  TypeOK' /\ CountInv'
  BY <1>15, Zenon DEF Cleanup, TypeOK, CountInv, connVars
<1>16. ASSUME PostPeriodically
      PROVE  TypeOK' /\ CountInv'
  BY <1>16, LimitsType, Zenon DEF PostPeriodically, TypeOK, CountInv, connVars
<1> QED
  BY <1>1, <1>2, <1>3, <1>4, <1>5, <1>6, <1>7, <1>8, <1>9, <1>10, <1>11, <1>12, <1>13, <1>14,
     <1>15, <1>16, Zenon
     DEF Next, HandlerStep, RegisterStep, ServeStep, LeaveStep

-----------------------------------------------------------------------------
\* The streams that may have an entry in Broker.agents or a goroutine for it.
RegistrySame == UNCHANGED <<uuid, agents, handled, cleaner>>

\* A step that changes neither Broker.agents nor the goroutines of an Agent, and
\* takes no handler back, keeps what relates them.
LEMMA OwnFrame ==
  ASSUME TypeOK, OwnInv, NoGhostAgent, HandlesOwnAgent, RegistrySame,
         \A s \in Conns :
            \/ pc'[s] = pc[s]
            \/ pc[s] \in {"off", "lock"} /\ pc'[s] \in {"lock", "wait"}
            \/ pc[s] \notin {"off", "lock"} /\ pc'[s] \notin {"off", "lock", "wait", "handle"}
  PROVE  OwnInv' /\ NoGhostAgent' /\ HandlesOwnAgent'
<1>1. OwnInv'
  BY Zenon DEF OwnInv, Alone, RegistrySame
<1>2. NoGhostAgent'
  BY DEF NoGhostAgent, Registered, RegistrySame, TypeOK
<1>3. HandlesOwnAgent'
  BY Zenon DEF HandlesOwnAgent, Alone, RegistrySame
<1> QED
  BY <1>1, <1>2, <1>3, Zenon

\* Every action keeps what relates Broker.agents, handlers and cleanup.
LEMMA OwnStep ==
  ASSUME TypeOK, OwnInv, NoGhostAgent, HandlesOwnAgent, Next
  PROVE  OwnInv' /\ NoGhostAgent' /\ HandlesOwnAgent'
<1> DEFINE Kept == OwnInv' /\ NoGhostAgent' /\ HandlesOwnAgent'
<1>1. ASSUME NEW s \in Conns, Connect(s) \/ LockAgents(s) \/ ToolchainsTimeout(s)
      PROVE  Kept
  BY <1>1, OwnFrame, Zenon DEF Connect, LockAgents, ToolchainsTimeout, Goto, RegistrySame, TypeOK
<1>2. ASSUME NEW s \in Conns, Disconnect(s)
      PROVE  Kept
  BY <1>2, OwnFrame, Zenon DEF Disconnect, Goto, RegistrySame, TypeOK
<1>3. ASSUME NEW s \in Conns, CountIn(s) \/ CancelCond(s) \/ CalcLimits(s) \/ PostLimits(s)
      PROVE  Kept
  BY <1>3, OwnFrame, Zenon DEF CountIn, CancelCond, CalcLimits, PostLimits, Goto, RegistrySame, TypeOK
<1>4. ASSUME NEW s \in Conns, StreamDone(s) \/ CountOut(s) \/ ApplyCond(s) \/ StoreCancel(s)
      PROVE  Kept
  BY <1>4, OwnFrame, Zenon DEF StreamDone, CountOut, ApplyCond, StoreCancel, Goto, RegistrySame, TypeOK
<1>5. ASSUME PostPeriodically
      PROVE  Kept
  BY <1>5, OwnFrame, Zenon DEF PostPeriodically, RegistrySame, connVars
<1>6. ASSUME NEW s \in Conns, ToolchainsReceived(s)
      PROVE  Kept
  <2>1. OwnInv'
    BY <1>6, Zenon DEF ToolchainsReceived, Goto, OwnInv, Alone, TypeOK
  <2>2. NoGhostAgent'
    BY <1>6 DEF ToolchainsReceived, Goto, NoGhostAgent, Registered, OwnInv, TypeOK
  <2>3. HandlesOwnAgent'
    BY <1>6, Zenon DEF ToolchainsReceived, Goto, HandlesOwnAgent, Alone, TypeOK
  <2> QED
    BY <2>1, <2>2, <2>3, Zenon
<1>7. ASSUME NEW s \in Conns, HandleAgentStream(s)
      PROVE  Kept
  <2>1. OwnInv'
    BY <1>7, Zenon DEF HandleAgentStream, Goto, OwnInv, Alone, TypeOK
  <2>2. NoGhostAgent'
    BY <1>7 DEF HandleAgentStream, Goto, NoGhostAgent, Registered, TypeOK
  <2>3. HandlesOwnAgent'
    BY <1>7, Zenon DEF HandleAgentStream, Goto, HandlesOwnAgent, OwnInv, Alone, TypeOK
  <2> QED
    BY <2>1, <2>2, <2>3, Zenon
<1>8. ASSUME NEW s \in Conns, Cleanup(s)
      PROVE  Kept
  <2>1. OwnInv'
    BY <1>8, Zenon DEF Cleanup, OwnInv, Alone, TypeOK
  <2>2. NoGhostAgent'
    <3> SUFFICES ASSUME NEW u \in Uuids, agents'[u] # NoConn
                 PROVE  uuid'[agents'[u]] = u /\ Registered(agents[u])'
      BY Zenon DEF NoGhostAgent
    <3>1. /\ uuid' = uuid /\ pc' = pc /\ cleaner' = [cleaner EXCEPT ![s] = "done"]
          /\ agents' = [agents EXCEPT ![uuid[s]] = NoConn]
      BY <1>8, Zenon DEF Cleanup
    <3>2. u # uuid[s] /\ agents'[u] = agents[u]
      BY <3>1, Zenon DEF TypeOK
    <3>3. uuid[agents[u]] = u /\ Registered(agents[u])
      BY <3>2, Zenon DEF NoGhostAgent
    <3>4. agents[u] \in Conns /\ agents[u] # s
      BY <3>2, <3>3, Zenon DEF TypeOK
    <3> QED
      BY <3>1, <3>2, <3>3, <3>4, Zenon DEF Registered, TypeOK
  <2>3. HandlesOwnAgent'
    BY <1>8, Zenon DEF Cleanup, HandlesOwnAgent, Alone, TypeOK
  <2> QED
    BY <2>1, <2>2, <2>3, Zenon
<1> QED
  BY <1>1, <1>2, <1>3, <1>4, <1>5, <1>6, <1>7, <1>8, Zenon
     DEF Next, HandlerStep, RegisterStep, ServeStep, LeaveStep

\* Every action keeps a condition in force while nobody is counted.
LEMMA ReportStep ==
  ASSUME TypeOK, CountInv, NoAgentsIsReported, Next
  PROVE  NoAgentsIsReported'
<1>1. ASSUME NEW s \in Conns, CancelCond(s)
      PROVE  NoAgentsIsReported'
  <2>1. s \in Within(pc, CountedSteps)
    BY <1>1, Zenon DEF CancelCond, Goto, Within, CountedSteps
  <2>2. agentCount # 0
    BY <2>1, WithinFinite, FS_EmptySet, Zenon DEF CountInv
  <2> QED
    BY <1>1, <2>2, Zenon DEF CancelCond, NoAgentsIsReported
<1>2. ASSUME NEW s \in Conns, CountIn(s)
      PROVE  NoAgentsIsReported'
  BY <1>2, FS_CardinalityType, RegistryAssumptions DEF CountIn, NoAgentsIsReported, TypeOK
<1>3. ASSUME NEW s \in Conns, CountOut(s)
      PROVE  NoAgentsIsReported'
  <2>1. agentCount' = 0 => agentCount = 1
    BY <1>3, FS_CardinalityType, RegistryAssumptions DEF CountOut, TypeOK
  <2>2. agentCount' = 0 => pc'[s] = "apply"
    BY <1>3, <2>1, Zenon DEF CountOut, Goto, TypeOK
  <2> QED
    BY <2>2, Zenon DEF NoAgentsIsReported
<1>4. ASSUME NEW s \in Conns, ApplyCond(s)
      PROVE  NoAgentsIsReported'
  BY <1>4, Zenon DEF ApplyCond, NoAgentsIsReported
<1>5. ASSUME NEW s \in Conns, Connect(s) \/ LockAgents(s) \/ ToolchainsReceived(s)
      PROVE  NoAgentsIsReported'
  BY <1>5, Zenon DEF Connect, LockAgents, ToolchainsReceived, Goto, NoAgentsIsReported, TypeOK
<1>6. ASSUME NEW s \in Conns, ToolchainsTimeout(s) \/ HandleAgentStream(s)
      PROVE  NoAgentsIsReported'
  BY <1>6, Zenon DEF ToolchainsTimeout, HandleAgentStream, Goto, NoAgentsIsReported, TypeOK
<1>7. ASSUME NEW s \in Conns, CalcLimits(s) \/ PostLimits(s)
      PROVE  NoAgentsIsReported'
  BY <1>7, Zenon DEF CalcLimits, PostLimits, Goto, NoAgentsIsReported, TypeOK
<1>8. ASSUME NEW s \in Conns, StreamDone(s) \/ StoreCancel(s)
      PROVE  NoAgentsIsReported'
  BY <1>8, Zenon DEF StreamDone, StoreCancel, Goto, NoAgentsIsReported, TypeOK
<1>9. ASSUME NEW s \in Conns, Disconnect(s) \/ Cleanup(s)
      PROVE  NoAgentsIsReported'
  BY <1>9, Zenon DEF Disconnect, Cleanup, Goto, NoAgentsIsReported, TypeOK
<1>10. ASSUME PostPeriodically
       PROVE  NoAgentsIsReported'
  BY <1>10, Zenon DEF PostPeriodically, connVars, NoAgentsIsReported
<1> QED
  BY <1>1, <1>2, <1>3, <1>4, <1>5, <1>6, <1>7, <1>8, <1>9, <1>10, Zenon
     DEF Next, HandlerStep, RegisterStep, ServeStep, LeaveStep

-----------------------------------------------------------------------------
\* Nothing is counted or registered before the first stream connects.
LEMMA RegistryInitially == Init => RegistryInv
<1> SUFFICES ASSUME Init
             PROVE  RegistryInv
  BY Zenon
<1>1. Cardinality(Conns) \in Nat
  BY FS_CardinalityType, RegistryAssumptions, Zenon
<1>2. Within(pc, CountedSteps) = {} /\ Within(pc, LeftSteps) = {}
  BY Zenon DEF Init, Within, CountedSteps, LeftSteps
<1>3. CountInv
  BY <1>2, FS_EmptySet DEF Init, CountInv
<1>4. TypeOK
  <2>1. 1 \in Generations /\ 0 \in 0 .. Cardinality(Conns)
    BY <1>1 DEF Generations
  <2>2. "off" \in Steps
    BY Zenon DEF Steps
  <2> QED
    BY <2>1, <2>2, Zenon DEF Init, TypeOK
<1>5. OwnInv /\ NoGhostAgent /\ HandlesOwnAgent /\ NoAgentsIsReported
  BY Zenon DEF Init, OwnInv, NoGhostAgent, HandlesOwnAgent, NoAgentsIsReported
<1> QED
  BY <1>3, <1>4, <1>5, Zenon DEF RegistryInv

\* The inductive invariant of the registration of agents.
THEOREM RegistryInvariant == Spec => []RegistryInv
<1>1. ASSUME RegistryInv, [Next]_vars
      PROVE  RegistryInv'
  <2>1. CASE Next
    BY <1>1, <2>1, CountStep, OwnStep, ReportStep, Zenon DEF RegistryInv
  <2>2. CASE UNCHANGED vars
    BY <1>1, <2>2, Zenon DEF vars, connVars, RegistryInv, TypeOK, CountInv, Within, OwnInv, Alone,
                      NoGhostAgent, Registered, HandlesOwnAgent, NoAgentsIsReported
  <2> QED
    BY <1>1, <2>1, <2>2, Zenon
<1> QED
  BY <1>1, RegistryInitially, PTL DEF Spec

\* Broker.agents names no stream that is gone, and the goroutines of a stream
\* that shares its UUID with no other work on its own Agent, whatever streams
\* come, time out, go and reconnect (broker.go:395-428).
THEOREM AgentsMatchStreamsAlways == Spec => []AgentsMatchStreams
<1>1. RegistryInv => AgentsMatchStreams
  BY Zenon DEF RegistryInv, AgentsMatchStreams
<1> QED
  BY <1>1, RegistryInvariant, PTL

\* "No agents connected" is in force whenever agentCount is zero and the handler
\* that brought it there has applied it (server.go:124-168).
THEOREM NoAgentsIsReportedAlways == Spec => []NoAgentsIsReported
<1>1. RegistryInv => NoAgentsIsReported
  BY Zenon DEF RegistryInv
<1> QED
  BY <1>1, RegistryInvariant, PTL

----------------------------------------------------------------------------
(* The cache server over memory and S3. *)

Sized(m) == {k \in Keys : Size(m[k]) = 1}

\* Memory: the sizes, while OnDelete is behind by what is dying.
MemInv ==
    /\ mem \in [Keys -> Data \cup {Absent}] /\ dead \subseteq Keys /\ size \in Nat /\ dying \in Nat
    /\ SizeMatches

S3Inv ==
    /\ store \subseteq Keys
    /\ bucket \in {"absent", "made", "ruled"} /\ setup \in {"check", "make", "rule", "done"}

CallRecord ==
    [op : {"none", "push", "pull"}, had : BOOLEAN,
     pc : {"new", "set", "upload", "stat", "read", "reply", "fill", "done"},
     key : Keys \cup {Absent}, buffer : {0} \cup Buffers, failed : BOOLEAN,
     data : Data \cup {Absent}, res : {"none", "ok", "error", "notfound"}]

\* A call of S3's Get keeps what it was when it started, and S3 keeps what it has.
CallAt(r) ==
    /\ call[r].pc = "new" => call[r] = IdleCall /\ ~reader[r]
    /\ call[r].pc # "new" => call[r].key \in Keys
    /\ call[r].pc \in {"stat", "read", "reply", "fill"} => call[r].op = "pull"
    /\ call[r].pc \in {"read", "reply"} \/ reader[r] => call[r].buffer \in Buffers
    /\ call[r].had => call[r].key \in store
    /\ call[r].op = "push" /\ call[r].res = "ok" => call[r].key \in store
    /\ call[r].had /\ call[r].res = "notfound" => call[r].failed
CallInv ==
    /\ call \in [Requests -> CallRecord]
    /\ reader \in [Requests -> BOOLEAN] /\ buf \in [Buffers -> Data \cup {Absent}]
    /\ \A r \in Requests : CallAt(r)

StorageInv == MemInv /\ S3Inv /\ CallInv

----------------------------------------------------------------------------
\* Changing one item changes the number of sized items by the difference of its sizes.
LEMMA SizedChange ==
    ASSUME NEW m, NEW n, NEW k \in Keys, \A j \in Keys \ {k} : n[j] = m[j]
    PROVE  /\ Cardinality(Sized(m)) \in Nat /\ Cardinality(Sized(n)) \in Nat
           /\ Cardinality(Sized(n)) + Size(m[k]) = Cardinality(Sized(m)) + Size(n[k])
<1> DEFINE B == {j \in Keys \ {k} : Size(m[j]) = 1}
<1>1. IsFiniteSet(B) /\ k \notin B
  <2>1. B \subseteq Keys /\ k \notin B  BY Zenon
  <2> QED  BY <2>1, StorageAssumption, FS_Subset, Zenon
<1>2. Cardinality(B) \in Nat /\ Cardinality(B \cup {k}) = Cardinality(B) + 1
  <2> HIDE DEF B
  <2> QED  BY <1>1, FS_CardinalityType, FS_AddElement, Zenon
<1>3. Sized(m) = IF Size(m[k]) = 1 THEN B \cup {k} ELSE B  BY Zenon DEF Sized
<1>4. Sized(n) = IF Size(n[k]) = 1 THEN B \cup {k} ELSE B  BY Zenon DEF Sized
<1>5. Size(m[k]) \in {0, 1} /\ Size(n[k]) \in {0, 1}  BY Zenon DEF Size
<1> HIDE DEF B
<1> QED  BY <1>2, <1>3, <1>4, <1>5

LEMMA MemSetKeeps ==
    ASSUME MemInv, NEW k \in Keys, NEW d \in Data \cup {Absent}, MemSet(k, d)
    PROVE  MemInv'
<1>1. mem' \in [Keys -> Data \cup {Absent}] /\ dead' \subseteq Keys  BY Zenon DEF MemInv, MemSet
<1>2. mem'[k] = d /\ \A j \in Keys \ {k} : mem'[j] = mem[j]  BY Zenon DEF MemInv, MemSet
<1>3. Size(mem[k]) \in {0, 1} /\ Size(d) \in {0, 1}  BY Zenon DEF Size
<1>4. size' \in Nat /\ dying' \in Nat  BY <1>3 DEF MemInv, MemSet, Removed
<1>5. /\ Cardinality(Sized(mem)) \in Nat /\ Cardinality(Sized(mem')) \in Nat
      /\ Cardinality(Sized(mem')) + Size(mem[k]) = Cardinality(Sized(mem)) + Size(d)
  BY <1>2, SizedChange, Zenon
<1>6. size = Cardinality(Sized(mem)) + dying  BY Zenon DEF MemInv, SizeMatches, Sized
<1>7. size' = Cardinality(Sized(mem')) + dying'
  BY <1>3, <1>5, <1>6 DEF MemInv, MemSet, Removed
<1>8. SizeMatches'  BY <1>7, Zenon DEF SizeMatches, Sized
<1> QED  BY <1>1, <1>4, <1>8, Zenon DEF MemInv

LEMMA MemDeleteKeeps ==
    ASSUME MemInv, NEW k \in Keys, MemDelete(k)
    PROVE  MemInv'
<1>1. mem' \in [Keys -> Data \cup {Absent}] /\ dead' \subseteq Keys  BY Zenon DEF MemInv, MemDelete
<1>2. mem'[k] = Absent /\ \A j \in Keys \ {k} : mem'[j] = mem[j]  BY Zenon DEF MemInv, MemDelete
<1>3. Size(mem[k]) \in {0, 1} /\ Size(Absent) = 0  BY Zenon DEF Size
<1>4. size' \in Nat /\ dying' \in Nat  BY <1>3 DEF MemInv, MemDelete, Removed
<1>5. /\ Cardinality(Sized(mem)) \in Nat /\ Cardinality(Sized(mem')) \in Nat
      /\ Cardinality(Sized(mem')) + Size(mem[k]) = Cardinality(Sized(mem)) + Size(Absent)
  BY <1>2, SizedChange, Zenon
<1>6. size = Cardinality(Sized(mem)) + dying  BY Zenon DEF MemInv, SizeMatches, Sized
<1>7. size' = Cardinality(Sized(mem')) + dying'
  BY <1>3, <1>5, <1>6 DEF MemInv, MemDelete, Removed
<1>8. SizeMatches'  BY <1>7, Zenon DEF SizeMatches, Sized
<1> QED  BY <1>1, <1>4, <1>8, Zenon DEF MemInv

LEMMA OnDeleteKeeps ==
    ASSUME MemInv, OnDelete
    PROVE  MemInv'
<1>1. Cardinality(Sized(mem)) \in Nat
  <2>1. Sized(mem) \subseteq Keys  BY Zenon DEF Sized
  <2> QED  BY <2>1, StorageAssumption, FS_Subset, FS_CardinalityType, Zenon
<1>2. size = Cardinality(Sized(mem)) + dying  BY Zenon DEF MemInv, SizeMatches, Sized
<1>3. size' = Cardinality(Sized(mem)) /\ dying' = 0  BY <1>1, <1>2 DEF MemInv, OnDelete, Sub
<1>4. SizeMatches'  BY <1>1, <1>3 DEF OnDelete, SizeMatches, Sized
<1> QED  BY <1>1, <1>3, <1>4 DEF MemInv, OnDelete

LEMMA MemSame == MemInv /\ UNCHANGED memVars => MemInv'
BY Zenon DEF MemInv, memVars, SizeMatches

\* Memory is disturbed by what sets, deletes or counts items only.
LEMMA MemStep ==
    ASSUME StorageInv, StorageNext
    PROVE  MemInv'
<1>1. MemInv  BY Zenon DEF StorageInv
<1>2. CASE OnDelete  BY <1>1, <1>2, OnDeleteKeeps, Zenon
<1>3. ASSUME NEW r \in Requests, Set(r)  PROVE MemInv'
  <2>1. call[r].key \in Keys /\ call[r].data \in Data \cup {Absent}
    BY <1>3, Zenon DEF Set, StorageInv, CallInv, CallAt, CallRecord
  <2> QED  BY <1>1, <1>3, <2>1, MemSetKeeps, Zenon DEF Set
<1>4. ASSUME NEW k \in Keys, Prune(k) \/ Query(k)  PROVE MemInv'
  BY <1>1, <1>4, MemDeleteKeeps, Zenon DEF Prune, Query
<1>5. ASSUME NEW k \in Keys, TimesOut(k)  PROVE MemInv'
  BY <1>1, <1>5, Zenon DEF TimesOut, MemInv, SizeMatches
<1>6. ASSUME NEW r \in Requests, NEW k \in Keys, Pull(r, k)  PROVE MemInv'
  <2>1. CASE MemDelete(k)  BY <1>1, <2>1, MemDeleteKeeps, Zenon
  <2>2. CASE dead' \subseteq dead /\ UNCHANGED <<mem, size, dying>>
    BY <1>1, <2>2, Zenon DEF MemInv, SizeMatches
  <2> QED  BY <1>6, <2>1, <2>2, Zenon DEF Pull
<1>7. CASE SetupCheck \/ SetupMake \/ SetupRule \/ SetupFails
  BY <1>1, <1>7, MemSame, Zenon DEF SetupCheck, SetupMake, SetupRule, SetupFails
<1>8. ASSUME NEW r \in Requests,
             Upload(r) \/ UploadFails(r) \/ Stat(r) \/ NotFound(r) \/ ReadAll(r)
                \/ Reply(r) \/ BackFill(r) \/ ReadFails(r) \/ Cancel(r)
      PROVE  MemInv'
  BY <1>1, <1>8, MemSame, Zenon
     DEF Upload, UploadFails, Stat, NotFound, ReadAll, Reply, BackFill, ReadFails, Cancel, Finish
<1>9. ASSUME NEW r \in Requests, NEW k \in Keys, Push(r, k)  PROVE MemInv'
  BY <1>1, <1>9, MemSame, Zenon DEF Push
<1> QED
  BY <1>2, <1>3, <1>4, <1>5, <1>6, <1>7, <1>8, <1>9, Zenon DEF StorageNext, StorageWork

LEMMA S3Step ==
    ASSUME StorageInv, StorageNext
    PROVE  S3Inv' /\ store \subseteq store'
<1>1. S3Inv  BY Zenon DEF StorageInv
<1>2. CASE SetupCheck \/ SetupMake \/ SetupRule \/ SetupFails
  BY <1>1, <1>2, Zenon DEF S3Inv, SetupCheck, SetupMake, SetupRule, SetupFails, Again
<1>3. ASSUME NEW r \in Requests, Upload(r)  PROVE S3Inv' /\ store \subseteq store'
  <2>1. call[r].key \in Keys  BY <1>3, Zenon DEF Upload, StorageInv, CallInv, CallAt
  <2> QED  BY <1>1, <1>3, <2>1, Zenon DEF S3Inv, Upload
<1>4. CASE UNCHANGED <<store, bucket, setup>>  BY <1>1, <1>4, Zenon DEF S3Inv
<1>5. ASSUME NEW r \in Requests,
             Set(r) \/ UploadFails(r) \/ Stat(r) \/ NotFound(r) \/ ReadAll(r)
                \/ Reply(r) \/ BackFill(r) \/ ReadFails(r) \/ Cancel(r)
      PROVE  UNCHANGED <<store, bucket, setup>>
  BY <1>5, Zenon DEF Set, UploadFails, Stat, NotFound, ReadAll, Reply, BackFill, ReadFails, Cancel,
                     Finish, s3Vars
<1>6. ASSUME NEW r \in Requests, NEW k \in Keys, Push(r, k) \/ Pull(r, k)
      PROVE  UNCHANGED <<store, bucket, setup>>
  BY <1>6, Zenon DEF Push, Pull, s3Vars
<1>7. ASSUME OnDelete \/ \E k \in Keys : Prune(k) \/ TimesOut(k) \/ Query(k)
      PROVE  UNCHANGED <<store, bucket, setup>>
  BY <1>7, Zenon DEF OnDelete, Prune, TimesOut, Query, s3Vars
<1> QED
  BY <1>2, <1>3, <1>4, <1>5, <1>6, <1>7, Zenon DEF StorageNext, StorageWork

\* What a call's own step has to show: that it is in order, and that the others are as they were.
LEMMA OneCall ==
    ASSUME CallInv, store \subseteq store', NEW r \in Requests,
           NEW rec \in CallRecord, NEW flag \in BOOLEAN,
           call' = [call EXCEPT ![r] = rec], reader' = [reader EXCEPT ![r] = flag],
           buf' \in [Buffers -> Data \cup {Absent}], CallAt(r)'
    PROVE  CallInv'
<1>1. call' \in [Requests -> CallRecord] /\ reader' \in [Requests -> BOOLEAN]  BY Zenon DEF CallInv
<1>2. ASSUME NEW q \in Requests, q # r  PROVE CallAt(q)'
  <2>1. call'[q] = call[q] /\ reader'[q] = reader[q]  BY <1>2, Zenon DEF CallInv
  <2>2. CallAt(q)  BY Zenon DEF CallInv
  <2> QED  BY <2>1, <2>2, Zenon DEF CallAt
<1> QED  BY <1>1, <1>2, Zenon DEF CallInv

LEMMA CallsSame ==
    ASSUME CallInv, store \subseteq store', UNCHANGED <<call, reader, buf>>
    PROVE  CallInv'
<1>1. ASSUME NEW q \in Requests  PROVE CallAt(q)'
  <2>1. CallAt(q)  BY Zenon DEF CallInv
  <2> QED  BY <2>1, Zenon DEF CallAt
<1> QED  BY <1>1, Zenon DEF CallInv

\* Changing fields of a call keeps it a call.
LEMMA ReaderSame ==
    ASSUME CallInv, UNCHANGED reader, NEW r \in Requests
    PROVE  reader[r] \in BOOLEAN /\ reader' = [reader EXCEPT ![r] = reader[r]]
BY Zenon DEF CallInv

LEMMA PushKeeps ==
    ASSUME StorageInv, NEW r \in Requests, NEW k \in Keys, Push(r, k), store \subseteq store'
    PROVE  CallInv'
<1> DEFINE rec == call'[r]
<1>1. call[r] = IdleCall /\ ~reader[r] /\ call \in [Requests -> CallRecord]
  BY Zenon DEF Push, NextCall, StorageInv, CallInv, CallAt
<1>2. Whole(k) \in Data  BY Zenon DEF Whole, Data
<1>3. /\ rec \in CallRecord /\ call' = [call EXCEPT ![r] = rec]
      /\ rec.op = "push" /\ rec.key = k /\ rec.pc \in {"set", "done"} /\ ~rec.had
      /\ rec.res \in {"none", "error"}
  BY <1>1, <1>2 DEF Push, CallRecord, IdleCall
<1>4. UNCHANGED <<reader, buf>>  BY Zenon DEF Push
<1> HIDE DEF rec
<1>5. CallAt(r)'  BY <1>1, <1>3, <1>4, Zenon DEF CallAt, rec
<1> QED  BY <1>3, <1>4, <1>5, ReaderSame, OneCall, Zenon DEF StorageInv, CallInv

LEMMA PullKeeps ==
    ASSUME StorageInv, NEW r \in Requests, NEW k \in Keys, Pull(r, k), store \subseteq store'
    PROVE  CallInv'
<1> DEFINE rec == call'[r]
<1>1. call[r] = IdleCall /\ ~reader[r] /\ call \in [Requests -> CallRecord]
  BY Zenon DEF Pull, NextCall, StorageInv, CallInv, CallAt
<1>2. mem[k] \in Data \cup {Absent}  BY Zenon DEF StorageInv, MemInv
<1>3. /\ rec \in CallRecord /\ call' = [call EXCEPT ![r] = rec]
      /\ rec.op = "pull" /\ rec.key = k /\ rec.pc \in {"stat", "done"}
      /\ rec.had => k \in store
      /\ rec.res \in {"none", "ok"}
  BY <1>1, <1>2 DEF Pull, NextProvider, CallRecord, IdleCall
<1>4. UNCHANGED <<reader, buf>>  BY Zenon DEF Pull
<1> HIDE DEF rec
<1>5. CallAt(r)'  BY <1>1, <1>3, <1>4, Zenon DEF CallAt, rec
<1> QED  BY <1>3, <1>4, <1>5, ReaderSame, OneCall, Zenon DEF StorageInv, CallInv

\* A call that takes another step: it keeps its kind, its key and what S3 had.
StepOf(r, rec) ==
    /\ rec \in CallRecord /\ call' = [call EXCEPT ![r] = rec]
    /\ rec.op = call[r].op /\ rec.key = call[r].key /\ rec.had = call[r].had
    /\ call[r].pc # "new" /\ rec.pc # "new"

LEMMA StepShape ==
    ASSUME StorageInv, NEW r \in Requests,
           \/ Set(r) \/ Upload(r) \/ UploadFails(r) \/ Stat(r) \/ NotFound(r)
           \/ Reply(r) \/ BackFill(r) \/ Cancel(r)
    PROVE  StepOf(r, call'[r]) /\ UNCHANGED buf
<1>1. call \in [Requests -> CallRecord] /\ call[r] \in CallRecord  BY Zenon DEF StorageInv, CallInv
<1>2. CASE Set(r)  BY <1>1, <1>2, Zenon DEF Set, StepOf, CallRecord
<1>3. CASE Upload(r)  BY <1>1, <1>3, Zenon DEF Upload, Return, StepOf, CallRecord
<1>4. CASE UploadFails(r)  BY <1>1, <1>4, Zenon DEF UploadFails, Return, Reported, StepOf, CallRecord
<1>5. CASE Stat(r)
  <2>1. PICK b \in Buffers : call' = [call EXCEPT ![r].pc = "read", ![r].buffer = b]  BY <1>5, Zenon DEF Stat
  <2> QED  BY <1>1, <1>5, <2>1, Zenon DEF Stat, StepOf, CallRecord
<1>6. CASE NotFound(r)  BY <1>1, <1>6 DEF NotFound, Return, StepOf, CallRecord
<1>7. CASE Reply(r)
  <2>1. buf[call[r].buffer] \in Data \cup {Absent}
    BY <1>7, Zenon DEF Reply, StorageInv, CallInv, CallAt
  <2> QED  BY <1>1, <1>7, <2>1, Zenon DEF Reply, StepOf, CallRecord
<1>8. CASE BackFill(r)  BY <1>1, <1>8, Zenon DEF BackFill, StepOf, CallRecord
<1>9. CASE Cancel(r)  BY <1>1, <1>9, Zenon DEF Cancel, Return, StepOf, CallRecord
<1> QED  BY <1>2, <1>3, <1>4, <1>5, <1>6, <1>7, <1>8, <1>9, Zenon

LEMMA StepKeeps ==
    ASSUME StorageInv, store \subseteq store', NEW r \in Requests,
           \/ Set(r) \/ Upload(r) \/ UploadFails(r) \/ Stat(r) \/ NotFound(r)
           \/ Reply(r) \/ BackFill(r) \/ Cancel(r)
    PROVE  CallInv'
<1> DEFINE rec == call'[r]
<1>1. StepOf(r, rec) /\ UNCHANGED buf  BY StepShape, Zenon
<1>2. CallAt(r) /\ CallInv /\ call \in [Requests -> CallRecord] /\ call[r] \in CallRecord
  BY Zenon DEF StorageInv, CallInv
<1>3. CASE Stat(r)
  <2>1. rec.pc = "read" /\ rec.buffer \in Buffers /\ rec.res = call[r].res /\ rec.failed = call[r].failed
    <3>1. PICK b \in Buffers : call' = [call EXCEPT ![r].pc = "read", ![r].buffer = b]  BY <1>3, Zenon DEF Stat
    <3> QED  BY <1>2, <3>1, Zenon DEF CallRecord
  <2>2. reader' = [reader EXCEPT ![r] = TRUE]  BY <1>3, Zenon DEF Stat
  <2>3. CallAt(r)'
    <3>1. call[r].pc = "stat" /\ reader'[r] = TRUE  BY <1>2, <1>3, <2>2, Zenon DEF Stat, CallInv
    <3> HIDE DEF rec
    <3> QED  BY <1>1, <1>2, <2>1, <3>1, Zenon DEF CallAt, StepOf, rec
  <2> HIDE DEF rec
  <2> QED  BY <1>1, <1>2, <2>2, <2>3, OneCall, Zenon DEF StepOf, CallInv
<1>4. CASE \/ Set(r) \/ Upload(r) \/ UploadFails(r) \/ NotFound(r)
           \/ Reply(r) \/ BackFill(r) \/ Cancel(r)
  <2>1. UNCHANGED reader
    BY <1>4, Zenon DEF Set, Upload, UploadFails, NotFound, Reply, BackFill, Cancel
  <2>2. /\ rec.buffer = call[r].buffer
        /\ rec.pc \notin {"stat", "read"}
        /\ rec.pc = "reply" => FALSE
        /\ rec.pc = "fill" => call[r].pc = "reply"
    <3>1. CASE Set(r) \/ BackFill(r)  BY <1>2, <3>1 DEF CallRecord, Set, BackFill
    <3>2. CASE Upload(r) \/ UploadFails(r) \/ Cancel(r)
      BY <1>2, <3>2 DEF CallRecord, Upload, UploadFails, Cancel, Return
    <3>3. CASE NotFound(r)  BY <1>2, <3>3 DEF CallRecord, NotFound, Return
    <3>4. CASE Reply(r)  BY <1>2, <3>4, Zenon DEF CallRecord, Reply
    <3> QED  BY <1>4, <3>1, <3>2, <3>3, <3>4, Zenon
  <2>3. rec.op = "push" /\ rec.res = "ok" => rec.key \in store'
    <3>1. CASE Upload(r)  BY <1>2, <3>1, Zenon DEF Upload, Return, CallRecord
    <3>2. CASE Reply(r)  BY <1>1, <1>2, <3>2, Zenon DEF Reply, StepOf, CallAt
    <3>3. CASE Set(r) \/ BackFill(r)
      <4>1. rec.res = call[r].res  BY <1>2, <3>3 DEF Set, BackFill, CallRecord
      <4> QED  BY <1>1, <1>2, <4>1, Zenon DEF StepOf, CallAt
    <3>4. CASE UploadFails(r) \/ NotFound(r) \/ Cancel(r)
      <4>1. rec.res \in {"error", "notfound"}
        BY <1>2, <3>4 DEF UploadFails, NotFound, Cancel, Return, Reported, CallRecord
      <4> QED  BY <4>1, Zenon
    <3> QED  BY <1>4, <3>1, <3>2, <3>3, <3>4, Zenon
  <2>4. rec.had /\ rec.res = "notfound" => rec.failed
    <3>1. CASE NotFound(r)
      <4>1. CASE call[r].key \notin store  BY <1>1, <1>2, <4>1, Zenon DEF StepOf, CallAt
      <4>2. CASE rec.failed  BY <4>2, Zenon
      <4> QED  BY <1>2, <3>1, <4>1, <4>2 DEF NotFound, Return, CallRecord
    <3>2. CASE Set(r) \/ BackFill(r)
      <4>1. rec.res = call[r].res /\ rec.failed = call[r].failed
        BY <1>2, <3>2 DEF Set, BackFill, CallRecord
      <4> QED  BY <1>1, <1>2, <4>1, Zenon DEF StepOf, CallAt
    <3>3. CASE Upload(r) \/ UploadFails(r) \/ Reply(r) \/ Cancel(r)
      <4>1. rec.res \in {"ok", "error"}
        BY <1>2, <3>3 DEF Upload, UploadFails, Reply, Cancel, Return, Reported, CallRecord
      <4> QED  BY <4>1, Zenon
    <3> QED  BY <1>4, <3>1, <3>2, <3>3, Zenon
  <2>5. CallAt(r)'
    <3> HIDE DEF rec
    <3> QED  BY <1>1, <1>2, <2>1, <2>2, <2>3, <2>4, Zenon DEF CallAt, StepOf, rec
  <2>6. reader[r] \in BOOLEAN /\ reader' = [reader EXCEPT ![r] = reader[r]]
    BY <1>2, <2>1, ReaderSame, Zenon
  <2> HIDE DEF rec
  <2> QED  BY <1>1, <1>2, <2>5, <2>6, OneCall, Zenon DEF StepOf, CallInv
<1> QED  BY <1>3, <1>4, Zenon

LEMMA FinishKeeps ==
    ASSUME StorageInv, store \subseteq store', NEW r \in Requests, NEW whole \in BOOLEAN, Finish(r, whole)
    PROVE  CallInv'
<1> DEFINE rec == call'[r]
<1>1. CallAt(r) /\ CallInv /\ call[r] \in CallRecord /\ reader[r]
  BY Zenon DEF StorageInv, CallInv, Finish
<1>2. call[r].pc # "new" /\ call[r].key \in Keys /\ call[r].buffer \in Buffers  BY <1>1, Zenon DEF CallAt
<1>3. buf' \in [Buffers -> Data \cup {Absent}]
  <2>1. [of |-> call[r].key, whole |-> whole] \in Data  BY <1>2, Zenon DEF Data
  <2> QED  BY <1>1, <1>2, <2>1, Zenon DEF Finish, CallInv
<1>4. reader' = [reader EXCEPT ![r] = FALSE]  BY Zenon DEF Finish
<1>5. CASE call[r].pc = "read"
  <2>1. /\ rec \in CallRecord /\ call' = [call EXCEPT ![r] = rec] /\ rec.pc = "reply"
        /\ rec.op = call[r].op /\ rec.key = call[r].key /\ rec.had = call[r].had
        /\ rec.res = call[r].res /\ rec.failed = call[r].failed /\ rec.buffer = call[r].buffer
    BY <1>1, <1>5 DEF Finish, AfterRead, CallInv, CallRecord
  <2> HIDE DEF rec
  <2>2. CallAt(r)'  BY <1>1, <1>2, <1>5, <2>1, Zenon DEF CallAt, rec
  <2> QED  BY <1>1, <1>3, <1>4, <2>1, <2>2, OneCall, Zenon
<1>6. CASE call[r].pc # "read"
  <2>1. call' = call /\ call' = [call EXCEPT ![r] = call[r]]  BY <1>1, <1>6, Zenon DEF Finish, CallInv
  <2>2. CallAt(r)'  BY <1>1, <1>2, <2>1, Zenon DEF CallAt
  <2> QED  BY <1>1, <1>3, <1>4, <2>1, <2>2, OneCall, Zenon
<1> QED  BY <1>5, <1>6, Zenon

LEMMA StorageInvStep ==
    ASSUME StorageInv, StorageNext
    PROVE  StorageInv'
<1>1. MemInv' /\ S3Inv' /\ store \subseteq store'  BY MemStep, S3Step, Zenon
<1>2. CallInv  BY Zenon DEF StorageInv
<1>3. CASE OnDelete \/ SetupCheck \/ SetupMake \/ SetupRule \/ SetupFails
  <2>1. UNCHANGED <<call, reader, buf>>  BY <1>3, Zenon DEF OnDelete, SetupCheck, SetupMake, SetupRule, SetupFails
  <2>2. CallInv'  BY <1>1, <1>2, <2>1, CallsSame, Zenon
  <2> QED  BY <1>1, <2>2, Zenon DEF StorageInv
<1>4. ASSUME NEW k \in Keys, Prune(k) \/ TimesOut(k) \/ Query(k)  PROVE CallInv'
  BY <1>1, <1>2, <1>4, CallsSame, Zenon DEF Prune, TimesOut, Query
<1>5. ASSUME NEW r \in Requests, ReadAll(r) \/ ReadFails(r)  PROVE CallInv'
  BY <1>1, <1>5, FinishKeeps, Zenon DEF ReadAll, ReadFails
<1> QED
  BY <1>1, <1>3, <1>4, <1>5, PushKeeps, PullKeeps, StepKeeps, Zenon DEF StorageNext, StorageWork, StorageInv

\* The sizes that the cache server limits are those of the objects in memory and are never
\* negative (volatile.go:76), a Push without error has stored its object in S3 too, and a Pull
\* of what S3 had finds it unless S3 failed (chain.go:74-104), for any number of objects, of
\* concurrent calls, of expiries and of failing requests.
THEOREM ChainSoundAlways == StorageSpec => [](StorageTypeOK /\ ChainSound)
<1>1. StorageInit => StorageInv
  <2> SUFFICES ASSUME StorageInit PROVE StorageInv  BY Zenon
  <2>1. SizeMatches
    <3>1. {k \in Keys : Size(mem[k]) = 1} = {}  BY DEF StorageInit, Size
    <3>2. Cardinality({k \in Keys : Size(mem[k]) = 1}) = 0  BY <3>1, FS_EmptySet, Zenon
    <3> QED  BY <3>2 DEF StorageInit, SizeMatches
  <2>2. MemInv /\ S3Inv  BY <2>1, Zenon DEF StorageInit, MemInv, S3Inv
  <2>3. CallInv  BY Zenon DEF StorageInit, CallInv, CallAt, CallRecord, IdleCall
  <2> QED  BY <2>2, <2>3, Zenon DEF StorageInv
<1>2. StorageInv /\ [StorageNext]_storageVars => StorageInv'
  <2>1. StorageInv /\ UNCHANGED storageVars => StorageInv'
    <3> SUFFICES ASSUME StorageInv, UNCHANGED storageVars  PROVE StorageInv'  BY Zenon
    <3>1. UNCHANGED memVars /\ UNCHANGED <<store, bucket, setup, call, reader, buf>>
      BY Zenon DEF storageVars, s3Vars
    <3>2. MemInv' /\ S3Inv'  BY <3>1, MemSame, Zenon DEF StorageInv, S3Inv
    <3>3. CallInv'  BY <3>1, CallsSame, Zenon DEF StorageInv
    <3> QED  BY <3>2, <3>3, Zenon DEF StorageInv
  <2> QED  BY <2>1, StorageInvStep, Zenon
<1>3. StorageInv => StorageTypeOK /\ ChainSound
  BY Zenon DEF StorageInv, MemInv, S3Inv, CallInv, CallAt, CallRecord, StorageTypeOK, ChainSound,
               PushedIsStored, PullFindsStored
<1> QED  BY <1>1, <1>2, <1>3, PTL DEF StorageSpec

----------------------------------------------------------------------------
(* The metadata of a call. *)

Names == {"component", "uuid", "log", "tracer", "systeminfo"}

\* What the providers of each process are.
LEMMA FourProviders ==
    ASSUME NEW s, s = <<"component", "uuid", "log", "tracer">>
    PROVE  /\ Range(s) = {"component", "uuid", "log", "tracer"} /\ DOMAIN s = 1 .. 4
           /\ s[1] = "component" /\ s[2] = "uuid" /\ s[3] = "log" /\ s[4] = "tracer"
<1>1. DOMAIN s = 1 .. 4 /\ s[1] = "component" /\ s[2] = "uuid" /\ s[3] = "log" /\ s[4] = "tracer"
  OBVIOUS
<1>2. 1 .. 4 = {1, 2, 3, 4}  OBVIOUS
<1> QED  BY <1>1, <1>2, Zenon DEF Range

LEMMA FiveProviders ==
    ASSUME NEW s, s = <<"component", "uuid", "log", "tracer", "systeminfo">>
    PROVE  /\ Range(s) = Names /\ DOMAIN s = 1 .. 5
           /\ s[1] = "component" /\ s[2] = "uuid" /\ s[3] = "log" /\ s[4] = "tracer" /\ s[5] = "systeminfo"
<1>1. /\ DOMAIN s = 1 .. 5
      /\ s[1] = "component" /\ s[2] = "uuid" /\ s[3] = "log" /\ s[4] = "tracer" /\ s[5] = "systeminfo"
  OBVIOUS
<1>2. 1 .. 5 = {1, 2, 3, 4, 5}  OBVIOUS
<1> QED  BY <1>1, <1>2, Zenon DEF Range, Names

Informed == {"agent", "cache", "consumerd"}
LEMMA ProviderLists ==
    ASSUME NEW p \in Procs
    PROVE  /\ p \in Informed => ProvidersOf[p] = <<"component", "uuid", "log", "tracer", "systeminfo">>
           /\ p \notin Informed => ProvidersOf[p] = <<"component", "uuid", "log", "tracer">>
<1>1. /\ ProvidersOf["agent"] = AgentProviders /\ ProvidersOf["cache"] = CacheProviders
      /\ ProvidersOf["consumerd"] = ConsumerdProviders
      /\ ProvidersOf["scheduler"] = SchedulerProviders /\ ProvidersOf["monitor"] = MonitorProviders
      /\ ProvidersOf["consumer"] = SleepProviders
  BY Zenon DEF ProvidersOf
<1>2. p \in {"agent", "cache", "consumerd", "scheduler", "monitor", "consumer"}  BY ProcsAssumption, Zenon
<1>3. /\ p \in Informed => p \in {"agent", "cache", "consumerd"}
      /\ p \notin Informed => p \in {"scheduler", "monitor", "consumer"}
  BY <1>2, Zenon DEF Informed
<1> QED
  BY <1>1, <1>3, Zenon DEF AgentProviders, CacheProviders, ConsumerdProviders, SchedulerProviders,
                           MonitorProviders, SleepProviders

\* The tracer's initializer finds the component and the logger (tracing.go:73).
LEMMA NoPanic ==
    ASSUME NEW p \in Procs
    PROVE  ~MustPanic(p)
<1> DEFINE s == ProvidersOf[p]
<1>1. /\ DOMAIN s \subseteq 1 .. 5
      /\ s[1] = "component" /\ s[2] = "uuid" /\ s[3] = "log" /\ s[4] = "tracer"
      /\ 5 \in DOMAIN s => s[5] = "systeminfo"
  <2>1. CASE p \in Informed
    <3>1. s = <<"component", "uuid", "log", "tracer", "systeminfo">>  BY <2>1, ProviderLists, Zenon
    <3> HIDE DEF s
    <3> QED  BY <3>1, FiveProviders, Zenon
  <2>2. CASE p \notin Informed
    <3>1. s = <<"component", "uuid", "log", "tracer">>  BY <2>2, ProviderLists, Zenon
    <3> HIDE DEF s
    <3>2. DOMAIN s = 1 .. 4 /\ s[1] = "component" /\ s[2] = "uuid" /\ s[3] = "log" /\ s[4] = "tracer"
      BY <3>1, FourProviders, Zenon
    <3> QED  BY <3>2
  <2> QED  BY <2>1, <2>2, Zenon
<1> HIDE DEF s
<1> SUFFICES ASSUME NEW i \in DOMAIN s
             PROVE  InitialValueReads(p, s[i]) \subseteq {s[j] : j \in 1 .. (i - 1)}
  BY Zenon DEF MustPanic, s
<1>2. i \in {1, 2, 3, 4, 5}  BY <1>1
<1>3. CASE i \in {1, 2, 5}
  <2>1. s[i] \in {"component", "uuid", "systeminfo"}  BY <1>1, <1>3, Zenon
  <2> QED  BY <2>1, Zenon DEF InitialValueReads
<1>4. CASE i = 3
  <2>1. InitialValueReads(p, s[i]) \subseteq {"component"}  BY <1>1, <1>4, Zenon DEF InitialValueReads
  <2>2. 1 \in 1 .. (i - 1)  BY <1>4
  <2> QED  BY <1>1, <2>1, <2>2, Zenon
<1>5. CASE i = 4
  <2>1. InitialValueReads(p, s[i]) = {"component", "log"}  BY <1>1, <1>5, Zenon DEF InitialValueReads
  <2>2. 1 \in 1 .. (i - 1) /\ 3 \in 1 .. (i - 1)  BY <1>5
  <2> QED  BY <1>1, <2>1, <2>2, Zenon
<1> QED  BY <1>2, <1>3, <1>4, <1>5, Zenon

\* A process's context has the four values every process has, and system information
\* where a handler reads it.
LEMMA ContextOf ==
    ASSUME NEW p \in Procs, NEW n
    PROVE  LET c == NewContextWithParent(p, n) IN
           /\ c.providers = DOMAIN c.values /\ c.providers \subseteq Names
           /\ {"component", "uuid", "log", "tracer"} \subseteq c.providers
           /\ p \in Informed => "systeminfo" \in c.providers
           /\ c.values["component"] = <<p, 0>>
           /\ \A k \in c.providers \ {"component"} : c.values[k] = <<p, n>>
           /\ c # NoContext
<1> DEFINE T == Range(ProvidersOf[p])
<1>1. /\ T \subseteq Names /\ {"component", "uuid", "log", "tracer"} \subseteq T
      /\ p \in Informed => "systeminfo" \in T
  BY ProviderLists, FourProviders, FiveProviders DEF Names
<1> HIDE DEF T
<1>2. NewContextWithParent(p, n) =
        [providers |-> T, values |-> [k \in T |-> IF k = "component" THEN <<p, 0>> ELSE <<p, n>>]]
  BY Zenon DEF NewContextWithParent, T
<1>3. T # {}  BY <1>1, Zenon
<1> QED  BY <1>1, <1>2, <1>3 DEF NoContext

\* What run n of p sends with a call, and what a handler in run m of s makes of it.
Sent(p, n) == ExportToOutgoing(NewContextWithParent(p, n))
ContextFor(p, n, s, m) == ImportFromIncoming(Sent(p, n), NewContextWithParent(s, m))

\* What crosses a call: the identity of the caller, and no logger or tracer.
LEMMA Exported ==
    ASSUME NEW p \in Procs, NEW n
    PROVE  LET md == Sent(p, n) IN
           /\ Required \subseteq DOMAIN md /\ (p \in Informed => "systeminfo" \in DOMAIN md)
           /\ md["component"] = <<p, 0>> /\ md["uuid"] = <<p, n>>
           /\ "systeminfo" \in DOMAIN md => md["systeminfo"] = <<p, n>>
<1> DEFINE c == NewContextWithParent(p, n)
           md == ExportToOutgoing(c)
<1>1. /\ c.providers = DOMAIN c.values /\ {"component", "uuid"} \subseteq c.providers
      /\ p \in Informed => "systeminfo" \in c.providers
      /\ c.values["component"] = <<p, 0>>
      /\ \A k \in c.providers \ {"component"} : c.values[k] = <<p, n>>
  BY ContextOf, Zenon
<1> HIDE DEF c
<1>2. DOMAIN md = c.providers /\ \A k \in c.providers : md[k] = Marshal(k, c.values[k])
  BY <1>1, Zenon DEF ExportToOutgoing, Value
<1>3. \A k, v : k \notin {"log", "tracer"} => Marshal(k, v) = v  BY Zenon DEF Marshal
<1> HIDE DEF md
<1>4. md["component"] = <<p, 0>> /\ md["uuid"] = <<p, n>>  BY <1>1, <1>2, <1>3
<1>5. "systeminfo" \in DOMAIN md => md["systeminfo"] = <<p, n>>  BY <1>1, <1>2, <1>3
<1> QED  BY <1>1, <1>2, <1>4, <1>5, Zenon DEF Required, Sent, c, md

\* The handler's context: the caller's identity, the server's logger and tracer.
HandlerKnows(p, n, s, m) ==
    /\ ~ImportFails(Sent(p, n)) /\ CheckContext(ContextFor(p, n, s, m))
    /\ Value(ContextFor(p, n, s, m), "component") = <<p, 0>>
    /\ Value(ContextFor(p, n, s, m), "uuid") = <<p, n>>
    /\ \A k \in {"log", "tracer"} : Value(ContextFor(p, n, s, m), k) = <<s, m>>
    /\ p \in Informed => Value(ContextFor(p, n, s, m), "systeminfo") = <<p, n>>

LEMMA HandlerContext ==
    ASSUME NEW p \in Procs, NEW n, NEW s \in Procs, NEW m
    PROVE  HandlerKnows(p, n, s, m)
<1> DEFINE md == Sent(p, n)
           own == NewContextWithParent(s, m)
           hctx == ImportFromIncoming(md, own)
<1>1. /\ Required \subseteq DOMAIN md /\ (p \in Informed => "systeminfo" \in DOMAIN md)
      /\ md["component"] = <<p, 0>> /\ md["uuid"] = <<p, n>>
      /\ "systeminfo" \in DOMAIN md => md["systeminfo"] = <<p, n>>
  BY Exported, Zenon
<1>2. /\ {"log", "tracer"} \subseteq DOMAIN own.values
      /\ \A k \in {"log", "tracer"} : own.values[k] = <<s, m>>
  <2>1. /\ own.providers = DOMAIN own.values /\ {"component", "uuid", "log", "tracer"} \subseteq own.providers
        /\ \A k \in own.providers \ {"component"} : own.values[k] = <<s, m>>
    BY ContextOf, Zenon
  <2> HIDE DEF own
  <2> QED  BY <2>1, Zenon
<1>3. p # "" /\ p # "nil"  BY ProcsAssumption, Zenon
<1> HIDE DEF md, own
<1>4. ~ImportFails(md)
  <2>1. <<p, n>> # EmptyString  BY <1>3, Zenon DEF EmptyString
  <2> QED  BY <1>1, <2>1, Zenon DEF ImportFails, UnmarshalFails, Imported
<1>5. /\ {"component", "uuid"} \subseteq Imported(md)
      /\ p \in Informed => "systeminfo" \in Imported(md)
  BY <1>1, Zenon DEF Imported, Required, Optional
<1>6. /\ DOMAIN hctx.values = Imported(md) \cup Inherited
      /\ \A k \in Imported(md) \cup Inherited :
            hctx.values[k] = IF k \in Inherited THEN Value(own, k) ELSE Unmarshal(k, md[k])
  BY Zenon DEF ImportFromIncoming
<1> HIDE DEF hctx
<1>7. Value(hctx, "component") = <<p, 0>>
  <2>1. Unmarshal("component", <<p, 0>>) = <<p, 0>>  BY Zenon DEF Unmarshal
  <2> QED  BY <1>1, <1>5, <1>6, <2>1, Zenon DEF Value, Inherited
<1>8. Value(hctx, "uuid") = <<p, n>>
  <2>1. Unmarshal("uuid", <<p, n>>) = <<p, n>>  BY Zenon DEF Unmarshal
  <2> QED  BY <1>1, <1>5, <1>6, <2>1, Zenon DEF Value, Inherited
<1>9. p \in Informed => Value(hctx, "systeminfo") = <<p, n>>
  <2>1. Unmarshal("systeminfo", <<p, n>>) = <<p, n>>  BY Zenon DEF Unmarshal
  <2> QED  BY <1>1, <1>5, <1>6, <2>1, Zenon DEF Value, Inherited
<1>10. \A k \in {"log", "tracer"} : Value(hctx, k) = <<s, m>>
  <2>1. \A k \in {"log", "tracer"} : Value(own, k) = <<s, m>>  BY <1>2, Zenon DEF Value
  <2> QED  BY <1>6, <2>1, Zenon DEF Value, Inherited
<1>11. CheckContext(hctx)
  <2>1. <<p, 0>> # Nil /\ <<p, n>> # Nil  BY <1>3, Zenon DEF Nil
  <2> QED  BY <1>7, <1>8, <2>1, Zenon DEF CheckContext
<1>12. md = Sent(p, n) /\ hctx = ContextFor(p, n, s, m)  BY Zenon DEF md, own, hctx, ContextFor
<1> QED  BY <1>4, <1>7, <1>8, <1>9, <1>10, <1>11, <1>12, Zenon DEF HandlerKnows

----------------------------------------------------------------------------
Contexts == {NoContext} \cup {NewContextWithParent(p, n) : p \in Procs, n \in Nat}

\* A call on its way carries what its caller's run exported; a handler that runs has
\* what KnowsItsCaller says, and its server has not been started again since.
CallOK(c) ==
    /\ c.rpc \in Rpcs /\ c.rpc.from \in Procs /\ c.rpc.to \in Procs
    /\ c.md = Sent(c.rpc.from, c.run)
HandlerOK(h) ==
    /\ h.rpc.to \in Procs /\ mctx[h.rpc.to] # NoContext
    /\ Value(h.ctx, "component") = <<h.rpc.from, 0>>
    /\ Value(h.ctx, "uuid") = <<h.rpc.from, h.run>>
    /\ \A k \in {"log", "tracer"} : Value(h.ctx, k) = <<h.rpc.to, runs[h.rpc.to]>>
MetaInv ==
    /\ runs \in [Procs -> Nat] /\ mctx \in [Procs -> Contexts] /\ died = {}
    /\ \A p \in Procs : mctx[p] \in {NoContext, NewContextWithParent(p, runs[p])}
    /\ \A c \in calling : CallOK(c)
    /\ \A h \in serving : HandlerOK(h)

LEMMA NewProcessKeeps ==
    ASSUME MetaInv, NEW p \in Procs, NewProcess(p)
    PROVE  MetaInv'
<1> DEFINE n == runs[p] + 1
           c == NewContextWithParent(p, n)
<1>1. /\ runs' = [runs EXCEPT ![p] = n] /\ mctx' = [mctx EXCEPT ![p] = c]
      /\ died' = {} /\ UNCHANGED <<calling, serving>>
  BY NoPanic, Zenon DEF NewProcess, MetaInv
<1>2. n \in Nat /\ c \in Contexts  BY DEF MetaInv, Contexts
<1> HIDE DEF n, c
<1>3. runs' \in [Procs -> Nat] /\ mctx' \in [Procs -> Contexts]  BY <1>1, <1>2, Zenon DEF MetaInv
<1>4. \A q \in Procs : mctx'[q] \in {NoContext, NewContextWithParent(q, runs'[q])}
  <2>1. runs'[p] = n /\ mctx'[p] = NewContextWithParent(p, runs'[p])  BY <1>1, Zenon DEF MetaInv, c
  <2>2. \A q \in Procs \ {p} : runs'[q] = runs[q] /\ mctx'[q] = mctx[q]  BY <1>1, Zenon DEF MetaInv
  <2> QED  BY <2>1, <2>2, Zenon DEF MetaInv
<1>5. \A x \in calling' : CallOK(x)  BY <1>1, Zenon DEF MetaInv
<1>6. \A h \in serving' : HandlerOK(h)'
  <2> SUFFICES ASSUME NEW h \in serving  PROVE HandlerOK(h)'  BY <1>1, Zenon
  <2>1. HandlerOK(h)  BY Zenon DEF MetaInv
  <2>2. h.rpc.to # p  BY <2>1, Zenon DEF HandlerOK, NewProcess
  <2>3. mctx'[h.rpc.to] = mctx[h.rpc.to] /\ runs'[h.rpc.to] = runs[h.rpc.to]
    BY <1>1, <2>1, <2>2, Zenon DEF HandlerOK, MetaInv
  <2> QED  BY <2>1, <2>3, Zenon DEF HandlerOK
<1> QED  BY <1>1, <1>3, <1>4, <1>5, <1>6, Zenon DEF MetaInv, CallOK

LEMMA ProcessDiesKeeps ==
    ASSUME MetaInv, NEW p \in Procs, ProcessDies(p)
    PROVE  MetaInv'
<1>1. mctx' \in [Procs -> Contexts]  BY DEF ProcessDies, MetaInv, Contexts
<1>2. \A q \in Procs : mctx'[q] \in {NoContext, NewContextWithParent(q, runs'[q])}
  BY Zenon DEF ProcessDies, MetaInv
<1>3. \A x \in calling' : CallOK(x)  BY Zenon DEF ProcessDies, MetaInv
<1>4. \A h \in serving' : HandlerOK(h)'
  <2> SUFFICES ASSUME NEW h \in serving, h.rpc.to # p  PROVE HandlerOK(h)'  BY Zenon DEF ProcessDies
  <2>1. HandlerOK(h)  BY Zenon DEF MetaInv
  <2>2. mctx'[h.rpc.to] = mctx[h.rpc.to]  BY <2>1, Zenon DEF HandlerOK, ProcessDies, MetaInv
  <2> QED  BY <2>1, <2>2, Zenon DEF HandlerOK, ProcessDies
<1> QED  BY <1>1, <1>2, <1>3, <1>4, Zenon DEF ProcessDies, MetaInv, CallOK

LEMMA InvokeKeeps ==
    ASSUME MetaInv, NEW r \in Rpcs, r.from \in Procs, r.to \in Procs, Invoke(r)
    PROVE  MetaInv'
<1> DEFINE c == [rpc |-> r, run |-> runs[r.from], md |-> ExportToOutgoing(mctx[r.from])]
<1>1. calling' = calling \cup {c} /\ UNCHANGED <<runs, mctx, serving, died>>  BY Zenon DEF Invoke
<1>2. CallOK(c)
  <2>1. mctx[r.from] = NewContextWithParent(r.from, runs[r.from])  BY Zenon DEF Invoke, MetaInv
  <2> QED  BY <2>1, Zenon DEF CallOK, Sent
<1> HIDE DEF c
<1> QED  BY <1>1, <1>2, Zenon DEF MetaInv, CallOK, HandlerOK

\* What the handler of a call reads of its context is there.
LEMMA NothingLacks ==
    ASSUME NEW c, CallOK(c), NEW m
    PROVE  \A k \in c.rpc.reads : Value(ContextFor(c.rpc.from, c.run, c.rpc.to, m), k) # Nil
<1> DEFINE p == c.rpc.from
           n == c.run
           s == c.rpc.to
           hctx == ContextFor(p, n, s, m)
<1>1. p \in Procs /\ s \in Procs  BY Zenon DEF CallOK
<1>2. p # "nil" /\ s # "nil"  BY ProcsAssumption, Zenon DEF CallOK
<1>3. \/ p \in Informed /\ c.rpc.reads = {"uuid", "systeminfo"}
      \/ c.rpc.reads = {"component", "uuid", "log"}
      \/ c.rpc.reads = {"tracer"}
  <2>1. c.rpc \in Rpcs  BY Zenon DEF CallOK
  <2>2. CASE \E q \in {"agent", "consumerd"} :
               c.rpc = [from |-> q, to |-> "scheduler", reads |-> remoteInfoFromContext]
    <3>1. PICK q \in {"agent", "consumerd"} :
             c.rpc = [from |-> q, to |-> "scheduler", reads |-> remoteInfoFromContext]
      BY <2>2, Zenon
    <3>2. c.rpc.from = q /\ c.rpc.reads = {"uuid", "systeminfo"}  BY <3>1 DEF remoteInfoFromContext
    <3> QED  BY <3>2, Zenon DEF Informed
  <2>3. CASE \E q \in Procs \ {"consumer"} : c.rpc = [from |-> q, to |-> "monitor", reads |-> StreamMetrics]
    BY <2>3 DEF StreamMetrics
  <2>4. CASE c.rpc = [from |-> "consumer", to |-> "consumerd", reads |-> RunTask]
    BY <2>4 DEF RunTask
  <2> QED  BY <2>1, <2>2, <2>3, <2>4, Zenon DEF Rpcs
<1> HIDE DEF p, n, s
<1>4. /\ CheckContext(hctx) /\ \A k \in {"log", "tracer"} : Value(hctx, k) = <<s, m>>
      /\ p \in Informed => Value(hctx, "systeminfo") = <<p, n>>
  <2>1. HandlerKnows(p, n, s, m)  BY <1>1, HandlerContext, Zenon
  <2> QED  BY <2>1, Zenon DEF HandlerKnows
<1> HIDE DEF hctx
<1>5. Value(hctx, "component") # Nil /\ Value(hctx, "uuid") # Nil  BY <1>4, Zenon DEF CheckContext
<1>6. /\ \A k \in {"log", "tracer"} : Value(hctx, k) # Nil
      /\ p \in Informed => Value(hctx, "systeminfo") # Nil
  BY <1>2, <1>4 DEF Nil
<1>7. \A k \in c.rpc.reads : Value(hctx, k) # Nil  BY <1>3, <1>5, <1>6, Zenon
<1> QED  BY <1>7, Zenon DEF hctx, p, n, s

LEMMA HandleKeeps ==
    ASSUME MetaInv, NEW c \in calling, Handle(c)
    PROVE  MetaInv'
<1> DEFINE s == c.rpc.to
           hctx == ImportFromIncoming(c.md, mctx[s])
           h == [rpc |-> c.rpc, run |-> c.run, ctx |-> hctx]
<1>1. CallOK(c) /\ s \in Procs /\ mctx[s] # NoContext
  <2>1. CallOK(c)  BY Zenon DEF MetaInv
  <2>2. mctx[s] # NoContext  BY Zenon DEF Handle
  <2> QED  BY <2>1, <2>2, Zenon DEF CallOK
<1>2. mctx[s] = NewContextWithParent(s, runs[s])  BY <1>1, Zenon DEF MetaInv
<1>3. c.md = Sent(c.rpc.from, c.run) /\ hctx = ContextFor(c.rpc.from, c.run, s, runs[s])
  BY <1>1, <1>2, Zenon DEF CallOK, ContextFor
<1>4. /\ ~ImportFails(c.md) /\ CheckContext(hctx)
      /\ Value(hctx, "component") = <<c.rpc.from, 0>> /\ Value(hctx, "uuid") = <<c.rpc.from, c.run>>
      /\ \A k \in {"log", "tracer"} : Value(hctx, k) = <<s, runs[s]>>
  <2> DEFINE p == c.rpc.from
             n == c.run
             m == runs[s]
  <2>1. p \in Procs /\ s \in Procs  BY <1>1, Zenon DEF CallOK
  <2>2. c.md = Sent(p, n) /\ hctx = ContextFor(p, n, s, m)  BY <1>3, Zenon
  <2> HIDE DEF hctx, s, p, n, m
  <2>3. HandlerKnows(p, n, s, m)  BY <2>1, HandlerContext, Zenon
  <2>4. /\ ~ImportFails(c.md) /\ CheckContext(hctx)
        /\ Value(hctx, "component") = <<p, 0>> /\ Value(hctx, "uuid") = <<p, n>>
        /\ \A k \in {"log", "tracer"} : Value(hctx, k) = <<s, m>>
    BY <2>2, <2>3, Zenon DEF HandlerKnows
  <2> QED  BY <2>4, Zenon DEF p, n, m
<1>5. ~\E k \in c.rpc.reads : Value(hctx, k) = Nil
  <2> HIDE DEF hctx
  <2> QED  BY <1>1, <1>3, NothingLacks, Zenon
<1>6. /\ calling' = calling \ {c} /\ serving' = serving \cup {h}
      /\ UNCHANGED <<died, mctx, runs>>
  BY <1>4, <1>5, Zenon DEF Handle
<1>7. HandlerOK(h)  BY <1>1, <1>4, Zenon DEF HandlerOK
<1> HIDE DEF h, hctx, s
<1> QED  BY <1>6, <1>7, Zenon DEF MetaInv, CallOK, HandlerOK

\* A handler knows its caller, whichever processes die and start again meanwhile, and no
\* process dies of a value that its context lacks (meta/context.go:66, servers/grpc.go:83-92),
\* for any number of runs and of calls at once.
THEOREM CallerKnownAlways == MetadataSpec => []CallerKnown
<1>1. MetadataInit => MetaInv
  BY DEF MetadataInit, MetaInv, Contexts
<1>2. MetaInv /\ [MetadataNext]_metaVars => MetaInv'
  <2> SUFFICES ASSUME MetaInv, [MetadataNext]_metaVars  PROVE MetaInv'  BY Zenon
  <2>1. ASSUME NEW h \in serving, HandlerReturns(h)  PROVE MetaInv'
    BY <2>1, Zenon DEF HandlerReturns, MetaInv, CallOK, HandlerOK
  <2>2. CASE UNCHANGED metaVars
    BY <2>2, Zenon DEF metaVars, MetaInv, CallOK, HandlerOK
  <2> QED
    BY <2>1, <2>2, NewProcessKeeps, ProcessDiesKeeps, InvokeKeeps, HandleKeeps, Zenon DEF MetadataNext
<1>3. MetaInv => CallerKnown
  BY Zenon DEF MetaInv, HandlerOK, CallerKnown, KnowsItsCaller, NothingIsMissing
<1> QED  BY <1>1, <1>2, <1>3, PTL DEF MetadataSpec
=============================================================================
