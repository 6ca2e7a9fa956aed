--------------------------- MODULE AgentRegistry ---------------------------
(***************************************************************************)
(* How agent streams come and go at the scheduler: the handler             *)
(* StreamIncomingTasks (pkg/scheduler/server.go), the registration of the  *)
(* agent in the broker (NewAgentTaskStream, handleAgentStream and the      *)
(* cleanup goroutine in pkg/scheduler/broker.go), the count of connected   *)
(* agents, the status condition "No agents connected" and the posted       *)
(* preferred usage limits.                                                 *)
(*                                                                         *)
(* The handler of a stream holds agentsMutex while it waits up to five     *)
(* seconds for the agent's toolchains.  What cleanupAgent does to the      *)
(* tasks is in Broker; here it is one step under the mutex.                *)
(***************************************************************************)
EXTENDS Integers, FiniteSets

CONSTANTS
  Conns,      \* agent streams
  Uuids,
  NoConn

ASSUME RegistryAssumptions ==
  NoConn \notin Conns /\ IsFiniteSet(Conns) /\ IsFiniteSet(Uuids)

VARIABLES
  uuid,        \* [Conns]: the UUID in the metadata of the stream's context
  ctx,         \* [Conns]: the stream's context is "live" or "done"
  pc,          \* [Conns]: where its handler is
  agentsMutex, \* the stream whose handler holds agentsMutex, or NoConn
  agents,      \* [Uuids]: Broker.agents, by the stream of the Agent object
  handled,     \* [Conns]: the Agent the stream's goroutines work on
  cleaner,     \* [Conns]: the goroutine that waits to clean up
  agentCount,
  conds,       \* the "No agents connected" conditions now applied
  applied,     \* how many were applied so far
  condNoAgentsCancel, \* the condition the stored cancel function ends
  mine,        \* [Conns]: the condition a handler has just applied
  limits,      \* [Conns]: limits computed and not posted yet
  posted,      \* the last preferred usage limits posted
  crashed      \* nil dereference in handleAgentStream

connVars == <<uuid, ctx, pc, handled, cleaner, mine, limits>>
vars == <<connVars, agentsMutex, agents, agentCount, conds, applied,
          condNoAgentsCancel, posted, crashed>>

Steps == {"off", "lock", "wait", "handle", "count", "cancel", "calc", "post",
          "serve", "calcEnd", "postEnd", "leave", "apply", "store", "end"}

Generations == 1..(Cardinality(Conns) + 1)

TypeOK ==
  /\ uuid \in [Conns -> Uuids] /\ ctx \in [Conns -> {"live", "done"}]
  /\ pc \in [Conns -> Steps]
  /\ agentsMutex \in Conns \cup {NoConn}
  /\ agents \in [Uuids -> Conns \cup {NoConn}]
  /\ handled \in [Conns -> Conns \cup {NoConn}]
  /\ cleaner \in [Conns -> {"none", "wait", "done"}]
  /\ agentCount \in 0..Cardinality(Conns)
  /\ conds \subseteq Generations /\ applied \in Generations
  /\ condNoAgentsCancel \in Generations /\ mine \in [Conns -> Generations]
  /\ limits \in [Conns -> Nat] /\ posted \in Nat
  /\ crashed \in BOOLEAN

\* NewSchedulerServer has applied the condition once.
Init ==
  /\ uuid \in [Conns -> Uuids]
  /\ ctx = [s \in Conns |-> "live"] /\ pc = [s \in Conns |-> "off"]
  /\ agentsMutex = NoConn /\ agents = [u \in Uuids |-> NoConn]
  /\ handled = [s \in Conns |-> NoConn] /\ cleaner = [s \in Conns |-> "none"]
  /\ agentCount = 0
  /\ conds = {1} /\ applied = 1 /\ condNoAgentsCancel = 1
  /\ mine = [s \in Conns |-> 1]
  /\ limits = [s \in Conns |-> 0] /\ posted = 0
  /\ crashed = FALSE

Goto(s, from, to) == pc[s] = from /\ pc' = [pc EXCEPT ![s] = to]

-----------------------------------------------------------------------------
Connect(s) ==
  /\ Goto(s, "off", "lock")
  /\ UNCHANGED <<uuid, ctx, handled, cleaner, mine, limits, agentsMutex, agents, agentCount,
                 conds, applied, condNoAgentsCancel, posted, crashed>>

Disconnect(s) ==
  /\ pc[s] # "off" /\ ctx[s] = "live"
  /\ ctx' = [ctx EXCEPT ![s] = "done"]
  /\ UNCHANGED <<uuid, pc, handled, cleaner, mine, limits, agentsMutex, agents, agentCount,
                 conds, applied, condNoAgentsCancel, posted, crashed>>

\* NewAgentTaskStream.
LockAgents(s) ==
  /\ agentsMutex = NoConn
  /\ agentsMutex' = s
  /\ Goto(s, "lock", "wait")
  /\ UNCHANGED <<uuid, ctx, handled, cleaner, mine, limits, agents, agentCount, conds, applied,
                 condNoAgentsCancel, posted, crashed>>

\* Mutation of ToolchainsReceived: the Agent is not entered in Broker.agents.
ToolchainsReceivedUnregistered(s) ==
  /\ Goto(s, "wait", "handle")
  /\ agentsMutex' = NoConn
  /\ UNCHANGED <<uuid, ctx, handled, cleaner, mine, limits, agents, agentCount, conds, applied,
                 condNoAgentsCancel, posted, crashed>>

ToolchainsReceived(s) ==
  /\ Goto(s, "wait", "handle")
  /\ agents' = [agents EXCEPT ![uuid[s]] = s]
  /\ agentsMutex' = NoConn
  /\ UNCHANGED <<uuid, ctx, handled, cleaner, mine, limits, agentCount, conds, applied,
                 condNoAgentsCancel, posted, crashed>>

\* Mutation of ToolchainsTimeout: agentsMutex is not released.
ToolchainsTimeoutKeepsLock(s) ==
  /\ Goto(s, "wait", "count")
  /\ UNCHANGED <<uuid, ctx, handled, cleaner, mine, limits, agentsMutex, agents, agentCount, conds,
                 applied, condNoAgentsCancel, posted, crashed>>

\* StreamIncomingTasks only logs the error and goes on.
ToolchainsTimeout(s) ==
  /\ Goto(s, "wait", "count")
  /\ agentsMutex' = NoConn
  /\ UNCHANGED <<uuid, ctx, handled, cleaner, mine, limits, agents, agentCount, conds, applied,
                 condNoAgentsCancel, posted, crashed>>

\* The Agent is looked up again, by UUID and under a new read lock; a missing
\* entry is a nil Agent, which the next line dereferences.
HandleAgentStream(s) ==
  LET agent == agents[uuid[s]] IN
  /\ agentsMutex = NoConn
  /\ Goto(s, "handle", "count")
  /\ handled' = [handled EXCEPT ![s] = agent]
  /\ crashed' = (agent = NoConn)
  /\ cleaner' = [cleaner EXCEPT ![s] = "wait"]
  /\ UNCHANGED <<uuid, ctx, mine, limits, agentsMutex, agents, agentCount, conds, applied,
                 condNoAgentsCancel, posted>>

\* The goroutine that waits for the end of the stream's context.
Cleanup(s) ==
  /\ cleaner[s] = "wait" /\ ctx[s] = "done" /\ agentsMutex = NoConn
  /\ cleaner' = [cleaner EXCEPT ![s] = "done"]
  /\ agents' = [agents EXCEPT ![uuid[s]] = NoConn]
  /\ UNCHANGED <<uuid, ctx, pc, handled, mine, limits, agentsMutex, agentCount, conds, applied,
                 condNoAgentsCancel, posted, crashed>>

-----------------------------------------------------------------------------
\* StreamIncomingTasks.
CountIn(s) ==
  /\ Goto(s, "count", IF agentCount = 0 THEN "cancel" ELSE "calc")
  /\ agentCount' = agentCount + 1
  /\ UNCHANGED <<uuid, ctx, handled, cleaner, mine, limits, agentsMutex, agents, conds, applied,
                 condNoAgentsCancel, posted, crashed>>

CancelCond(s) ==
  /\ Goto(s, "cancel", "calc")
  /\ conds' = conds \ {condNoAgentsCancel}
  /\ UNCHANGED <<uuid, ctx, handled, cleaner, mine, limits, agentsMutex, agents, agentCount,
                 applied, condNoAgentsCancel, posted, crashed>>

\* Every agent brings one unit of the usage limit.
PreferredUsageLimits == Cardinality({u \in Uuids : agents[u] # NoConn})

\* postPreferredUsageLimits: computed under a read lock, posted after it.
CalcLimits(s) ==
  /\ agentsMutex = NoConn
  /\ Goto(s, "calc", "post") \/ Goto(s, "calcEnd", "postEnd")
  /\ limits' = [limits EXCEPT ![s] = PreferredUsageLimits]
  /\ UNCHANGED <<uuid, ctx, handled, cleaner, mine, agentsMutex, agents, agentCount, conds,
                 applied, condNoAgentsCancel, posted, crashed>>

PostLimits(s) ==
  /\ Goto(s, "post", "serve") \/ Goto(s, "postEnd", "leave")
  /\ posted' = limits[s]
  /\ limits' = [limits EXCEPT ![s] = 0]
  /\ UNCHANGED <<uuid, ctx, handled, cleaner, mine, agentsMutex, agents, agentCount,
                 conds, applied, condNoAgentsCancel, crashed>>

\* Mutation of PostPeriodically: the periodic post repeats the last value.
PostPeriodicallyStale ==
  /\ agentsMutex = NoConn
  /\ UNCHANGED vars

\* StartMetricsProvider posts the limits every few seconds as well.
PostPeriodically ==
  /\ agentsMutex = NoConn
  /\ posted' = PreferredUsageLimits
  /\ UNCHANGED <<connVars, agentsMutex, agents, agentCount, conds, applied,
                 condNoAgentsCancel, crashed>>

StreamDone(s) ==
  /\ ctx[s] = "done"
  /\ Goto(s, "serve", "calcEnd")
  /\ UNCHANGED <<uuid, ctx, handled, cleaner, mine, limits, agentsMutex, agents, agentCount,
                 conds, applied, condNoAgentsCancel, posted, crashed>>

\* Mutation of CountOut: the count is compared before it is decremented.
CountOutOffByOne(s) ==
  /\ Goto(s, "leave", IF agentCount = 0 THEN "apply" ELSE "end")
  /\ agentCount' = agentCount - 1
  /\ UNCHANGED <<uuid, ctx, handled, cleaner, mine, limits, agentsMutex, agents, conds, applied,
                 condNoAgentsCancel, posted, crashed>>

CountOut(s) ==
  /\ Goto(s, "leave", IF agentCount = 1 THEN "apply" ELSE "end")
  /\ agentCount' = agentCount - 1
  /\ UNCHANGED <<uuid, ctx, handled, cleaner, mine, limits, agentsMutex, agents, conds, applied,
                 condNoAgentsCancel, posted, crashed>>

\* applyNoAgentsCond: the condition is applied before its cancel is stored.
ApplyCond(s) ==
  /\ Goto(s, "apply", "store")
  /\ applied' = applied + 1
  /\ conds' = conds \cup {applied + 1}
  /\ mine' = [mine EXCEPT ![s] = applied + 1]
  /\ UNCHANGED <<uuid, ctx, handled, cleaner, limits, agentsMutex, agents, agentCount,
                 condNoAgentsCancel, posted, crashed>>

StoreCancel(s) ==
  /\ Goto(s, "store", "end")
  /\ condNoAgentsCancel' = mine[s]
  /\ mine' = [mine EXCEPT ![s] = 1]
  /\ UNCHANGED <<uuid, ctx, handled, cleaner, limits, agentsMutex, agents, agentCount,
                 conds, applied, posted, crashed>>

-----------------------------------------------------------------------------
RegisterStep(s) ==
  \/ LockAgents(s) \/ ToolchainsReceived(s) \/ ToolchainsTimeout(s) \/ HandleAgentStream(s)
ServeStep(s) == CountIn(s) \/ CancelCond(s) \/ CalcLimits(s) \/ PostLimits(s)
LeaveStep(s) == StreamDone(s) \/ CountOut(s) \/ ApplyCond(s) \/ StoreCancel(s)
HandlerStep(s) == RegisterStep(s) \/ ServeStep(s) \/ LeaveStep(s)

Next ==
  /\ ~crashed
  /\ \/ \E s \in Conns : Connect(s) \/ Disconnect(s) \/ HandlerStep(s) \/ Cleanup(s)
     \/ PostPeriodically

Spec == Init /\ [][Next]_vars

\* Goroutines run; time.After and the ticker fire; agentsMutex does not
\* starve a waiter.
Fairness ==
  /\ \A s \in Conns : SF_vars(~crashed /\ HandlerStep(s)) /\ SF_vars(~crashed /\ Cleanup(s))
  /\ SF_vars(~crashed /\ PostPeriodically)

FairSpec == Spec /\ Fairness

-----------------------------------------------------------------------------
(* Properties.                                                             *)

Registered(s) == pc[s] \notin {"off", "lock", "wait"} /\ cleaner[s] # "done"

\* Broker.agents never names a stream that was cleaned up, also when an agent
\* reconnects with the same UUID while its old stream ends.
NoGhostAgent ==
  \A u \in Uuids : agents[u] # NoConn => uuid[agents[u]] = u /\ Registered(agents[u])

Alone(s) == \A o \in Conns \ {s} : uuid[o] # uuid[s]

\* The goroutines of a stream that shares its UUID with no other work on the
\* Agent of that stream (its tokens are its own), which is never nil and stays
\* registered until the stream's own cleanup, whatever other agents do.
HandlesOwnAgent ==
  \A s \in Conns :
    Alone(s) /\ cleaner[s] = "wait" => handled[s] = s /\ agents[uuid[s]] = s

\* Broker.agents and the streams agree: no entry names a stream that is gone,
\* and the goroutines of a stream work on its own Agent (broker.go:395-428).
AgentsMatchStreams == TypeOK /\ NoGhostAgent /\ HandlesOwnAgent

\* The scheduler never looks healthy without agents: once the handler that
\* brought agentCount to zero has applied the condition, one is in force.
NoAgentsIsReported ==
  agentCount = 0 /\ (\A s \in Conns : pc[s] # "apply") => conds # {}

\* Every stream is eventually served, although handlers hold agentsMutex while
\* they wait for toolchains that may never come (unless the process crashed).
EveryStreamServed == \A s \in Conns : pc[s] = "lock" ~> pc[s] = "serve" \/ crashed

\* The posted limits end up right, although a handler can post the value it
\* computed before another one's, or before the agent's cleanup.
LimitsConverge == <>[](posted = PreferredUsageLimits \/ crashed)
=============================================================================
