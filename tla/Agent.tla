------------------------------- MODULE Agent --------------------------------
(* The agent server (pkg/agent/server.go) on the stream that its StreamManager   *)
(* keeps to the scheduler: HandleStream starts a goroutine for each request,     *)
(* which runs the compiler under the stream's context and answers on that stream. *)
(* What the compiler's runner does with the request is in module CompileRequest. *)
(* Tracing is off: then StartSpanFromServer cannot fail.                          *)
EXTENDS StreamManager, FiniteSets

CONSTANTS Jobs,       \* requests of the scheduler
          NoRunner,   \* the ones of a toolchain kind that has no runner
          NoMatch     \* the ones whose toolchain no local one is equivalent to

VARIABLES job,           \* each request: "new", "inbox" (received by the transport),
                         \* "started", "counted", "runs", "returned", "over"
          jobOn,         \* the stream it came on
          result,        \* what compile returns
          runningTasks,
          taskStatus,    \* NumRunning as last posted
          replies,       \* what the scheduler has received: request, stream, result
          killed         \* compilers that were killed

agentVars == <<job, jobOn, result, runningTasks, taskStatus, replies, killed>>
agentSpecVars == <<smVars, agentVars>>

JobResults == {"none", "success", "fail", "internalError"}

AgentTypeOK ==
    /\ job \in [Jobs -> {"new", "inbox", "started", "counted", "runs", "returned", "over"}]
    /\ jobOn \in [Jobs -> 0 .. MaxGen] /\ result \in [Jobs -> JobResults]
    /\ replies \subseteq [job : Jobs, on : 1 .. MaxGen, result : JobResults \ {"none"}]
    /\ killed \subseteq Jobs /\ {runningTasks, taskStatus} \subseteq 0 .. Cardinality(Jobs)

AgentInit ==
    /\ SMInit /\ job = [j \in Jobs |-> "new"] /\ jobOn = [j \in Jobs |-> 0]
    /\ result = [j \in Jobs |-> "none"] /\ runningTasks = 0 /\ taskStatus = 0
    /\ replies = {} /\ killed = {}

----------------------------------------------------------------------------
\* The scheduler sends a request on the latest stream.
SchedulerSends(j) ==
    /\ job[j] = "new" /\ sm \in {"load", "handle"} /\ alive
    /\ job' = [job EXCEPT ![j] = "inbox"] /\ jobOn' = [jobOn EXCEPT ![j] = gen]
    /\ UNCHANGED <<smVars, result, runningTasks, taskStatus, replies, killed>>

HandleStreamStarts ==
    /\ sm = "load" /\ sm' = "handle"
    /\ UNCHANGED <<cond, gen, alive, remote, outages, ctxDone, agentVars>>

\* RecvMsg returns a request, which may have come in before the stream failed.
RecvMsg(j) ==
    /\ sm = "handle" /\ job[j] = "inbox" /\ jobOn[j] = gen
    /\ job' = [job EXCEPT ![j] = "started"]
    /\ UNCHANGED <<smVars, jobOn, result, runningTasks, taskStatus, replies, killed>>

\* compile: the task is counted, then there is no runner, or no toolchain that
\* matches, or the compiler starts.  The deferred call takes the task off on every
\* return.
CountTask(j) ==
    /\ job[j] = "started" /\ job' = [job EXCEPT ![j] = "counted"]
    /\ runningTasks' = runningTasks + 1
    /\ UNCHANGED <<smVars, jobOn, result, taskStatus, replies, killed>>
Uncounted == runningTasks - 1
Returns(j, res) ==
    /\ job' = [job EXCEPT ![j] = "returned"] /\ result' = [result EXCEPT ![j] = res]

TryMatch(j) == j \notin NoMatch
Get(j) == j \notin NoRunner
CompileJob(j) ==
    /\ job[j] = "counted"
    /\ IF Get(j) /\ TryMatch(j)
       THEN job' = [job EXCEPT ![j] = "runs"] /\ UNCHANGED <<result, runningTasks>>
       ELSE Returns(j, "internalError") /\ runningTasks' = Uncounted
    /\ UNCHANGED <<smVars, jobOn, taskStatus, replies, killed>>

\* The compiler ends, or it is killed because the stream's context or the server's is
\* done, which counts as an error of the compiler; or it is not started any more.
CompilerExits(j) ==
    /\ job[j] = "runs" /\ \E res \in {"success", "fail", "internalError"} : Returns(j, res)
    /\ runningTasks' = runningTasks - 1
    /\ UNCHANGED <<smVars, jobOn, taskStatus, replies, killed>>
ContextDone(j) == ctxDone \/ jobOn[j] # gen \/ ~alive
CompilerKilled(j) ==
    /\ job[j] = "runs" /\ ContextDone(j) /\ \E res \in {"fail", "internalError"} : Returns(j, res)
    /\ runningTasks' = runningTasks - 1 /\ killed' = killed \cup {j}
    /\ UNCHANGED <<smVars, jobOn, taskStatus, replies>>

\* The goroutine answers on the stream the request came on.  It gets an error when
\* that stream has ended, and may get one when the server's context is canceled.
Latest(j) == gen                                         \* mutant of StreamOf
StreamOf(j) == jobOn[j]
SendMsg(j) ==
    /\ job[j] = "returned" /\ job' = [job EXCEPT ![j] = "over"]
    /\ \/ /\ StreamOf(j) = gen /\ alive
          /\ replies' = replies \cup {[job |-> j, on |-> gen, result |-> result[j]]}
       \/ (StreamOf(j) # gen \/ ~alive \/ ctxDone) /\ UNCHANGED replies
    /\ UNCHANGED <<smVars, jobOn, result, runningTasks, taskStatus, killed>>

postTaskStatus ==
    /\ taskStatus # runningTasks /\ taskStatus' = runningTasks
    /\ UNCHANGED <<smVars, job, jobOn, result, runningTasks, replies, killed>>

AgentStep ==
    \/ SMStep /\ UNCHANGED agentVars
    \/ HandleStreamStarts \/ postTaskStatus
    \/ \E j \in Jobs : RecvMsg(j) \/ CountTask(j) \/ CompileJob(j) \/ CompilerKilled(j) \/ SendMsg(j)
AgentNext ==
    \/ AgentStep
    \/ SMEnvironment /\ UNCHANGED agentVars
    \/ \E j \in Jobs : SchedulerSends(j) \/ CompilerExits(j)
AgentSpec == AgentInit /\ [][AgentNext]_agentSpecVars /\ WF_agentSpecVars(AgentStep)

----------------------------------------------------------------------------
(* Properties. *)

\* What the scheduler receives is the one answer to a request of that same stream,
\* and when it says that the compilation failed then the compiler said so: one that
\* was killed because its stream was lost is never reported as a failed build, not
\* even after a reconnection (server.go:225-227).  The exception is a stream that
\* takes an answer after the server's context was canceled.
AnswerIsGenuine ==
    \A r \in replies :
        /\ r.on = jobOn[r.job] /\ \A q \in replies : q.job = r.job => q = r
        /\ r.result = "fail" /\ r.job \in killed => ctxDone

\* The agent ends up with no compiler running for a stream it has lost, whether or not
\* compilers end by themselves; what it posts is what runs; and every request it
\* has finished with on a live stream was answered.
Resolved(j) ==
    CASE job[j] = "over" -> (jobOn[j] = gen /\ alive /\ ~ctxDone => \E r \in replies : r.job = j)
      [] job[j] = "inbox" -> ContextDone(j)
      [] job[j] = "runs" -> jobOn[j] = gen /\ alive /\ ~ctxDone
      [] OTHER -> job[j] = "new"
AgentSettled ==
    /\ taskStatus = runningTasks /\ \A j \in Jobs : Resolved(j)
    /\ runningTasks = Cardinality({j \in Jobs : job[j] = "runs"})
=============================================================================
