----------------------------- MODULE Metadata -----------------------------
(* The context every process is given, and what of it crosses a call: the    *)
(* values of the caller's providers are marshalled into the metadata of the  *)
(* call, and the server's interceptor builds the context of the handler from *)
(* that metadata and from its own context (meta/context.go,                  *)
(* meta/interceptors.go, servers/grpc.go).                                   *)
(*                                                                           *)
(* A value is a pair: the process and the run of it that made the value; a   *)
(* component is the pair of its name and 0.                                  *)
EXTENDS Naturals, FiniteSets, Functions

CONSTANTS Procs,       \* processes, each of one component
          MaxRuns,     \* bound: runs of a process
          MaxInFlight  \* bound: calls on the wire and in handlers

\* The components that cmd/ starts; each has its list of providers below.
ASSUME ProcsAssumption ==
    Procs \subseteq {"agent", "cache", "consumerd", "scheduler", "monitor", "consumer"}

VARIABLES runs,      \* how often each process has been started
          mctx,      \* the context of the process, or NoContext
          calling,   \* calls that have left the caller
          serving,   \* handlers that run: the caller, the server, the context
          died   \* processes that died in a panic of this code

metaVars == <<runs, mctx, calling, serving, died>>

NoContext == [providers |-> {}, values |-> <<>>]
Nil == <<"nil", 0>>
EmptyString == <<"", 0>>

\* contextImpl.Value: nil for a key without a value.
Value(c, k) == IF k \in DOMAIN c.values THEN c.values[k] ELSE Nil

(***************************************************************************)
(* Starting a process.                                                     *)
(***************************************************************************)
AgentProviders == <<"component", "uuid", "log", "tracer", "systeminfo">>
CacheProviders == <<"component", "uuid", "log", "tracer", "systeminfo">>
ConsumerdProviders == <<"component", "uuid", "log", "tracer", "systeminfo">>
SchedulerProviders == <<"component", "uuid", "log", "tracer">>
MonitorProviders == <<"component", "uuid", "log", "tracer">>
SleepProviders == <<"component", "uuid", "log", "tracer">>

ProvidersOf ==
    [agent |-> AgentProviders, cache |-> CacheProviders, consumerd |-> ConsumerdProviders,
     scheduler |-> SchedulerProviders, monitor |-> MonitorProviders, consumer |-> SleepProviders]

\* What a provider's initializer reads of the context under construction. Only
\* the sleep command leaves the logger to its InitialValue.
InitialValueReads(p, k) ==
    CASE k = "tracer" -> {"component", "log"}
      [] k = "log" /\ p = "consumer" -> {"component"}
      [] OTHER -> {}

\* An initializer reads what no earlier provider has set: the accessors panic.
MustPanic(p) ==
    \E i \in DOMAIN ProvidersOf[p] :
        LET earlier == {ProvidersOf[p][j] : j \in 1..(i - 1)}
        IN  ~(InitialValueReads(p, ProvidersOf[p][i]) \subseteq earlier)

NewContextWithParent(p, n) ==
    [providers |-> Range(ProvidersOf[p]),
     values |-> [k \in Range(ProvidersOf[p]) |-> IF k = "component" THEN <<p, 0>> ELSE <<p, n>>]]

NewProcess(p) ==
    /\ mctx[p] = NoContext /\ p \notin died /\ runs[p] < MaxRuns
    /\ runs' = [runs EXCEPT ![p] = @ + 1]
    /\ IF MustPanic(p)
       THEN died' = died \cup {p} /\ UNCHANGED mctx
       ELSE mctx' = [mctx EXCEPT ![p] = NewContextWithParent(p, runs[p] + 1)]
            /\ UNCHANGED died
    /\ UNCHANGED <<calling, serving>>

(***************************************************************************)
(* A call.  Loggers and tracers are not marshalled: they travel as the     *)
(* empty string, and would come back as nil.                               *)
(***************************************************************************)
Marshal(k, v) == IF k \in {"log", "tracer"} THEN EmptyString ELSE v

\* A component name that is not known decodes as the zero component.
Unmarshal(k, s) ==
    CASE k \in {"log", "tracer"} -> Nil
      [] k = "component" /\ s[1] \notin Procs -> <<"unspecified", 0>>
      [] OTHER -> s

\* protojson refuses what is not a document.
UnmarshalFails(k, s) == k = "systeminfo" /\ s = EmptyString

ExportToOutgoing(c) == [k \in c.providers |-> Marshal(k, Value(c, k))]

\* Mutant: the handler is given the identity of the server as well.
InheritIdentity == {"log", "tracer", "uuid"}

\* The ImportOptions of NewServer.
Required == {"component", "uuid"}
Optional == {"systeminfo"}
Inherited == {"log", "tracer"}

Imported(md) == (Required \cup Optional) \cap DOMAIN md

ImportFails(md) ==
    \/ ~(Required \subseteq DOMAIN md)
    \/ \E k \in Imported(md) : UnmarshalFails(k, md[k])

ImportFromIncoming(md, own) ==
    [providers |-> Imported(md) \cup Inherited,
     values |-> [k \in Imported(md) \cup Inherited |->
                    IF k \in Inherited THEN Value(own, k) ELSE Unmarshal(k, md[k])]]

CheckContext(c) == Value(c, "component") # Nil /\ Value(c, "uuid") # Nil

\* What the handlers read of their context with the accessors that panic.
remoteInfoFromContext == {"uuid", "systeminfo"}
StreamMetrics == {"component", "uuid", "log"}
RunTask == {"tracer"}

Rpcs ==
    {[from |-> p, to |-> "scheduler", reads |-> remoteInfoFromContext] : p \in {"agent", "consumerd"}}
    \cup {[from |-> p, to |-> "monitor", reads |-> StreamMetrics] : p \in Procs \ {"consumer"}}
    \cup {[from |-> "consumer", to |-> "consumerd", reads |-> RunTask]}

\* The caller's interceptor exports the context into the call. (The
\* calls on their way and the handlers are at most MaxInFlight.)
Invoke(r) ==
    /\ mctx[r.from] # NoContext
    /\ Cardinality(calling) + Cardinality(serving) < MaxInFlight
    /\ calling' = calling \cup {[rpc |-> r, run |-> runs[r.from],
                                 md |-> ExportToOutgoing(mctx[r.from])]}
    /\ UNCHANGED <<runs, mctx, serving, died>>

\* The server's interceptor, and then the handler: it refuses a context without
\* an identity, and dies on a value it reads and does not find.
Handle(c) ==
    LET s == c.rpc.to
        ctx == ImportFromIncoming(c.md, mctx[s])
        served == ~ImportFails(c.md) /\ CheckContext(ctx)
        lacks == \E k \in c.rpc.reads : Value(ctx, k) = Nil
    IN  /\ mctx[s] # NoContext
        /\ calling' = calling \ {c}
        /\ died' = IF served /\ lacks THEN died \cup {s} ELSE died
        /\ mctx' = IF served /\ lacks THEN [mctx EXCEPT ![s] = NoContext] ELSE mctx
        /\ serving' = IF served /\ ~lacks
                      THEN serving \cup {[rpc |-> c.rpc, run |-> c.run, ctx |-> ctx]}
                      ELSE {h \in serving : h.rpc.to = s => ~(served /\ lacks)}
        /\ UNCHANGED runs

HandlerReturns(h) ==
    /\ serving' = serving \ {h}
    /\ UNCHANGED <<runs, mctx, calling, died>>

\* The process dies: calls on their way to it are lost with its connections;
\* its own calls may still arrive, its streams end later.
ProcessDies(p) ==
    /\ mctx[p] # NoContext
    /\ mctx' = [mctx EXCEPT ![p] = NoContext]
    /\ calling' = {c \in calling : c.rpc.to # p}
    /\ serving' = {h \in serving : h.rpc.to # p}
    /\ UNCHANGED <<runs, died>>

MetadataInit ==
    /\ runs = [p \in Procs |-> 0] /\ mctx = [p \in Procs |-> NoContext]
    /\ calling = {} /\ serving = {} /\ died = {}

MetadataNext ==
    \/ \E p \in Procs : NewProcess(p) \/ ProcessDies(p)
    \/ \E r \in {x \in Rpcs : x.from \in Procs /\ x.to \in Procs} : Invoke(r)
    \/ \E c \in calling : Handle(c)
    \/ \E h \in serving : HandlerReturns(h)

MetadataSpec == MetadataInit /\ [][MetadataNext]_metaVars

\* A handler knows its caller and logs as its server: the component and the
\* uuid it reads are those of the run of the process that called, also when
\* that process has died or started again since, and the logger and the tracer
\* are those of the server's present run (meta/context.go:66). The scheduler and
\* the monitor key everything they know of a process on that uuid.
KnowsItsCaller ==
    \A h \in serving :
        /\ Value(h.ctx, "component") = <<h.rpc.from, 0>>
        /\ Value(h.ctx, "uuid") = <<h.rpc.from, h.run>>
        /\ \A k \in {"log", "tracer"} : Value(h.ctx, k) = <<h.rpc.to, runs[h.rpc.to]>>

\* No process dies of a context that lacks what is read from it: not when its
\* own context is built, where the tracer's initializer reads the logger and
\* the component, and not in a handler, where the scheduler reads the system
\* information that only some processes send (scheduler/types.go:65,
\* meta/metadata.go:45).
NothingIsMissing == died = {}

\* Metadata survives the hops: a handler always has its caller's identity and its own
\* logger and tracer, and whatever it reads is there (servers/grpc.go:83-92).
CallerKnown == KnowsItsCaller /\ NothingIsMissing
=============================================================================
