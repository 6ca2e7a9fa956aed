---------------------------- MODULE MCClients -----------------------------
(* Small instances of what talks to the scheduler and to the monitor, one at a *)
(* time: which one a behaviour is of is chosen at the start.                   *)
EXTENDS RequestClient, MetricsProvider, Agent, Monitor, ProviderWatch, TLC

VARIABLE part

vars == <<part, smVars, rcVars, mpVars, agentVars, monitorVars, pwVars>>

Is(p) == part = p /\ UNCHANGED part

Init ==
    /\ part \in {"requests", "provider", "agent", "monitor", "watch"}
    /\ RequestInit /\ ProviderInit /\ AgentInit /\ MonitorInit /\ PWInit

Next ==
    \/ (Is("requests") /\ RequestNext /\ UNCHANGED <<mpVars, agentVars, monitorVars, pwVars>>)
    \/ (Is("provider") /\ ProviderNext /\ UNCHANGED <<rcVars, agentVars, monitorVars, pwVars>>)
    \/ (Is("agent") /\ AgentNext /\ UNCHANGED <<rcVars, mpVars, monitorVars, pwVars>>)
    \/ (Is("monitor") /\ MonitorNext /\ UNCHANGED <<smVars, rcVars, mpVars, agentVars, pwVars>>)
    \/ (Is("watch") /\ PWNext /\ UNCHANGED <<smVars, rcVars, mpVars, agentVars, monitorVars>>)

Step ==
    \/ (Is("requests") /\ RequestStep /\ UNCHANGED <<mpVars, agentVars, monitorVars, pwVars>>)
    \/ (Is("provider") /\ ProviderStep /\ UNCHANGED <<rcVars, agentVars, monitorVars, pwVars>>)
    \/ (Is("agent") /\ AgentStep /\ UNCHANGED <<rcVars, mpVars, monitorVars, pwVars>>)
    \/ (Is("monitor") /\ MonitorStep /\ UNCHANGED <<smVars, rcVars, mpVars, agentVars, pwVars>>)
    \/ (Is("watch") /\ PWStep /\ UNCHANGED <<smVars, rcVars, mpVars, agentVars, monitorVars>>)

Spec == Init /\ [][Next]_vars /\ WF_vars(Step)

\* The types of all the parts: in particular the monitor keeps values only of
\* providers that have a bucket (monitor/server.go:339) and no queue holds more than its size.
ClientsTypeOK == RequestTypeOK /\ ProviderTypeOK /\ AgentTypeOK /\ MonitorTypeOK /\ PWTypeOK

\* An answer finds its call on both ends of the scheduler's streams: the agent sends
\* one per request, on the request's own stream and never for a compiler that was
\* killed (agent/server.go:225), and the consumerd's client has a channel for exactly
\* the calls that wait (clients/scheduler.go:84).
AnswersFindTheirCalls == AnswerIsGenuine /\ PendingAreWaiting

\* The panics of the clients are out of reach but in the cases named: the receive
\* worker's only when the process stops, the display's and the exporter's only when
\* a provider comes and goes faster than its handler (ui/sources.go:273).
PanicsExplained == PanicOnlyOnShutdown /\ PanicOnlyIfTwice

\* Whatever streams break, everyone catches up: each call of Compile returns
\* (clients/scheduler.go:84), the monitor ends up with the component's health
\* (metrics/status.go:156), the agent reports the tasks it runs and resolves the
\* others (agent/server.go:251), the listeners of the monitor have its values
\* (monitor/server.go:292), and the display has a row per provider (ui/sources.go:206).
ClientsSettle ==
    <>[](/\ part = "requests" => RequestsSettled
         /\ part = "provider" => HealthSettled
         /\ part = "agent" => AgentSettled
         /\ part = "monitor" => MonitorSettled
         /\ part = "watch" => DisplaySettled)
=============================================================================
