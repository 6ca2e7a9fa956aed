------------------------------- MODULE Launch -------------------------------
(* `kubecc run component...` (pkg/kubecc/components): one process starts each     *)
(* component named on its command line as a goroutine, and the process of a        *)
(* component that cannot start ends with all of them and is started again.  The   *)
(* processes share the addresses of one host.                                     *)
EXTENDS Naturals, Sequences, FiniteSets

CONSTANTS CommandLines,  \* what is given to each process: a sequence of sets of names
          ListenAddress, \* of each component that has one
          MaxKills,      \* bound: processes killed, and listeners that fail
          MaxStarts      \* bound: starts of a process, more than MaxKills

\* Only these components listen on an address of the command line.
ASSUME ListenAssumption ==
    DOMAIN ListenAddress \subseteq {"monitor", "scheduler", "cache", "consumerd"}

VARIABLES up,     \* processes that run
          stage,     \* where the goroutine of each component is in its steps; 0: nowhere
          kills, starts

launchVars == <<up, stage, kills, starts>>

----------------------------------------------------------------------------
(* What each component does to start, in the order of its run function.  A        *)
(* component's name stands for dialing it.                                        *)

runMonitor == <<"listen", "new", "serve">>
runScheduler == <<"listen", "monitor", "cache", "new", "post", "serve">>
runCache == <<"listen", "monitor", "new", "post", "serve">>
runAgent == <<"scheduler", "monitor", "new", "post", "wait">>
runConsumerd == <<"scheduler", "monitor", "new", "post", "listen", "serve">>
runController == <<"new", "wait">>

StartSteps == [monitor |-> runMonitor, scheduler |-> runScheduler, cache |-> runCache,
               agent |-> runAgent, consumerd |-> runConsumerd, controller |-> runController]
RunComponents == DOMAIN StartSteps

\* The names of a command line are a set; two of them stand for several components.
components(name) ==
    CASE name = "all" -> RunComponents \ {"controller"}
      [] name = "servers" -> {"monitor", "scheduler", "cache"}
      [] OTHER -> {name}
Procs == DOMAIN CommandLines
Instances(p) == UNION {{<<n, c>> : c \in components(n)} : n \in CommandLines[p]}

StepOf(p, i) == StartSteps[i[2]][stage[p][i]]
Past(p, i, step) == \E k \in 1 .. stage[p][i] - 1 : StartSteps[i[2]][k] = step
Returned(p, i) == stage[p][i] = Len(StartSteps[i[2]]) + 1
Listens(p, i) == Past(p, i, "listen") /\ ~Returned(p, i)

LaunchTypeOK ==
    /\ up \subseteq Procs /\ kills \in 0 .. MaxKills /\ starts \in [Procs -> 0 .. MaxStarts]
    /\ \A p \in Procs : \A i \in Instances(p) :
          stage[p][i] \in IF p \in up THEN 1 .. Len(StartSteps[i[2]]) + 1 ELSE {0}

At(p, k) == [stage EXCEPT ![p] = [i \in Instances(p) |-> k]]
LaunchInit ==
    /\ up = {} /\ stage = [p \in Procs |-> [i \in Instances(p) |-> 0]]
    /\ kills = 0 /\ starts = [p \in Procs |-> 0]

----------------------------------------------------------------------------
RunCmd(p) ==
    /\ p \notin up /\ up' = up \cup {p} /\ stage' = At(p, 1)
    /\ starts[p] < MaxStarts /\ starts' = [starts EXCEPT ![p] = @ + 1] /\ UNCHANGED kills

\* panic and Fatal end the process.
Fatal(p, i) == up' = up \ {p} /\ stage' = At(p, 0)

\* net.Listen fails when the address is in use.
InUse(c) ==
    \E q \in Procs : \E i \in Instances(q) :
        Listens(q, i) /\ ListenAddress[i[2]] = ListenAddress[c]

\* Dial returns before there is a connection.
Dial(c) == TRUE

Proceed(p, i) == stage' = [stage EXCEPT ![p][i] = @ + 1] /\ UNCHANGED up
StartStep(p, i) ==
    /\ p \in up /\ ~Returned(p, i)
    /\ \/ /\ StepOf(p, i) = "listen"
          /\ IF InUse(i[2]) THEN Fatal(p, i) ELSE Proceed(p, i)
       \/ StepOf(p, i) \in RunComponents /\ Dial(StepOf(p, i)) /\ Proceed(p, i)
       \/ StepOf(p, i) \in {"new", "post"} /\ Proceed(p, i)
    /\ UNCHANGED <<kills, starts>>

\* Serve returns with the error of its listener, which is logged: the other
\* components, and the process, go on.
ServeFails(p, i) ==
    /\ p \in up /\ ~Returned(p, i) /\ StepOf(p, i) = "serve" /\ Proceed(p, i)
    /\ kills < MaxKills /\ kills' = kills + 1 /\ UNCHANGED starts
Killed(p) ==
    /\ p \in up /\ up' = up \ {p} /\ stage' = At(p, 0)
    /\ kills < MaxKills /\ kills' = kills + 1 /\ UNCHANGED starts

LaunchStep == \E p \in Procs : RunCmd(p) \/ \E i \in Instances(p) : StartStep(p, i)
LaunchNext ==
    \/ LaunchStep
    \/ \E p \in Procs : Killed(p) \/ \E i \in Instances(p) : ServeFails(p, i)
LaunchSpec == LaunchInit /\ [][LaunchNext]_launchVars /\ WF_launchVars(LaunchStep)

----------------------------------------------------------------------------
(* Properties. *)

\* A server that has its metrics provider, so that others see it in the monitor's list,
\* already accepts connections; consumerd alone connects to the monitor before it
\* listens (components/consumerd.go:88-109).
ListedIsListening ==
    \A p \in up : \A i \in Instances(p) :
        /\ Past(p, i, "new") /\ i[2] \in DOMAIN ListenAddress \ {"consumerd"}
        => Listens(p, i) \/ Returned(p, i)

Shared(p, i) ==
    \E q \in Procs : \E j \in Instances(q) :
        /\ <<q, j>> # <<p, i>> /\ {i[2], j[2]} \subseteq DOMAIN ListenAddress
        /\ ListenAddress[i[2]] = ListenAddress[j[2]]

\* Whatever the order in which components and processes start and are killed, and
\* whether or not those they dial are there, all of them end up serving.  There are
\* two exceptions: a process gives up in which a component needs the address of
\* another, as when one is named next to "all" and so started twice; and a component
\* whose Serve has returned is not started again, as its process goes on without it.
LaunchSettled ==
    \A p \in Procs :
        \/ p \notin up /\ starts[p] = MaxStarts /\ \E i \in Instances(p) : Shared(p, i)
        \/ /\ p \in up
           /\ \A i \in Instances(p) : Returned(p, i) \/ StepOf(p, i) \in {"serve", "wait"}
=============================================================================
