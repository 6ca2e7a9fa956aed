------------------------------ MODULE MCTools ------------------------------
(* Small instances of what runs on a user's machine and of the operator: one     *)
(* compile request, the toolchain store, setup, the operator, `kubecc run`.       *)
(* Which one a behaviour is of is chosen at the start; the others stay as they    *)
(* were.                                                                          *)
EXTENDS CompileRequest, Operator, Setup, ToolchainStore, Launch

Tc(n, k, v, i) == [name |-> n, kind |-> k, version |-> v, image |-> i]
BC(img, st, c, t, list) ==
    [image |-> img, storage |-> st, cache |-> c, toolbox |-> t, toolchains |-> list]

\* A spec that leaves everything to the defaults, one with images of its own and
\* parts turned off, one with two toolchains of a name, one that is not supported.
MCPlain == BC(None, "mem", TRUE, TRUE, <<Tc(None, "gcc", "9", None)>>)
MCSpecs ==
    {MCPlain,
     BC("img3", "s3", FALSE, FALSE, <<Tc(None, "gcc", "9", "mygcc")>>),
     BC(None, "s3", FALSE, TRUE, <<Tc("dup", "custom", "1", "ubuntu"), Tc("dup", "custom", "2", "ubuntu")>>),
     BC(None, "s3", TRUE, FALSE, <<Tc(None, "custom", "9", None)>>)}
MCOpImages == <<"img1", "img2">>

\* Two processes that both run the cache server.
MCCommandLines == <<{"servers"}, {"cache", "consumerd"}>>
MCListenAddress == [monitor |-> 1, scheduler |-> 2, cache |-> 3, consumerd |-> 4]

VARIABLE part

vars == <<part, requestVars, operatorVars, setupVars, tsVars, launchVars>>

Is(p) == part = p /\ UNCHANGED part

Init ==
    /\ part \in {"compile", "operator", "setup", "store", "launch"}
    /\ CompileInit /\ (part # "compile" \/ kind = "sleep" => given = <<"-c">> /\ picDefault)
    /\ (part # "compile" => kind = "cc")
    /\ OperatorInit /\ (part # "operator" => cluster.spec = MCPlain)
    /\ SetupInit /\ (part # "setup" => inPath)
    /\ TSInit /\ LaunchInit

Next ==
    \/ (Is("compile") /\ CompileStep /\ UNCHANGED <<operatorVars, setupVars, tsVars, launchVars>>)
    \/ (Is("operator") /\ OperatorNext /\ UNCHANGED <<requestVars, setupVars, tsVars, launchVars>>)
    \/ (Is("setup") /\ SetupNext /\ UNCHANGED <<requestVars, operatorVars, tsVars, launchVars>>)
    \/ (Is("store") /\ TSNext /\ UNCHANGED <<requestVars, operatorVars, setupVars, launchVars>>)
    \/ (Is("launch") /\ LaunchNext /\ UNCHANGED <<requestVars, operatorVars, setupVars, tsVars>>)

Progress ==
    \/ (Is("operator") /\ OperatorStep /\ UNCHANGED <<requestVars, setupVars, tsVars, launchVars>>)
    \/ (Is("setup") /\ SetupStep /\ UNCHANGED <<requestVars, operatorVars, tsVars, launchVars>>)
    \/ (Is("store") /\ TSStep /\ UNCHANGED <<requestVars, operatorVars, setupVars, launchVars>>)
    \/ (Is("launch") /\ LaunchStep /\ UNCHANGED <<requestVars, operatorVars, setupVars, tsVars>>)

Watched == Is("operator") /\ WatchEvent /\ UNCHANGED <<requestVars, setupVars, tsVars, launchVars>>

Spec == Init /\ [][Next]_vars /\ WF_vars(Progress) /\ WF_vars(Watched)

\* The types of the parts: in particular the indexes of the parser stay within the
\* arguments (cc/args.go:408), what is absent has no content (components.go:273), and
\* no toolchain in the store is of a file that is missing (cc/finder.go:37).
ToolsTypeOK == CompileTypeOK /\ OperatorTypeOK /\ SetupTypeOK /\ TSTypeOK /\ LaunchTypeOK

\* What the user starts is what runs: setup leaves a complete installation whose
\* consumerd is the binary installed (setup.go:975-1021), and a server that `kubecc run`
\* lists with the monitor listens (components/run.go:84).
CommandsSound == FinishedIsComplete /\ RunsInstalledBinary /\ ListedIsListening

\* Everything started comes to its end: the operator converges to the spec
\* (buildcluster.go:46), setup ends (setup.go:638), the toolchains posted catch up with
\* the store's (consumerd/server.go:184), and the servers of `kubecc run` all serve, or
\* end when their addresses are taken (components/run.go:84).
ToolsSettle ==
    <>[](/\ part = "operator" => ClusterSettled
         /\ part = "setup" => SetupSettled
         /\ part = "store" => PostedSettled
         /\ part = "launch" => LaunchSettled)
=============================================================================
