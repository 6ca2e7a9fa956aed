------------------------------- MODULE Setup -------------------------------
(* `kubecc setup`, `teardown`, `enable` and `disable` (pkg/kubecc/commands/      *)
(* setup.go, teardown.go, helpers.go): each step that changes the machine is a  *)
(* step of the model, and a run may end after any of them, by an error (exit 1) *)
(* or by the user.  Binaries are told apart by their version, of which versions *)
(* run later are never older; every consumerd listens on the same port.         *)
EXTENDS Integers, FiniteSets

CONSTANTS MaxVersion,  \* bound: versions of kubecc
          MaxRuns,     \* bound: runs of setup and teardown
          MaxStops     \* bound: runs that end early

\* There is a version to install.
ASSUME VersionAssumption == MaxVersion \in Nat \ {0}

VARIABLES self,     \* version of the kubecc being run
          inPath,   \* the directory it is installed to is in the PATH
          bin,      \* version of the installed binary, NoFile, or Partial while copied
          unit,     \* which consumerd.service files exist: system, user
          daemon,   \* what systemd runs: a version, Starting or Off
          config,   \* which config files exist: /etc/kubecc, ~/.kubecc
          home,     \* the other entries of ~/.kubecc: "bin", "links", ".env", "env"
          enabled,  \* what ~/.kubecc/env turns on when sourced
          sourced,  \* the shell's rc file sources it
          at, root, todo,
          sd,       \* the service setup has selected
          updated,  \* installResultUpdated
          missed,   \* the consumerd was left running a binary since replaced
          runs, stops

machine == <<bin, unit, daemon, config, home, enabled, sourced>>
process == <<self, inPath, root, sd, updated, todo>>
setupVars == <<machine, process, at, missed, runs, stops>>

NoFile == 0
Partial == -1
Off == 0
Starting == -1
SetupOptions == {"system", "user"}
Versions == 1 .. MaxVersion
Parts == ({"unit", "config"} \X SetupOptions) \cup {<<"env">>, <<"binary">>}

SetupTypeOK ==
    /\ self \in Versions /\ inPath \in BOOLEAN /\ bin \in Versions \cup {NoFile, Partial}
    /\ unit \subseteq SetupOptions /\ daemon \in [SetupOptions -> Versions \cup {Off, Starting}]
    /\ config \subseteq SetupOptions /\ home \subseteq {"bin", "links", ".env", "env"}
    /\ enabled \in BOOLEAN /\ sourced \in BOOLEAN /\ root \in BOOLEAN /\ sd \in SetupOptions
    /\ at \in {"idle", "binary", "copy", "service", "restart", "config", "start", "connect",
               "toolchains", "links", "dotenv", "env", "rc", "finished", "teardown"}
    /\ updated \in BOOLEAN /\ missed \in BOOLEAN /\ todo \subseteq Parts
    /\ "links" \in home => "bin" \in home

SetupInit ==
    /\ self = 1 /\ inPath \in BOOLEAN /\ bin = NoFile /\ unit = {} /\ config = {} /\ home = {}
    /\ daemon = [o \in SetupOptions |-> Off] /\ enabled = FALSE /\ sourced = FALSE
    /\ at = "idle" /\ root = FALSE /\ sd = "user" /\ updated = FALSE /\ missed = FALSE
    /\ todo = {} /\ runs = 0 /\ stops = 0

----------------------------------------------------------------------------
(* systemd, and a consumerd that starts: it exits when Load finds no config file *)
(* or the port is taken, and is restarted until systemd gives up on it.         *)

\* IsActive: a unit waiting to be started again may or may not be reported active.
Reported(o) == CASE daemon[o] = Off -> {FALSE} [] daemon[o] = Starting -> BOOLEAN [] OTHER -> {TRUE}
Listening == \E o \in SetupOptions : daemon[o] > 0
Restart(o) == daemon' = [daemon EXCEPT ![o] = Starting]

\* Load: the system's file first; a user's own file only for their service.
Load(o) == "system" \in config \/ (o = "user" /\ "user" \in config)

Daemon(o) ==
    /\ daemon[o] = Starting
    /\ daemon' = [daemon EXCEPT ![o] =
          IF bin > 0 /\ o \in unit /\ Load(o) /\ ~Listening THEN bin ELSE Off]
    /\ UNCHANGED <<bin, unit, config, home, enabled, sourced, process, at, missed, runs, stops>>

----------------------------------------------------------------------------
(* setup.  Step(from, to) is one of its steps; what it leaves alone is listed.   *)

Step(from, to) == at = from /\ at' = to /\ UNCHANGED <<self, inPath, todo, runs, stops>>

\* SetupCmd: with sudo it runs as root first (sudoPreRun).
SetupCmd ==
    /\ at = "idle" /\ runs < MaxRuns /\ runs' = runs + 1 /\ at' = "binary"
    /\ self' \in self .. MaxVersion /\ root' \in BOOLEAN
    /\ UNCHANGED <<machine, inPath, sd, updated, missed, todo, stops>>

\* installOrUpdateBinary: found in the PATH and the same, or removed and copied anew.
Found == inPath /\ bin # NoFile
binaryNeedsUpdate == bin # self
installOrUpdateBinary ==
    IF Found /\ ~binaryNeedsUpdate
    THEN /\ Step("binary", "service") /\ updated' = FALSE
         /\ UNCHANGED <<machine, root, sd, missed>>
    ELSE /\ Step("binary", "copy") /\ updated' = Found /\ bin' = NoFile
         /\ missed' = (missed \/ (Listening /\ ~Found))
         /\ UNCHANGED <<unit, daemon, config, home, enabled, sourced, root, sd>>
copySelfTo ==
    /\ \/ bin = NoFile /\ bin' = Partial /\ Step("copy", "copy")
       \/ bin = Partial /\ bin' = self /\ Step("copy", "service")
    /\ UNCHANGED <<unit, daemon, config, home, enabled, sourced, root, sd, updated, missed>>

\* installConsumerd: use the service that runs, the system's first; else write a unit.
\* Root does not ask for the user's service.
installConsumerd ==
    /\ Step("service", IF updated THEN "restart" ELSE "config")
    /\ \E system \in Reported("system") : \E user \in Reported("user") :
          /\ sd' = IF system \/ root THEN "system" ELSE "user"
          /\ unit' = unit \cup (IF system \/ (user /\ ~root) THEN {} ELSE {sd'})
    /\ UNCHANGED <<bin, daemon, config, home, enabled, sourced, root, updated, missed>>

\* restartConsumerd, which restarts the selected service only.
NoRestart(o) == UNCHANGED daemon                         \* mutant of restartConsumerd
restartConsumerd(o) == Restart(o)
RestartStep ==
    /\ Step("restart", "config") /\ restartConsumerd(sd)
    /\ missed' = (missed \/ \E o \in SetupOptions \ {sd} : daemon[o] > 0)
    /\ UNCHANGED <<bin, unit, config, home, enabled, sourced, root, sd, updated>>

ConfigOf(o) == {o}
checkConfig ==
    /\ Step("config", "start") /\ config' = config \cup ConfigOf(sd)
    /\ UNCHANGED <<bin, unit, daemon, home, enabled, sourced, root, sd, updated, missed>>

\* The run of root is followed by one of the user; else the run goes on.
sudoPostRun == IF root THEN "binary" ELSE "connect"

\* startConsumerd when it is not active.  As root that is all, and sudoPostRun runs
\* setup again as the user.
startConsumerd ==
    /\ Step("start", sudoPostRun) /\ root' = FALSE
    /\ \E active \in Reported(sd) : IF active THEN UNCHANGED daemon ELSE Restart(sd)
    /\ UNCHANGED <<bin, unit, config, home, enabled, sourced, sd, updated, missed>>

\* connectToConsumerd blocks until a consumerd listens.
connectToConsumerd ==
    /\ Listening /\ Step("connect", "toolchains") /\ UNCHANGED <<machine, root, sd, updated, missed>>

\* setupToolchains makes ~/.kubecc/bin anew, and a link for each toolchain; setupEnv
\* writes .env, then env, and has the rc file source it unless told to skip that.
Fill(from, to, kept, made) ==
    /\ Step(from, to) /\ home' = (home \cap kept) \cup made
    /\ UNCHANGED <<bin, unit, daemon, config, root, sd, updated, missed>>
setupToolchains ==
    /\ \/ Fill("toolchains", "links", {".env", "env"}, {"bin"})
       \/ Fill("links", "dotenv", home, {"links"})
    /\ UNCHANGED <<enabled, sourced>>
setupEnv ==
    \/ /\ Fill("dotenv", "env", home, {".env"}) /\ UNCHANGED <<enabled, sourced>>
    \/ /\ Fill("env", "rc", home, {"env"}) /\ enabled' = TRUE /\ UNCHANGED sourced
    \/ /\ Fill("rc", "finished", home, {}) /\ sourced' \in {sourced, TRUE} /\ UNCHANGED enabled

Exit ==
    /\ at = "finished" /\ at' = "idle"
    /\ UNCHANGED <<machine, process, missed, runs, stops>>

\* An error, or the user, ends the run.
Stop ==
    /\ at \notin {"idle", "finished", "teardown"} /\ stops < MaxStops /\ stops' = stops + 1
    /\ at' = "idle" /\ missed' = (missed \/ (updated /\ at \in {"copy", "service", "restart"}))
    /\ UNCHANGED <<machine, process, runs>>

----------------------------------------------------------------------------
(* teardown, enable and disable. *)

\* What TeardownCmd offers to remove.
Offered ==
    {<<"unit", o>> : o \in {x \in SetupOptions : x \in unit \/ daemon[x] # Off}}
    \cup {<<"config", o>> : o \in config}
    \cup (IF {"bin", "env"} \cap home # {} THEN {<<"env">>} ELSE {})
    \cup (IF Found THEN {<<"binary">>} ELSE {})

TeardownCmd ==
    /\ at = "idle" /\ runs < MaxRuns /\ runs' = runs + 1 /\ at' = "teardown"
    /\ root' \in BOOLEAN /\ todo' \in (SUBSET Offered) \ {{}}
    /\ UNCHANGED <<machine, self, inPath, sd, updated, missed, stops>>

\* Each selected part in turn.  Only root may touch the system's.
Allowed(part) == root \/ part \notin {"unit", "config"} \X {"system"}
deleteEnv == home' = home \ {"bin", "links", "env"}
TeardownStep ==
    /\ at = "teardown" /\ UNCHANGED <<self, inPath, root, sd, updated, runs, stops>>
    /\ IF todo = {} THEN at' = "idle" /\ UNCHANGED <<machine, missed, todo>>
       ELSE \E part \in todo :
          LET gone == {o \in SetupOptions : part = <<"unit", o>> /\ Allowed(part)} IN
          /\ at' = at /\ todo' = todo \ {part}
          /\ unit' = unit \ gone
          /\ daemon' = [o \in SetupOptions |-> IF o \in gone THEN Off ELSE daemon[o]]
          /\ config' = config \ {o \in SetupOptions : part = <<"config", o>> /\ Allowed(part)}
          /\ IF part = <<"env">> THEN deleteEnv ELSE UNCHANGED home
          /\ bin' = IF part = <<"binary">> THEN NoFile ELSE bin
          /\ missed' = (missed \/ (part = <<"binary">> /\ Listening))
          /\ UNCHANGED <<enabled, sourced>>

\* EnableCmd and DisableCmd, where KUBECC_HOME is set: in a shell that sourced .env.
WriteEnvFile ==
    /\ at = "idle" /\ sourced /\ {".env", "env"} \subseteq home
    /\ enabled' = ~enabled
    /\ UNCHANGED <<bin, unit, daemon, config, home, sourced, process, at, missed, runs, stops>>

SetupStep ==
    \/ installOrUpdateBinary \/ copySelfTo \/ installConsumerd \/ RestartStep \/ checkConfig
    \/ startConsumerd \/ connectToConsumerd \/ setupToolchains \/ setupEnv \/ Exit \/ TeardownStep
    \/ \E o \in SetupOptions : Daemon(o)
SetupNext == SetupStep \/ SetupCmd \/ Stop \/ TeardownCmd \/ WriteEnvFile
SetupSpec == SetupInit /\ [][SetupNext]_setupVars /\ WF_setupVars(SetupStep)

----------------------------------------------------------------------------
(* Properties. *)

\* A run of setup that finishes leaves everything in place, whatever earlier runs and
\* teardowns left half done: the binary that ran, a config file, a consumerd that
\* listens, the links to it and the files the shell sources (setup.go:975-1021).
FinishedIsComplete ==
    at = "finished" =>
        /\ bin = self /\ Listening /\ config # {}
        /\ {"bin", "links", ".env", "env"} \subseteq home /\ enabled

\* The consumerd that answers runs the binary that is installed: setup restarts it after
\* an update.  It does not when the run that replaced the binary ended before the restart,
\* when the binary is not found in the PATH, or when another service than the one restarted
\* is the one that runs (setup.go:225-247, 987-992).
RunsInstalledBinary ==
    at = "finished" /\ ~missed => \A o \in SetupOptions : daemon[o] > 0 => daemon[o] = bin

\* A run of setup or teardown that nothing stops ends: in particular the consumerd that
\* connectToConsumerd waits for, without a timeout, does come up (setup.go:638-651).
SetupSettled == at = "idle"
=============================================================================
