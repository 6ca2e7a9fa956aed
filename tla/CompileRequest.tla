--------------------------- MODULE CompileRequest ---------------------------
(* One Run request of consumerd (pkg/consumerd/server.go) from its arguments   *)
(* to its answer: the local runner, the remote runner with its preprocessor    *)
(* (pkg/cc/controller/send.go, local.go, pkg/cc/preprocess.go) and the agent's  *)
(* runner (recv.go, compile.go), for a compiler and for the sleep toolchain    *)
(* (pkg/sleep/controller).  Which of the queues takes the request is in module *)
(* Consumerd; here either may.                                                 *)
EXTENDS CompileArgs, TLC

CONSTANTS Words,        \* the words argument lists are made of
          MaxWords,     \* bound: their length
          MaxRetries    \* bound: answers that ask for a retry

VARIABLES kind,         \* the kind of its toolchain: "cc" or "sleep"
          given,        \* the arguments of the request
          parsed,       \* ap: they are parsed once
          work,         \* tmpArgParser: the copy an attempt works on
          pc,
          onlyLocal,    \* exclusivity is Local
          ran,          \* the arguments of the last compiler or preprocessor run
          picDefault,   \* the toolchain generates position independent code
          litter,       \* temporary files on the agent: "dir" and "out"
          failed,       \* an attempt on the agent did not end in success
          worked,       \* the compiler, or sleep, ran and reported success
          retries, answer

requestVars == <<kind, given, parsed, work, pc, onlyLocal, ran, picDefault, litter, failed,
                 worked, retries, answer>>

Arguments == UNION {[1 .. n -> Words] : n \in 1 .. MaxWords}

CompileTypeOK ==
    /\ pc \in {"parse", "exec", "started", "send", "agent", "compile", "write", "done"}
    /\ kind \in {"cc", "sleep"} /\ worked \in BOOLEAN
    /\ retries \in 0 .. MaxRetries /\ onlyLocal \in BOOLEAN /\ litter \subseteq {"dir", "out"}
    /\ answer \in {"none", "ok", "fails", "error", "panic"}
    /\ parsed.Mode \in {"unset", "local", "remote"}
    /\ parsed.InputArgIndex \in 0 .. Len(parsed.Args)
    /\ work.OutputArgIndex \in 0 .. Len(work.Args)

CompileInit ==
    /\ given \in Arguments /\ picDefault \in BOOLEAN /\ kind \in {"cc", "sleep"}
    /\ parsed = NewArgParser(given) /\ work = parsed /\ pc = "parse" /\ onlyLocal = FALSE
    /\ ran = <<>> /\ litter = {} /\ failed = FALSE /\ worked = FALSE /\ retries = 0 /\ answer = "none"

Answer(a) == pc' = "done" /\ answer' = a

----------------------------------------------------------------------------
(* consumerd. *)

\* The parser of the sleep toolchain leaves the arguments alone and allows both.
NoopArgParser(ap) == [ap EXCEPT !.Mode = "remote"]
ParseRequest ==
    /\ pc = "parse" /\ pc' = "exec"
    /\ parsed' = IF kind = "sleep" THEN NoopArgParser(parsed) ELSE Parse(parsed)
    /\ onlyLocal' = ~CanRunRemote(parsed')
    /\ UNCHANGED <<kind, given, work, ran, picDefault, litter, failed, worked, retries, answer>>

NoCopy == work                                           \* mutant of DeepCopy
DeepCopy == parsed
Attempt ==
    /\ pc = "exec" /\ pc' = "started" /\ work' = IF retries = 0 THEN parsed ELSE DeepCopy
    /\ UNCHANGED <<kind, given, parsed, onlyLocal, ran, picDefault, litter, failed, worked, retries, answer>>

\* localRunnerManager.Process: the compiler runs in place.
RunLocal ==
    /\ pc = "started" /\ kind = "cc" /\ ran' = work.Args
    /\ \E a \in {"ok", "fails", "error"} : Answer(a) /\ worked' = (a = "ok")
    /\ UNCHANGED <<kind, given, parsed, work, onlyLocal, picDefault, litter, failed, retries>>

\* sendRemoteRunnerManager.Process up to the preprocessor, which writes to "-" and puts
\* the output path back.
PreprocessTask(ap) == ReplaceOutputPath(ap, "-").Args
ForPreprocessor(ap) == SetActionOpt(ConfigurePreprocessorOptions(ap), "-E")
RunPreprocessor ==
    /\ pc = "started" /\ kind = "cc" /\ ~onlyLocal
    /\ work' = ForPreprocessor(work) /\ ran' = PreprocessTask(work')
    /\ \/ pc' = "send" /\ answer' = answer
       \/ Answer("fails")
    /\ UNCHANGED <<kind, given, parsed, onlyLocal, picDefault, litter, failed, worked, retries>>

\* The action is put back and what the agent does not need is taken out.
RestoreAction(ap, opt) == SetActionOpt(ap, opt)
ForAgent(ap, opt) ==
    PrependExplicitPICArgs(RemoveLocalArgs(RestoreAction(ap, opt)), picDefault)
SendRemote ==
    LET opt == ActionOpt(ConfigurePreprocessorOptions(parsed)) IN
    /\ pc = "send"
    /\ IF work.OutputArgIndex \in DOMAIN work.Args
       THEN pc' = "agent" /\ work' = ForAgent(work, opt) /\ answer' = answer
       ELSE Answer("error") /\ work' = work
    /\ UNCHANGED <<kind, given, parsed, onlyLocal, ran, picDefault, litter, failed, worked, retries>>

\* The scheduler has no agent: try again, or only locally.
NoAgents ==
    /\ pc = "agent" /\ kind = "cc" /\ retries < MaxRetries /\ retries' = retries + 1 /\ pc' = "exec"
    /\ \E local \in BOOLEAN : onlyLocal' = (onlyLocal \/ local)
    /\ UNCHANGED <<kind, given, parsed, work, ran, picDefault, litter, failed, worked, answer>>
Disconnected ==
    /\ pc = "agent" /\ Answer("error")
    /\ UNCHANGED <<kind, given, parsed, work, onlyLocal, ran, picDefault, litter, failed, worked, retries>>

----------------------------------------------------------------------------
(* recvRemoteRunnerManager.Process on the agent. *)

\* An internal error of the agent is no result that Process expects.
BadResponse == "error"

\* The source is written to a temporary directory; the directory stays if that
\* fails, and an argument list without input makes the agent panic.
Receive ==
    LET ap == Parse(NewArgParser(work.Args)) IN
    /\ pc = "agent" /\ kind = "cc"
    /\ \/ /\ ap.InputArgIndex = 0 /\ Answer("panic") /\ UNCHANGED <<work, litter, failed>>
       \/ /\ ap.InputArgIndex # 0
          /\ work' = ReplaceInputPath(ap, "tmp.c") /\ litter' = {"dir"}
          /\ pc' = "compile" /\ UNCHANGED <<answer, failed>>
       \/ /\ ap.InputArgIndex # 0 /\ Answer(BadResponse)
          /\ litter' = {"dir"} /\ failed' = TRUE /\ work' = work
    /\ UNCHANGED <<kind, given, parsed, onlyLocal, ran, picDefault, worked, retries>>

\* compileTask.Run with a temporary output file, then the deferred RemoveAll.
Cleaned == {"out"}
CompileTask(ap) == ReplaceOutputPath(ap, "tmp.o")
Compile ==
    /\ pc = "compile" /\ work' = CompileTask(work) /\ ran' = work'.Args
    /\ \/ /\ pc' = "write" /\ litter' = {"out"} \ Cleaned /\ worked' = TRUE
          /\ UNCHANGED <<answer, failed>>
       \/ Answer("fails") /\ litter' = {"out"} /\ failed' = TRUE /\ UNCHANGED worked
       \/ Answer(BadResponse) /\ litter' \in SUBSET {"out"} /\ failed' = TRUE /\ UNCHANGED worked
    /\ UNCHANGED <<kind, given, parsed, onlyLocal, picDefault, retries>>

\* Back in Process: the object is written to the output path.
WriteObject ==
    /\ pc = "write" /\ \E a \in {"ok", "error"} : Answer(a)
    /\ UNCHANGED <<kind, given, parsed, work, onlyLocal, ran, picDefault, litter, failed, worked, retries>>

----------------------------------------------------------------------------
(* The sleep toolchain: the program itself runs, here or on the agent. *)

ExecCommandTask == ran' = work.Args /\ worked' \in BOOLEAN
SleepLocal ==
    /\ pc = "started" /\ kind = "sleep" /\ ExecCommandTask
    /\ Answer(IF worked' THEN "ok" ELSE "error")
    /\ UNCHANGED <<kind, given, parsed, work, onlyLocal, picDefault, litter, failed, retries>>
SleepSend ==
    /\ pc = "started" /\ kind = "sleep" /\ pc' = "agent"
    /\ UNCHANGED <<kind, given, parsed, work, onlyLocal, ran, picDefault, litter, failed, worked,
                   retries, answer>>

\* What Compile returns is not looked at: not the agent's result, and not the
\* scheduler's request to try again when it has no agent.
SleepRecv ==
    /\ pc = "agent" /\ kind = "sleep" /\ Answer("ok")
    /\ ExecCommandTask \/ UNCHANGED <<ran, worked>>
    /\ UNCHANGED <<kind, given, parsed, work, onlyLocal, picDefault, litter, failed, retries>>

CompileStep ==
    \/ ParseRequest \/ Attempt \/ RunLocal \/ RunPreprocessor \/ SendRemote
    \/ NoAgents \/ Disconnected \/ Receive \/ Compile \/ WriteObject
    \/ SleepLocal \/ SleepSend \/ SleepRecv
CompileSpec == CompileInit /\ [][CompileStep]_requestVars

----------------------------------------------------------------------------
\* Every attempt starts from the arguments as they were parsed, whatever an
\* earlier attempt on another runner did to them ("each retry starts with the
\* original arguments, not modified ones").
AttemptStartsFresh == pc = "started" => work = parsed

\* An argument list that may be compiled remotely still names its input when the
\* agent parses what is left of it, so that Process finds ap.Args[InputArgIndex].
AgentFindsInput == answer # "panic"

OneAction == Cardinality({i \in DOMAIN given : given[i] \in {"-c", "-S"}}) = 1

\* After the preprocessor the action is what the request asked for: the agent
\* compiles with -c or -S as given.
ActionSurvives ==
    pc = "agent" /\ OneAction => ActionOpt(work) = ActionOpt(parsed)

\* What the agent's compiler runs is the request without the preprocessor's and
\* the linker's options, on the temporary files, and with the kind of code that
\* the consumer's compiler would have generated.
AgentRunsTheRest ==
    pc = "write" =>
        /\ \A i \in DOMAIN ran : ran[i] \notin LocalArgsNoValues \cup LocalPrefixArgs
        /\ Contains(ran, "tmp.c") /\ Contains(ran, "tmp.o")
        /\ \A f \in PICArgs : Has(parsed, f) => Contains(ran, f)
        /\ (\A f \in PICArgs : ~Has(parsed, f)) => (Contains(ran, "-fPIC") = picDefault)

\* A compile request that is answered with success was compiled, here or on an agent,
\* by the last of its attempts (send.go:183-220).  Not so for the sleep toolchain, whose
\* sender answers with success whatever it gets back (sleep/controller/send.go:48-64).
OkOnlyIfCompiled == answer = "ok" /\ kind = "cc" => worked

\* A request that is answered with success leaves no temporary file on the agent.
LitterOnlyOnError == pc \in {"write", "done"} /\ ~failed => litter = {}

\* A compile request is compiled as it was asked for: from fresh arguments at every
\* attempt, with its input, its action and its kind of code, and when it is answered
\* with success it was compiled and left nothing behind (send.go:131-220, recv.go:38-102).
CompilesAsAsked ==
    /\ AttemptStartsFresh /\ AgentFindsInput /\ ActionSurvives /\ AgentRunsTheRest
    /\ OkOnlyIfCompiled /\ LitterOnlyOnError
=============================================================================
