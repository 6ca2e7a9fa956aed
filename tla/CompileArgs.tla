---------------------------- MODULE CompileArgs ----------------------------
(* ArgParser (pkg/cc/args.go, filename.go): the operations on a compiler's     *)
(* argument list.  An argument is one of the words below, which stand for the  *)
(* classes the parser tells apart: a path by its extension, "-Idir" for every  *)
(* option that starts with one of LocalPrefixArgs, "-march=native" for every   *)
(* option that only forbids remote compilation.                                *)
EXTENDS Integers, Sequences, SequencesExt, FiniteSets

Ext(a) == CASE a \in {"a.c", "conftest.c"} -> ".c"
            [] a \in {"x.o", "/x.o", "a.o", "tmp.o"} -> ".o"
            [] a \in {"a.s", "tmp.s"} -> ".s"
            [] a \in {"x.so", "tmp.so"} -> ".so"
            [] OTHER -> ""
IsSourceFile(a) == Ext(a) \in {".c", ".s"}
ShouldRunLocal(a) == a = "conftest.c"
ReplaceExtension(a, ext) ==
    IF a \notin {"a.c", "conftest.c"} THEN "x.o" ELSE IF ext = ".o" THEN "a.o" ELSE "a.s"

LocalArgsWithValues == {"-I", "-MF"}
LocalArgsNoValues == {"-MD"}
LocalPrefixArgs == {"-Idir", "-I", "-MF", "-Wp,-MD,dep", "-Wp,-M"}
PICArgs == {"-fPIC", "-fno-pic"}
Unsupported == {"-flto", "-pedantic"}
Options == LocalArgsWithValues \cup LocalArgsNoValues \cup LocalPrefixArgs \cup PICArgs
           \cup Unsupported \cup {"-c", "-S", "-E", "-o", "-o/x.o", "-M", "-march=native", "-x"}

----------------------------------------------------------------------------
(* Parse.  An index of 0 stands for -1. *)

Mapped == {"-c", "-S", "-E"} \cup PICArgs     \* the flags FlagIndexMap is asked for
standardize(args) ==
    LET i == SelectInSeq(args, LAMBDA a : a = "-o/x.o")
    IN IF i = 0 THEN args ELSE InsertAt(ReplaceAt(args, i, "/x.o"), i, "-o")
stripUnsupportedArgs(args) == SelectSeq(args, LAMBDA a : a \notin Unsupported)

NewArgParser(args) ==
    [Args |-> args, Mode |-> "unset", InputArgIndex |-> 0, OutputArgIndex |-> 0,
     FlagIndexMap |-> [f \in Mapped |-> 0]]

\* "-o" and the path after it.
ParseOutput(p, i) ==
    LET last == i = Len(p.Args)
        ext == IF last THEN "" ELSE Ext(p.Args[i + 1])
        twice == ext = ".o" /\ p.OutputArgIndex # 0
    IN [p EXCEPT !.Mode = IF ext = "" \/ twice THEN "local" ELSE @,
                 !.OutputArgIndex = IF last THEN @ ELSE i + 1, !.skip = ~last]

ParseOption(p, i, a) ==
    LET q == IF a \in Mapped THEN [p EXCEPT !.FlagIndexMap[a] = i] ELSE p IN
    CASE a = "-o" -> ParseOutput(p, i)
      [] a \in {"-E", "-M", "-march=native"} -> [q EXCEPT !.Mode = "local"]
      [] a = "-x" ->
           LET odd == i < Len(p.Args) /\ p.Args[i + 1] # "c"
           IN [p EXCEPT !.skip = TRUE, !.Mode = IF odd THEN "local" ELSE @]
      [] a \in LocalArgsWithValues -> [p EXCEPT !.skip = TRUE]
      [] OTHER -> q

ParseWord(p, i) ==
    LET a == p.Args[i] IN
    CASE p.skip -> [p EXCEPT !.skip = FALSE]
      [] ~p.skip /\ a \in Options -> ParseOption(p, i, a)
      [] ~p.skip /\ a \notin Options /\ IsSourceFile(a) ->
           [p EXCEPT !.InputArgIndex = i, !.Mode = IF p.InputArgIndex = 0 THEN @ ELSE "local"]
      [] OTHER -> p

\* Op(x), with x evaluated once.
Strict(Op(_), x) == CHOOSE y \in {Op(v) : v \in {x}} : TRUE
ParseArg(p, i) == Strict(LAMBDA v : ParseWord(v, i), p)

PastTheEnd(args) == Len(args) + 3                         \* mutant of NewOutputIndex
NewOutputIndex(args) == Len(args) + 2

\* No output given: it is named after the input for -c and -S, a.out otherwise.
AddOutput(p, input) ==
    LET seen(f) == p.FlagIndexMap[f] # 0
        add(q, name) == [q EXCEPT !.Args = @ \o <<"-o", name>>,
                                  !.OutputArgIndex = NewOutputIndex(p.Args)] IN
    CASE p.OutputArgIndex # 0 -> p
      [] p.OutputArgIndex = 0 /\ (seen("-c") \/ seen("-S")) ->
           add(p, ReplaceExtension(input, IF seen("-S") THEN ".s" ELSE ".o"))
      [] OTHER -> IF p.InputArgIndex = 0 \/ seen("-E") THEN p
                  ELSE add([p EXCEPT !.Mode = "local"], "x")

\* Without input, or with one that is a special case.
LocalInput(input) == input = "" \/ ShouldRunLocal(input)
Finish(p) ==
    LET input == IF p.InputArgIndex = 0 THEN "" ELSE p.Args[p.InputArgIndex]
    IN AddOutput([p EXCEPT !.Mode = IF LocalInput(input) THEN "local" ELSE @], input)
ParseList(ap, args) ==
    LET start == [Mode |-> ap.Mode, skip |-> FALSE] @@ NewArgParser(args)
        q == Strict(Finish, FoldLeftDomain(ParseArg, start, args))
    IN [f \in DOMAIN ap |-> IF f = "Mode" /\ q.Mode = "unset" THEN "remote" ELSE q[f]]
Parse(ap) ==
    Strict(LAMBDA a : ParseList(a, stripUnsupportedArgs(standardize(a.Args))), ap)

CanRunRemote(ap) == ap.Mode = "remote"

----------------------------------------------------------------------------
(* The operations the controllers use. *)

Has(ap, f) == ap.FlagIndexMap[f] # 0
ActionOpt(ap) == CASE Has(ap, "-c") -> "-c"
                   [] ~Has(ap, "-c") /\ Has(ap, "-S") -> "-S"
                   [] OTHER -> IF Has(ap, "-E") THEN "-E" ELSE "none"

\* Without any of the three options this is an error nobody looks at.
SetActionOpt(ap, opt) ==
    LET old == ActionOpt(ap) IN
    IF old = "none" THEN ap
    ELSE LET i == ap.FlagIndexMap[old]
         IN [ap EXCEPT !.Args[i] = opt,
                       !.FlagIndexMap = [@ EXCEPT ![old] = 0, ![opt] = i]]

ReplaceOutputPath(ap, path) ==
    IF ap.OutputArgIndex = 0 THEN ap ELSE [ap EXCEPT !.Args[ap.OutputArgIndex] = path]

\* Appends -ffile-prefix-map as well.
ReplaceInputPath(ap, path) ==
    [ap EXCEPT !.Args = Append([@ EXCEPT ![ap.InputArgIndex] = path], "-ffile-prefix-map")]

Expand(a) == CASE a = "-Wp,-MD,dep" -> <<"-MD", "-MF", "dep">>
               [] a = "-Wp,-M" -> <<"-M">>
               [] OTHER -> <<a>>
ConfigurePreprocessorOptions(ap) ==
    Parse([ap EXCEPT !.Args = FlattenSeq([i \in DOMAIN @ |-> Expand(@[i])])])

RemoveWord(acc, a) ==
    CASE acc.skip -> [acc EXCEPT !.skip = FALSE]
      [] ~acc.skip /\ a \in LocalArgsWithValues -> [acc EXCEPT !.skip = TRUE]
      [] ~acc.skip /\ a \in LocalPrefixArgs \cup LocalArgsNoValues -> acc
      [] OTHER -> [acc EXCEPT !.args = Append(@, a)]
RemoveArg(acc, a) == Strict(LAMBDA v : RemoveWord(v, a), acc)
RemoveLocalArgs(ap) ==
    Parse([ap EXCEPT !.Args = FoldLeft(RemoveArg, [args |-> <<>>, skip |-> FALSE], @).args])

NeedsPIC(ap, picDefault) == picDefault /\ ~Has(ap, "-fPIC") /\ ~Has(ap, "-fno-pic")
PrependExplicitPICArgs(ap, picDefault) ==
    Parse(IF NeedsPIC(ap, picDefault) THEN [ap EXCEPT !.Args = <<"-fPIC">> \o @] ELSE ap)
=============================================================================
