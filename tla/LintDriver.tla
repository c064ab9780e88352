------------------------------ MODULE LintDriver ------------------------------
(***************************************************************************)
(* .ci/cpplint.py, the linter that .ci/lint.sh runs over the sources: from *)
(* the command line to the exit status.  What is global in the program is  *)
(* a variable here: the filters and their backup, the settings a flag or a *)
(* CPPLINT.cfg may change, the NOLINT suppressions and the counters.       *)
(*                                                                         *)
(* The checks themselves are data: a file comes with what each check finds *)
(* in it, and the module decides which of it is printed.  A category such  *)
(* as build/include_order is the sequence of its parts, so that a filter   *)
(* matches the categories it is a prefix of.                               *)
(***************************************************************************)
EXTENDS Integers, FiniteSets, SequencesExt, FiniteSetsExt

CONSTANTS
  Flags,        \* command lines by name: a sequence of options
  Orders,       \* the sequences of file names that follow the options
  FileOf,       \* file name -> what the linter sees of the file
  Dirs,         \* directories
  Configs,      \* config name -> the options of such a CPPLINT.cfg
  CfgChoices,   \* which config each directory may have
  Known,        \* _ERROR_CATEGORIES
  Legacy,       \* _LEGACY_ERROR_CATEGORIES
  CSuppressed, KernelSuppressed,  \* _DEFAULT_C_SUPPRESSED_CATEGORIES, ..KERNEL..
  DefaultFilters

All == <<"*">>
Defaults == [linelength |-> 80, root |-> "", headers |-> {"hpp"},
             extensions |-> {"hpp", "cpp", "h"}]

Findings == [line : Nat, cat : Known, conf : 0..5]
Rules == [sign : STRING, of : Seq(STRING)]   \* what a filter is a list of

ASSUME LintAssumption ==
  /\ \A order \in Orders : order # <<>> /\ order \in Seq(DOMAIN FileOf)
  /\ \A f \in Range(FileOf) :
       /\ f.dirs \in Seq(Dirs) /\ f.dirs # <<>>
       /\ f.opencomment \in Nat /\ f.guard.ifndef \in Nat /\ f.guard.endif \in Nat
       /\ f.after \in Seq(Findings) /\ f.crlf \in Seq(Nat)
       /\ f.lines \in Seq(Range(f.lines))
       /\ \A line \in Range(f.lines) :
            line.finds \in Seq(Findings) /\ Cardinality(line.nolint) <= 1
  /\ {<<"build", "/header_guard">>, <<"legal", "/copyright">>, <<"whitespace", "/newline">>,
      <<"whitespace", "/line_length">>, <<"readability", "/multiline_comment">>,
      <<"readability", "/nolint">>} \subseteq Known
  /\ \A choice \in CfgChoices :
       DOMAIN choice = Dirs /\ Range(choice) \subseteq DOMAIN Configs
  /\ \A options \in Range(Configs) \cup Range(Flags) :
       /\ options \in Seq(Range(options))
       /\ \A o \in Range(options) : o.name = "filter" => o.val \in Seq(Rules)
  /\ DefaultFilters \in Seq(Rules)
  /\ All \notin Known \cup Legacy /\ <<"legal", "/copyright">> \notin CSuppressed \cup KernelSuppressed

VARIABLES flags, names, cfg,       \* the input: fixed once chosen
          pc, todo, level, at,     \* files left, config level, line
          filters, filtersBackup, verbose, counting,
          settings,                \* _line_length, _root, _hpp_headers, ...
          cfgFilters,              \* cfg_filters, nearest directory first
          sup, globalSup,          \* _error_suppressions: <<category, line>>
          report,                  \* what each step has printed: errors of a file
          errorCount, byCategory

input == <<flags, names, cfg>>
fvars == <<filters, filtersBackup>>
supvars == <<sup, globalSup>>
counts == <<report, errorCount, byCategory>>
vars == <<input, pc, todo, level, at, fvars, verbose, counting, settings,
          cfgFilters, supvars, counts>>

Cur == FileOf[Head(todo)]
Err(line, cat, conf) == [line |-> line, cat |-> cat, conf |-> conf]
Goto(label) == pc' = label

Init ==
  /\ flags \in DOMAIN Flags /\ names \in Orders /\ cfg \in CfgChoices
  /\ pc = "args" /\ todo = names /\ level = 1 /\ at = 0
  /\ filters = DefaultFilters /\ filtersBackup = DefaultFilters
  /\ verbose = 1 /\ counting = "total" /\ settings = Defaults
  /\ cfgFilters = <<>> /\ sup = {} /\ globalSup = {}
  /\ report = <<>> /\ errorCount = 0 /\ byCategory = [k \in {} |-> 0]

-------------------------------------------------------------------------------
\* Suppression, filters and counters.

\* The NOLINT comment of a line: what it names and on which line it acts.
Marks(f, n) ==
  IF n \notin DOMAIN f.lines THEN {}
  ELSE {<<m.cat, IF m.next THEN n + 1 ELSE n>> : m \in f.lines[n].nolint}

ParseNolintSuppressions(f, n) == {m \in Marks(f, n) : m[1] \in Known \cup {All}}

UnknownNolint(f, n) ==
  IF \E m \in Marks(f, n) : m[1] \notin Known \cup Legacy \cup {All}
  THEN <<Err(n, <<"readability", "/nolint">>, 5)>> ELSE <<>>

IsErrorSuppressedByNolint(e, s, g) ==
  e.cat \in g \/ <<e.cat, e.line>> \in s \/ <<All, e.line>> \in s

Filtered(fs, cat) ==
  FoldLeft(LAMBDA off, f : IF IsPrefix(f.of, cat) THEN f.sign = "-" ELSE off,
           FALSE, fs)

ShouldPrintError(e, s, g) ==
  /\ ~IsErrorSuppressedByNolint(e, s, g)
  /\ e.conf >= verbose
  /\ ~Filtered(filters, e.cat)

Key(cat) == IF counting = "detailed" THEN cat ELSE <<Head(cat)>>

\* How many of the errors are counted under k.
Share(errs, k) == Cardinality({i \in DOMAIN errs : Key(errs[i].cat) = k})

Keys(errs) == {Key(errs[i].cat) : i \in DOMAIN errs}

\* Slip: the first error of a category is not counted.
BumpFromZero(tally, errs) ==
  [k \in DOMAIN tally \cup Keys(errs) |->
     IF k \in DOMAIN tally THEN tally[k] + Share(errs, k) ELSE Share(errs, k) - 1]

Bump(tally, errs) ==
  [k \in DOMAIN tally \cup Keys(errs) |->
     (IF k \in DOMAIN tally THEN tally[k] ELSE 0) + Share(errs, k)]

\* Those of the errors that are printed, each still at its place.
Shown(errs, s, g) ==
  [i \in {j \in DOMAIN errs : ShouldPrintError(errs[j], s, g)} |-> errs[i]]

\* Error, called for each of errs in turn, with suppressions s and g.
Error(errs, s, g) ==
  LET shown == Shown(errs, s, g) IN
  /\ report' = Append(report, [file |-> Head(todo), errors |-> shown])
  /\ errorCount' = errorCount + Cardinality(DOMAIN shown)
  /\ byCategory' = IF counting = "total" THEN byCategory ELSE Bump(byCategory, shown)

-------------------------------------------------------------------------------
\* The command line.  A filter without a sign raises ValueError.
SignedAll(fs) == \A i \in DOMAIN fs : fs[i].sign \in {"+", "-"}

Headers(s, val) == [s EXCEPT !.headers = val, !.extensions = @ \cup val]

Option(s, o) ==
  CASE o.name = "linelength" -> [s EXCEPT !.linelength = o.val]
    [] o.name = "root"       -> [s EXCEPT !.root = o.val]
    [] o.name = "headers"    -> Headers(s, o.val)
    [] o.name = "extensions" -> [s EXCEPT !.extensions = o.val]
    [] OTHER                 -> s

LastOf(options, name, default) ==
  FoldLeft(LAMBDA v, o : IF o.name = name THEN o.val ELSE v, default, options)

Given(name, default) == LastOf(Flags[flags], name, default)

ParseArguments ==
  /\ pc = "args"
  /\ settings' = FoldLeft(Option, settings, Flags[flags])
  /\ verbose' = Given("verbose", verbose)
  /\ filters' = DefaultFilters \o Given("filter", <<>>)
  /\ counting' = Given("counting", counting)
  /\ Goto(IF SignedAll(filters') THEN "next" ELSE "crash")
  /\ UNCHANGED <<input, todo, level, at, filtersBackup, cfgFilters, supvars, counts>>

-------------------------------------------------------------------------------
\* main's loop and ProcessFile.  RestoreFilters also leaves the file.
BackupFilters == filtersBackup' = filters

RestoreFilters ==
  /\ filters' = filtersBackup
  /\ todo' = Tail(todo) /\ Goto("next") /\ UNCHANGED filtersBackup

ProcessFile ==
  /\ pc = "next" /\ todo # <<>>
  /\ BackupFilters
  /\ level' = 1 /\ cfgFilters' = <<>>
  /\ Goto("config")
  /\ UNCHANGED <<input, todo, at, filters, verbose, counting, settings, supvars, counts>>

\* ProcessConfigOverrides, one directory at a time.  Each CPPLINT.cfg is read
\* to its end unless it excludes the file.
BaseName == IF level = 1 THEN Head(todo) ELSE Cur.dirs[level - 1]

ReadOption(acc, o) ==
  IF acc.excluded THEN acc
  ELSE CASE o.name = "noparent" -> [acc EXCEPT !.look = FALSE]
         [] o.name = "filter" -> [acc EXCEPT !.filters = Append(@, o.val)]
         [] o.name = "exclude_files" -> [acc EXCEPT !.excluded = BaseName \in o.val]
         [] o.name \in {"linelength", "root", "headers"} -> [acc EXCEPT !.settings = Option(@, o)]
         [] OTHER -> acc

ReadConfig(options) ==
  FoldLeft(ReadOption, [look |-> TRUE, excluded |-> FALSE,
                        filters |-> cfgFilters, settings |-> settings], options)

\* Slip: a directory without a CPPLINT.cfg is looked at again and again.
ProcessConfigOverridesStuck ==
  /\ pc = "config"
  /\ LET options == Configs[cfg[Cur.dirs[level]]]
         got == ReadConfig(options) IN
     /\ settings' = got.settings
     /\ cfgFilters' = got.filters
     /\ level' = IF options = <<>> THEN level ELSE level + 1
     /\ IF got.excluded THEN RestoreFilters
        ELSE /\ Goto(IF got.look /\ level < Len(Cur.dirs) THEN "config" ELSE "filters")
             /\ UNCHANGED <<fvars, todo>>
  /\ UNCHANGED <<input, at, verbose, counting, supvars, counts>>

ProcessConfigOverrides ==
  /\ pc = "config"
  /\ LET got == ReadConfig(Configs[cfg[Cur.dirs[level]]]) IN
     /\ settings' = got.settings
     /\ cfgFilters' = got.filters
     /\ level' = level + 1
     /\ IF got.excluded THEN RestoreFilters
        ELSE /\ Goto(IF got.look /\ level < Len(Cur.dirs) THEN "config" ELSE "filters")
             /\ UNCHANGED <<fvars, todo>>
  /\ UNCHANGED <<input, at, verbose, counting, supvars, counts>>

AddFilters ==
  /\ pc = "filters"
  /\ filters' = filters \o FlattenSeq(Reverse(cfgFilters))
  /\ Goto(IF SignedAll(filters') THEN "open" ELSE "crash")
  /\ UNCHANGED <<input, todo, level, at, filtersBackup, verbose, counting, settings,
                 cfgFilters, supvars, counts>>

\* The file cannot be read, or its extension is none of the valid ones.
Skip ==
  /\ pc = "open"
  /\ ~Cur.readable \/ Cur.ext \notin settings.extensions
  /\ RestoreFilters
  /\ UNCHANGED <<input, level, at, verbose, counting, settings, cfgFilters, supvars, counts>>

-------------------------------------------------------------------------------
\* ProcessFileData.  What comes before the lines: the copyright message, an
\* unterminated comment, the header guard.

IsHeaderExtension(f) == f.ext \in settings.headers

ProcessGlobalSuppressions(f) ==
  (IF f.cfile THEN CSuppressed ELSE {}) \cup (IF f.kernel THEN KernelSuppressed ELSE {})

\* Slip: the suppressions of the file before are kept.
StaleSuppressions == sup

ResetNolintSuppressions == {}

FirstErrors(f) ==
  (IF f.copyright THEN <<>> ELSE <<Err(0, <<"legal", "/copyright">>, 5)>>) \o
  (IF f.opencomment = 0 THEN <<>>
   ELSE <<Err(f.opencomment, <<"readability", "/multiline_comment">>, 5)>>)

\* Where CheckForHeaderGuard goes first: to the message that there is no guard,
\* to the #ifndef, if its name is not right for the root in force, or to the
\* #endif, which it looks at in any case.
GuardStart(f) ==
  IF ~IsHeaderExtension(f) \/ f.guard.nolint THEN "lines"
  ELSE IF ~f.guard.defined THEN "noguard"
  ELSE IF f.guard.name[settings.root] # "right" THEN "ifndef" ELSE "endif"

ProcessFileData ==
  /\ pc = "open" /\ Cur.readable /\ Cur.ext \in settings.extensions
  /\ sup' = ResetNolintSuppressions
  /\ globalSup' = ProcessGlobalSuppressions(Cur)
  /\ Error(FirstErrors(Cur), sup', globalSup')
  /\ at' = 1 /\ Goto(GuardStart(Cur))
  /\ UNCHANGED <<input, todo, level, fvars, verbose, counting, settings, cfgFilters>>

\* Line n is searched for NOLINT, and then errs are raised.
ReadLine(n, errs) ==
  /\ sup' = sup \cup ParseNolintSuppressions(Cur, n)
  /\ Error(errs, sup', globalSup)
  /\ UNCHANGED <<input, todo, level, fvars, verbose, counting, settings, cfgFilters, globalSup>>

StyleErrors(n, style) ==
  IF style = "right" THEN <<>>
  ELSE <<Err(n, <<"build", "/header_guard">>, IF style = "deprecated" THEN 0 ELSE 5)>>

NoGuardErrors == StyleErrors(0, "none")

IfndefErrors(f) ==
  UnknownNolint(f, f.guard.ifndef) \o StyleErrors(f.guard.ifndef, f.guard.name[settings.root])

EndifErrors(f) ==
  UnknownNolint(f, f.guard.endif) \o StyleErrors(f.guard.endif, f.guard.comment[settings.root])

MissingGuard ==
  /\ pc = "noguard"
  /\ Error(NoGuardErrors, sup, globalSup)
  /\ Goto("lines")
  /\ UNCHANGED <<input, todo, level, at, fvars, verbose, counting, settings, cfgFilters, supvars>>

CheckIfndef ==
  /\ pc = "ifndef"
  /\ ReadLine(Cur.guard.ifndef, IfndefErrors(Cur))
  /\ Goto("endif") /\ UNCHANGED at

CheckEndif ==
  /\ pc = "endif"
  /\ ReadLine(Cur.guard.endif, EndifErrors(Cur))
  /\ Goto("lines") /\ UNCHANGED at

\* What the checks find on line n, those of ProcessLine that come after the
\* nesting only outside a block of assembly.
LineErrors(f, n) ==
  LET line == f.lines[n] IN
  UnknownNolint(f, n) \o line.finds \o
  (IF ~line.asm /\ line.width > settings.linelength
   THEN <<Err(n, <<"whitespace", "/line_length">>, 2)>> ELSE <<>>)

ProcessLine ==
  /\ pc = "lines" /\ at <= Len(Cur.lines)
  /\ ReadLine(at, LineErrors(Cur, at))
  /\ at' = at + 1 /\ UNCHANGED pc

\* After the lines: open blocks, missing includes, bad characters, the end of
\* the file; then ProcessFile reports CR in a file that mixes line endings.
CrlfErrors(f) ==
  IF Len(f.crlf) = Len(f.lines) THEN <<>>
  ELSE [i \in DOMAIN f.crlf |-> Err(f.crlf[i], <<"whitespace", "/newline">>, 1)]

LastErrors(f) == f.after \o CrlfErrors(f)

FinishFile ==
  /\ pc = "lines" /\ at > Len(Cur.lines)
  /\ Error(LastErrors(Cur), sup, globalSup)
  /\ RestoreFilters
  /\ UNCHANGED <<input, level, at, verbose, counting, settings, cfgFilters, supvars>>

Exit ==
  /\ pc = "next" /\ todo = <<>>
  /\ Goto(IF errorCount > 0 THEN "exit1" ELSE "exit0")
  /\ UNCHANGED <<input, todo, level, at, fvars, verbose, counting, settings,
                 cfgFilters, supvars, counts>>

Next ==
  \/ ParseArguments \/ ProcessFile \/ ProcessConfigOverrides \/ AddFilters
  \/ Skip \/ ProcessFileData \/ MissingGuard \/ CheckIfndef \/ CheckEndif
  \/ ProcessLine \/ FinishFile \/ Exit

\* Nothing else runs: the program goes on until it ends.
Spec == Init /\ [][Next]_vars /\ WF_vars(Next)

-------------------------------------------------------------------------------
\* What the documentation of the linter promises, stated without its state.

ConfigOf(f, i) == Configs[cfg[f.dirs[i]]]
Has(options, name) == \E j \in DOMAIN options : options[j].name = name
FilterLines(options) ==
  FoldLeft(LAMBDA vals, o : IF o.name = "filter" THEN Append(vals, o.val) ELSE vals,
           <<>>, options)

\* The directories whose CPPLINT.cfg acts on f, nearest first.
Levels(f) == {i \in DOMAIN f.dirs : \A j \in 1..(i - 1) : ~Has(ConfigOf(f, j), "noparent")}

FiltersFor(f) ==
  DefaultFilters \o Given("filter", <<>>) \o
  FlattenSeq(Reverse(FlattenSeq(
    [i \in 1..Cardinality(Levels(f)) |-> FilterLines(ConfigOf(f, i))])))

ExcludedAt(name, i) ==
  LET f == FileOf[name]
      base == IF i = 1 THEN name ELSE f.dirs[i - 1]
  IN \E j \in DOMAIN ConfigOf(f, i) :
       LET o == ConfigOf(f, i)[j] IN o.name = "exclude_files" /\ base \in o.val

Linted(name) ==
  LET f == FileOf[name] IN
  /\ f.readable /\ f.ext \in settings.extensions
  /\ \A i \in Levels(f) : ~ExcludedAt(name, i)

\* Every error of f with the lines whose comments are read before it is raised.
Raised(f) ==
  LET after(read, errs) == {<<read, e>> : e \in ToSet(errs)}
      start == GuardStart(f)
      ifndef == IF start = "ifndef" THEN {f.guard.ifndef} ELSE {}
      guard == IF start \in {"ifndef", "endif"} THEN ifndef \cup {f.guard.endif} ELSE {}
  IN after({}, FirstErrors(f)) \cup
     (IF start = "noguard" THEN after({}, NoGuardErrors) ELSE {}) \cup
     (IF start = "ifndef" THEN after(ifndef, IfndefErrors(f)) ELSE {}) \cup
     (IF start \in {"ifndef", "endif"} THEN after(guard, EndifErrors(f)) ELSE {}) \cup
     (UNION {after(guard \cup 1..n, LineErrors(f, n)) : n \in DOMAIN f.lines}) \cup
     after(guard \cup DOMAIN f.lines, LastErrors(f))

NolintBy(f, read) == UNION {ParseNolintSuppressions(f, n) : n \in read}

LastMatch(fs, cat) ==
  LET hits == {i \in DOMAIN fs : IsPrefix(fs[i].of, cat)} IN
  IF hits = {} THEN "+" ELSE fs[Max(hits)].sign

Expected(name) ==
  LET f == FileOf[name] IN
  IF ~Linted(name) THEN {}
  ELSE {r[2] : r \in {x \in Raised(f) :
          /\ x[2].conf >= verbose
          /\ LastMatch(FiltersFor(f), x[2].cat) # "-"
          /\ ~IsErrorSuppressedByNolint(x[2], NolintBy(f, x[1]),
                                        ProcessGlobalSuppressions(f))}}

\* The configs only filter and exclude.
FilteringConfigs ==
  \A options \in Range(Configs) : \A o \in Range(options) :
    o.name \notin {"linelength", "root", "headers"}

Done == {names[i] : i \in 1..(Len(names) - Len(todo))}
PrintedOf(name) == UNION {Range(r.errors) : r \in {x \in ToSet(report) : x.file = name}}

\* The printed errors as places in the report.
Printed == UNION {{b} \X DOMAIN report[b].errors : b \in DOMAIN report}
KeyAt(p) == Key(report[p[1]].errors[p[2]].cat)

-------------------------------------------------------------------------------
\* ProcessFileData and Error: what is printed of a file depends on that file,
\* the flags and the CPPLINT.cfg files above it, and on nothing that was
\* linted before: no suppression, filter or exclusion outlives its file.
\* (The settings of a CPPLINT.cfg do, so Expected takes them as they are and
\* the property is meant for FilteringConfigs.)
PrintedAlone ==
  pc = "next" => \A name \in Done : PrintedOf(name) = Expected(name)

\* main: the exit status, the total and the counts by category are those of
\* the errors that were printed.
CountsAgree ==
  /\ errorCount = Cardinality(Printed)
  /\ counting # "total" =>
       /\ DOMAIN byCategory = {KeyAt(p) : p \in Printed}
       /\ \A k \in DOMAIN byCategory : byCategory[k] = Cardinality({p \in Printed : KeyAt(p) = k})
  /\ pc \in {"exit0", "exit1"} => (pc = "exit1" <=> Printed # {})

\* main ends: the search for CPPLINT.cfg files and the loop over the lines do.
Ends == <>(pc \in {"exit0", "exit1", "crash"})
===============================================================================
