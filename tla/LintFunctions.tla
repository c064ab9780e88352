----------------------------- MODULE LintFunctions ----------------------------
(***************************************************************************)
(* .ci/cpplint.py, CheckForFunctionLengths and _FunctionState: the linter  *)
(* counts the lines of an unindented function from its head to an          *)
(* unindented closing brace, and complains of a long one.                  *)
(*                                                                         *)
(* A line is what the check sees of it.  head: whether it begins like a    *)
(* function ("test" for a name that begins with TEST or Test; the name of  *)
(* a macro does not count).  mark: "stop" if it contains a semicolon or a  *)
(* closing brace, else "open" if it contains an opening one.  end: it is   *)
(* nothing but an unindented closing brace.  Lines in assembler blocks are *)
(* not passed to the check and left out.                                   *)
(***************************************************************************)
EXTENDS Integers, FiniteSets, SequencesExt

CONSTANTS Kinds,           \* the kinds of line
          MaxLines,        \* bound: lines of the file
          NormalTrigger,   \* _NORMAL_TRIGGER, 250 in the code
          TestTrigger,     \* _TEST_TRIGGER, 400
          MaxConfidence    \* the highest confidence, 5

FunctionsAssumption ==
  /\ Kinds \subseteq [head : {"no", "plain", "test"}, mark : {"none", "stop", "open"},
                      end : BOOLEAN, blank : BOOLEAN]
  /\ \A k \in Kinds : /\ k.end => k.head = "no" /\ k.mark = "stop"
                      /\ k.blank => k.head = "no" /\ k.mark = "none"
  /\ {MaxLines, MaxConfidence} \subseteq Nat
  /\ {NormalTrigger, TestTrigger} \subseteq Nat \ {0}

\* Powers of 2 grow: a fact about numbers that the provers do not know.
PowersGrow ==
  \A c, d \in 0..MaxConfidence + 1 : 2^c \in Nat /\ (c <= d => 2^c <= 2^d)

VARIABLES file,        \* the lines
          verbose,     \* _VerboseLevel()
          n,           \* the line to process next
          function,    \* current_function: its kind of head
          inFunction,  \* in_a_function
          count,       \* lines_in_function
          reports      \* what error was called with

state == <<function, inFunction, count>>
vars == <<file, verbose, n, state, reports>>

Init ==
  /\ file \in BoundedSeq(Kinds, MaxLines) /\ verbose \in 0..MaxConfidence
  /\ n = 1 /\ function = "plain" /\ inFunction = FALSE /\ count = 0 /\ reports = {}

-------------------------------------------------------------------------------
Base(f) == IF f = "test" THEN TestTrigger ELSE NormalTrigger
Trigger(f) == Base(f) * 2^verbose

\* The first line from i on that says whether a body follows, 0 if none does.
BodyLine(i) == SelectInSubSeq(file, i, Len(file), LAMBDA k : k.mark # "none")

\* int(math.log(size / base, 2)), at most MaxConfidence
Confidence(size, f) ==
  CHOOSE c \in 0..MaxConfidence :
    /\ Base(f) * 2^c <= size
    /\ c < MaxConfidence => size < Base(f) * 2^(c + 1)

SizeReport(line, f, size) ==
  [what |-> "size", line |-> line, function |-> f, size |-> size,
   confidence |-> Confidence(size, f)]

-------------------------------------------------------------------------------
Processing == n <= Len(file) /\ n' = n + 1 /\ UNCHANGED <<file, verbose>>

\* A head whose body or end is nowhere in the file.
NoBody ==
  /\ Processing /\ file[n].head # "no" /\ BodyLine(n) = 0
  /\ reports' = reports \cup
       {[what |-> "start", line |-> n, confidence |-> MaxConfidence]}
  /\ UNCHANGED state

\* A declaration, or a body on the line of its head.
Trivial ==
  /\ Processing /\ file[n].head # "no" /\ BodyLine(n) # 0
  /\ file[BodyLine(n)].mark = "stop"
  /\ UNCHANGED <<state, reports>>

\* Slip: the count goes on from the function before.
BeginUncounted ==
  /\ Processing /\ file[n].head # "no" /\ BodyLine(n) # 0
  /\ file[BodyLine(n)].mark = "open"
  /\ inFunction' = TRUE /\ function' = file[n].head
  /\ UNCHANGED <<count, reports>>

Begin ==
  /\ Processing /\ file[n].head # "no" /\ BodyLine(n) # 0
  /\ file[BodyLine(n)].mark = "open"
  /\ inFunction' = TRUE /\ function' = file[n].head /\ count' = 0
  /\ UNCHANGED reports

\* Check and End.
End ==
  /\ Processing /\ file[n].end
  /\ reports' = IF inFunction /\ count > Trigger(function)
                THEN reports \cup {SizeReport(n, function, count)} ELSE reports
  /\ inFunction' = FALSE /\ UNCHANGED <<function, count>>

Count ==
  /\ Processing /\ file[n].head = "no" /\ ~file[n].end
  /\ count' = IF inFunction /\ ~file[n].blank THEN count + 1 ELSE count
  /\ UNCHANGED <<inFunction, function, reports>>

Next == NoBody \/ Trivial \/ Begin \/ End \/ Count

Spec == Init /\ [][Next]_vars

-------------------------------------------------------------------------------
\* The functions of the file, each as the lines of its head and of its end, a
\* head being followed by an opening brace before a semicolon or closing brace.
IsHead(i) == file[i].head # "no" /\ BodyLine(i) # 0 /\ file[BodyLine(i)].mark = "open"
IsFunction(h, e) ==
  /\ h < e /\ IsHead(h) /\ file[e].end
  /\ \A i \in h + 1..e - 1 : ~IsHead(i) /\ ~file[i].end
Functions == {f \in (1..Len(file)) \X (1..Len(file)) : IsFunction(f[1], f[2])}
Size(h, e) ==
  Cardinality({i \in h + 1..e - 1 : file[i].head = "no" /\ ~file[i].blank})

\* The functions complained of are those with more lines than the trigger for
\* their kind and the verbosity, each once, at its end and with its own size:
\* nothing is counted for another function than the one it stands in (Begin,
\* Count, Check and End share one _FunctionState for the whole file).
OversizeReported ==
  {r \in reports : r.what = "size"} =
  {SizeReport(f[2], file[f[1]].head, Size(f[1], f[2])) :
     f \in {f \in Functions : /\ f[2] < n
                              /\ Size(f[1], f[2]) > Trigger(file[f[1]].head)}}

\* A size that exceeds the trigger is reported with a confidence that the same
\* verbosity lets through: the trigger doubles with each level and the
\* confidence grows with each doubling (Check against _ShouldPrintError).
SureEnoughToPrint == \A r \in reports : r.confidence >= verbose
===============================================================================
