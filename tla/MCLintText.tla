------------------------------- MODULE MCLintText -------------------------------
(***************************************************************************)
(* What the linter makes of the text of a file, on small instances: values *)
(* for the constants of LintText, and beside its checks those of braces,   *)
(* of comments and strings, and of brackets.                               *)
(***************************************************************************)
EXTENDS LintText

-------------------------------------------------------------------------------
(* The headers of a file foo/internal/bar_test.cc: one of each type for the    *)
(* order, two that branches include again for the duplicates.                  *)
H(dir, parts, ext, rank) ==
  [system |-> FALSE, cpp |-> FALSE, thirdparty |-> FALSE, dir |-> dir, parts |-> parts,
   ext |-> ext, rank |-> rank, readable |-> TRUE, includes |-> {}]
Sys(part, rank, cpp) ==
  [H(<<>>, <<part>>, "", rank) EXCEPT !.system = TRUE, !.cpp = cpp]

MCTarget == [dir |-> <<"foo", "internal">>, parts |-> <<"bar", "test">>, ext |-> "cc"]
Vector == Sys("vector", 6, TRUE)

MCUnordered ==
  [stdio |-> Sys("stdio.h", 5, FALSE), vector |-> Vector,
   bar |-> H(<<"foo", "public">>, <<"bar", "inl">>, "h", 2),
   util |-> H(<<"foo">>, <<"bar", "util">>, "h", 3), base |-> H(<<"base">>, <<"log">>, "h", 1),
   lua |-> [H(<<>>, <<"lua">>, "h", 7) EXCEPT !.thirdparty = TRUE],
   local |-> H(<<>>, <<"zeta">>, "h", 8), copy |-> H(<<"zip">>, <<"zip">>, "cc", 9)]
MCRepeated ==
  [vector |-> Vector,
   bar |-> [H(<<"foo", "internal">>, <<"bar">>, "h", 4) EXCEPT !.includes = {"map"}]]

MCRequired == {"vector", "map"}

-------------------------------------------------------------------------------
(* Kinds of lines, each with the C++ it stands for.                            *)
Line(tokens) ==
  [directive |-> "none", namespaces |-> <<>>, class |-> FALSE, template |-> FALSE,
   parens |-> 0, tokens |-> tokens, asm |-> FALSE, extern |-> FALSE,
   indented |-> FALSE, macro |-> FALSE, forward |-> FALSE]
Heads(l) == [l EXCEPT !.class = TRUE]
Indent(l) == [l EXCEPT !.indented = TRUE]
Pp(d) == [Line(<<>>) EXCEPT !.directive = d]

BlockLines ==
  [if |-> Pp("if"), else |-> Pp("else"), endif |-> Pp("endif"),
   namespace |-> [Line(<<>>) EXCEPT !.namespaces = <<TRUE>>],      \* namespace a {
   nested |-> [Line(<<"}">>) EXCEPT !.namespaces = <<TRUE, TRUE>>], \* namespace a { namespace b {}
   nshead |-> [Line(<<>>) EXCEPT !.namespaces = <<FALSE>>],        \* namespace a
   class |-> Heads(Line(<<"{">>)),                                  \* class A {
   inclass |-> Indent(Heads(Line(<<"{">>))),                        \*   class A {
   head |-> Heads(Line(<<>>)),                                      \* class A
   forward |-> Indent([Heads(Line(<<";">>)) EXCEPT !.forward = TRUE]), \*   class A;
   argument |-> Heads(Line(<<")", "{">>)),                          \* struct A f(struct B b) {
   call |-> [Line(<<>>) EXCEPT !.parens = 1],                      \* f(x,
   last |-> [Heads(Line(<<")", ";">>)) EXCEPT !.parens = -1],       \*   struct B b);
   template |-> [Heads(Line(<<>>)) EXCEPT !.template = TRUE],       \* template <class T>
   extern |-> [Line(<<"{">>) EXCEPT !.extern = TRUE],              \* extern "C" {
   asmblock |-> [Line(<<"{">>) EXCEPT !.asm = TRUE],               \* __asm {
   open |-> Line(<<"{">>), close |-> Line(<<"}">>), end |-> Line(<<"}", ";">>),
   oneline |-> Line(<<"{", ";", "}">>),                            \* void f() { g; }
   macro |-> [Indent(Heads(Line(<<"{">>))) EXCEPT !.macro = TRUE]]  \* part of a #define

Braces == INSTANCE LintNesting WITH
  Kinds <- BlockLines, MaxLines <- 4,
  Menu <- {"namespace", "nested", "head", "nshead", "forward", "argument", "open", "close",
           "end", "oneline", "extern"},
  errors <- complaints, finished <- ended

Indentation == INSTANCE LintNesting WITH
  Kinds <- BlockLines, MaxLines <- 4,
  Menu <- {"namespace", "inclass", "class", "forward", "template", "call", "last", "macro",
           "close", "asmblock"},
  errors <- complaints, finished <- ended

-------------------------------------------------------------------------------
(* Files of one line with up to five tokens, and of three shorter lines.       *)
Code == {"word", "number", "\"", "'", "//", "/*", "*/", "R\"(", ")\""}

LongLines == UNION {[1..n -> Code] : n \in 0..5} \cup [1..3 -> Code \cup {"\\c"}]

ShortLines ==
  {<<>>, <<"word">>, <<"/*">>, <<"*/">>, <<"R\"(", "/*">>, <<"R\"(">>, <<")\"", "word">>,
   <<"/*", "word">>, <<"word", "*/">>, <<"*/", "word">>, <<"\"", "//", "\"">>,
   <<"word", "//", "R\"(">>, <<"/*", "*/", "word">>, <<"\"", "/*", "\"">>}

OneLine == INSTANCE LintCleanse WITH LineSet <- LongLines, MaxLines <- 1
ThreeLines == INSTANCE LintCleanse WITH LineSet <- ShortLines, MaxLines <- 3

(* What can hide a bracket, and what angle brackets can be.                    *)
Brackets == INSTANCE LintExpressions WITH
  Symbols <- {"(", ")", "]", "<", ">", ";", "operator"}, MaxSymbols <- 5, MaxLines <- 2
Angles == INSTANCE LintExpressions WITH
  Symbols <- {"<", ">", "-", "=", " ", "(", ")", ";"},
  MaxSymbols <- 4, MaxLines <- 2
Arguments == INSTANCE LintExpressions WITH
  Symbols <- {"<", ">", ",", "{", ";", "="}, MaxSymbols <- 5, MaxLines <- 2

-------------------------------------------------------------------------------
(* The lines of a file in the style that the check of functions assumes.       *)
Seen(head, mark, end, blank) == [head |-> head, mark |-> mark, end |-> end, blank |-> blank]

MCFunctionLines ==
  {Seen("no", "none", FALSE, TRUE),      \* blank, or nothing but a comment
   Seen("no", "none", FALSE, FALSE),     \* a part of a statement
   Seen("no", "stop", FALSE, FALSE),     \* a statement, an indented }, };
   Seen("no", "open", FALSE, FALSE),     \* {
   Seen("no", "stop", TRUE, FALSE),      \* }
   Seen("plain", "none", FALSE, FALSE),  \* void f()
   Seen("plain", "open", FALSE, FALSE),  \* void f() {
   Seen("plain", "stop", FALSE, FALSE),  \* void f();
   Seen("test", "open", FALSE, FALSE)}   \* TEST(f) {

(* Each directive with the names that the check of the guard tells apart.      *)
Of(directive, name, comment, nolint) ==
  [directive |-> directive, name |-> name, comment |-> comment, nolint |-> nolint]

MCHeaderLines ==
  {Of(d, m, "none", "none") : d \in {"ifndef", "define"}, m \in {"V", "V_", "X"}} \cup
  {Of("endif", m, c, "none") : m \in {"V", "V_", "X"}, c \in {"//", "/*"}} \cup
  {Of("endif", "X", "none", "none"), Of("endif", "X", "//", "any"),
   Of("ifndef", "X", "//", "any"), Of("text", "X", "none", "none"),
   Of("text", "X", "//", "none"), Of("text", "X", "//", "guard")}

ASSUME MoreTextAssumption ==
  /\ Braces!NestingAssumption /\ Indentation!NestingAssumption
  /\ OneLine!CleanseAssumption /\ ThreeLines!CleanseAssumption
  /\ Brackets!ExpressionsAssumption /\ Angles!ExpressionsAssumption
  /\ Arguments!ExpressionsAssumption

-------------------------------------------------------------------------------
NoOthers == NoIncludes /\ NoFunctions /\ NoPath

Init ==
  \/ TextInit
  \/ /\ NoOthers /\ NoLines
     /\ \/ what = "braces" /\ Braces!Init
        \/ what = "indentation" /\ Indentation!Init
  \/ /\ NoOthers /\ NoBlocks /\ NoText
     /\ \/ what = "one line" /\ OneLine!Init
        \/ what = "three lines" /\ ThreeLines!Init
  \/ /\ NoOthers /\ NoBlocks /\ NoLines
     /\ \/ what = "brackets" /\ Brackets!Init
        \/ what = "angles" /\ Angles!Init
        \/ what = "arguments" /\ Arguments!Init

others == <<what, includeVars, functionVars, pathVars>>

BracesStep == what = "braces" /\ Braces!Next /\ UNCHANGED <<others, lines>>
IndentationStep == what = "indentation" /\ Indentation!Next /\ UNCHANGED <<others, lines>>

OneLineStep == what = "one line" /\ OneLine!Next /\ UNCHANGED <<others, nestingVars, text>>
ThreeLinesStep ==
  what = "three lines" /\ ThreeLines!Next /\ UNCHANGED <<others, nestingVars, text>>

BracketsStep == what = "brackets" /\ Brackets!Next /\ UNCHANGED <<others, nestingVars, lines>>
AnglesStep == what = "angles" /\ Angles!Next /\ UNCHANGED <<others, nestingVars, lines>>
ArgumentsStep ==
  what = "arguments" /\ Arguments!Next /\ UNCHANGED <<others, nestingVars, lines>>

Next ==
  \/ TextNext \/ BracesStep \/ IndentationStep
  \/ OneLineStep \/ ThreeLinesStep \/ BracketsStep \/ AnglesStep \/ ArgumentsStep

Spec == Init /\ [][Next]_textVars

-------------------------------------------------------------------------------
\* NestingState.Update: blocks are those of matching braces.
BlocksMatch ==
  /\ what = "braces" => Braces!ClosedByMatch
  /\ what = "indentation" => Indentation!IndentedInNamespace

\* CleansedLines: what is left of a line is its code, in one line or over lines.
CodeElided ==
  /\ what = "one line" => OneLine!ElidedIsCode /\ OneLine!StringsKept
  /\ what = "three lines" => ThreeLines!ElidedIsCode /\ ThreeLines!StringsKept

\* CloseExpression, ReverseCloseExpression and InTemplateArgumentList.
EndsFound ==
  /\ what = "brackets" => Brackets!BracketsMatch
  /\ what = "angles" => Angles!AnglesInverse
  /\ what = "arguments" => Arguments!ArgumentRecognised
===============================================================================
