------------------------------- MODULE LintGuard ------------------------------
(***************************************************************************)
(* .ci/cpplint.py, CheckForHeaderGuard: the linter takes the first #ifndef *)
(* and the first #define of a header for its guard and the last #endif for *)
(* its end, and compares them with the name the guard should have.         *)
(*                                                                         *)
(* A line is a directive, or else code or a // comment ("text").  name is  *)
(* the macro of an #ifndef or #define, and the one in the comment of an    *)
(* #endif; comment is the kind of comment on the line; nolint is "guard"   *)
(* for NOLINT(build/header_guard) and "any" for a general NOLINT, both in  *)
(* a // comment.                                                           *)
(***************************************************************************)
EXTENDS Integers, SequencesExt

CONSTANTS Kinds,     \* the kinds of line
          MaxLines   \* bound: lines of the header

Var == "V"        \* GetHeaderGuardCPPVariable(filename)
VarOld == "V_"    \* the name with a second underscore, once in use

GuardAssumption ==
  /\ Kinds \subseteq [directive : {"ifndef", "define", "endif", "text"}, name : STRING,
                      comment : {"none", "//", "/*"}, nolint : {"none", "guard", "any"}]
  /\ \A k \in Kinds : k.nolint # "none" => k.comment = "//"
  /\ MaxLines \in Nat

VARIABLE lines

Init == lines = <<>>

AddLine(k) == Len(lines) < MaxLines /\ lines' = Append(lines, k)

Next == \E k \in Kinds : AddLine(k)

Spec == Init /\ [][Next]_lines

-------------------------------------------------------------------------------
FirstOf(f, directive) == SelectInSeq(f, LAMBDA l : l.directive = directive)

GuardIfndef(f) == FirstOf(f, "ifndef")
GuardDefine(f) == FirstOf(f, "define")

\* Slip: the first #endif is taken for the end of the guard.
GuardEndifFirst(f) == FirstOf(f, "endif")

GuardEndif(f) == SelectLastInSeq(f, LAMBDA l : l.directive = "endif")

Complaint(line, confidence) == [line |-> line, confidence |-> confidence]

\* The name on a line that has a name for the guard.
NameComplaint(line, name) ==
  CASE name = Var -> {}
    [] name = VarOld -> {Complaint(line, 0)}
    [] OTHER -> {Complaint(line, 5)}

\* An #endif in /* */ will do in a header without // comments.
EndifComplaint(f, e) ==
  LET named == e > 0 /\ f[e].name \in {Var, VarOld}
      style == IF e = 0 THEN "none" ELSE f[e].comment
      slashes == \E i \in DOMAIN f : f[i].comment = "//"
  IN IF named /\ (style = "//" \/ (style = "/*" /\ ~slashes)) THEN NameComplaint(e, f[e].name)
     ELSE {Complaint(e, 5)}

\* What CheckForHeaderGuard reports of header f, but for what a NOLINT on the
\* line of the #ifndef or the #endif suppresses.
CheckForHeaderGuard(f) ==
  LET i == GuardIfndef(f)  d == GuardDefine(f)
      found == NameComplaint(i, f[i].name) \cup EndifComplaint(f, GuardEndif(f))
  IN IF \E k \in DOMAIN f : f[k].nolint = "guard" THEN {}
     ELSE IF i = 0 \/ d = 0 THEN {Complaint(0, 5)}
     ELSE IF f[i].name # f[d].name THEN {Complaint(0, 5)}
     ELSE {c \in found : c.line = 0 \/ f[c.line].nolint = "none"}

-------------------------------------------------------------------------------
\* Between the first two lines and the last of a guarded header anything may
\* stand, conditionals and definitions of its own included, without a change to
\* what is reported; a // comment matters only to an #endif in /* */.
BodyIrrelevant ==
  LET n == Len(lines)
      outer == <<lines[1], lines[2], lines[n]>>
  IN /\ n > 3
     /\ lines[1].directive = "ifndef" /\ lines[2].directive = "define"
     /\ lines[n].directive = "endif"
     /\ \A i \in 3..n - 1 : lines[i].nolint # "guard"
     /\ lines[n].comment = "/*" => \A i \in 3..n - 1 : lines[i].comment # "//"
     => CheckForHeaderGuard(lines) =
        {IF c.line = 3 THEN [c EXCEPT !.line = n] ELSE c : c \in CheckForHeaderGuard(outer)}

\* The header after its author has followed the messages: "please use: V" at the
\* #ifndef and its #define, "#endif line should be #endif // V" at the last one.
Mended ==
  [n \in DOMAIN lines |->
     CASE n \in {GuardIfndef(lines), FirstOf(lines, "define")} -> [lines[n] EXCEPT !.name = Var]
       [] n = GuardEndif(lines) -> [lines[n] EXCEPT !.name = Var, !.comment = "//"]
       [] OTHER -> lines[n]]

\* Whoever follows the messages about a guard that was found gets no others.
SuggestionsHelp ==
  /\ GuardEndif(lines) # 0
  /\ \A c \in CheckForHeaderGuard(lines) : c.line # 0
  => CheckForHeaderGuard(Mended) = {}
===============================================================================
