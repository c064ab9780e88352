---------------------------- MODULE LintExpressions ---------------------------
(***************************************************************************)
(* .ci/cpplint.py: how the linter finds the other end of an expression in  *)
(* parentheses, brackets, braces or angle brackets, forward and backward   *)
(* over the lines, and whether a class name stands in a template argument  *)
(* list.                                                                   *)
(*                                                                         *)
(* A line is a sequence of symbols, a text a sequence of lines, a place    *)
(* <<line, symbol>>.  The program counts symbols from 0, this module from  *)
(* 1, and Nowhere stands for the program's position -1.                    *)
(***************************************************************************)
EXTENDS Integers, SequencesExt

CONSTANTS Symbols,     \* the symbols a text is made of
          MaxSymbols,  \* bound: symbols of the text
          MaxLines     \* bound: lines of the text

Operator == "operator"     \* the keyword; "," stands for all other symbols
Opening == {"(", "[", "{"}
Closing == {")", "]", "}"}
Mate(c) == CASE c = "(" -> ")" [] c = "[" -> "]" [] c = "{" -> "}" [] c = "<" -> ">"

ExpressionsAssumption ==
  /\ Symbols \subseteq Opening \cup Closing \cup
                       {"<", ">", ";", "-", "=", " ", ".", ",", Operator}
  /\ MaxSymbols \in Nat /\ MaxLines \in Nat \ {0}

VARIABLE text

Init == text = << <<>> >>

Write(c) ==
  /\ Len(FlattenSeq(text)) < MaxSymbols
  /\ text' = [text EXCEPT ![Len(text)] = Append(@, c)]

NewLine == Len(text) < MaxLines /\ text' = Append(text, <<>>)

Next == NewLine \/ \E c \in Symbols : Write(c)

Spec == Init /\ [][Next]_text

Nowhere == <<0, 0>>
Places(t) == UNION {{<<n, i>> : i \in DOMAIN t[n]} : n \in DOMAIN t}
At(t, p) == t[p[1]][p[2]]

-------------------------------------------------------------------------------
(* What a search knows: the expressions it is in, and, once it is over, the *)
(* place it has found.  Backward, skip is how far ahead it has read.        *)

Searching(stack) == [stack |-> stack, over |-> FALSE, at |-> 0, skip |-> 0]
Over(i) == [stack |-> <<>>, over |-> TRUE, at |-> i, skip |-> 0]
Failed == Over(0)
TopIs(stack, c) == stack # <<>> /\ Last(stack) = c

\* Angle brackets that no longer can be brackets are dropped from the stack.
WithoutAngles(stack, angle) ==
  SubSeq(stack, 1, SelectLastInSeq(stack, LAMBDA c : c # angle))

Pop(stack, i) == IF Len(stack) = 1 THEN Over(i) ELSE Searching(Front(stack))

\* Slip: what is left open in angle brackets hides the bracket that is closed.
MatchBracketAngles(stack, angle, partner, i) ==
  IF TopIs(stack, partner) THEN Pop(stack, i) ELSE Failed

MatchBracket(stack, angle, partner, i) ==
  LET s == WithoutAngles(stack, angle) IN
  IF TopIs(s, partner) THEN Pop(s, i) ELSE Failed

EndOfStatement(stack, angle) ==
  LET s == WithoutAngles(stack, angle) IN IF s = <<>> THEN Failed ELSE Searching(s)

\* \boperator\s*$ on the first k symbols of line l
EndsInOperator(l, k) ==
  LET last == SelectLastInSubSeq(l, 1, k, LAMBDA c : c # " ") IN
  last > 0 /\ l[last] = Operator /\ (last = 1 \/ l[last - 1] # Operator)

Before(l, i, c) == i > 1 /\ l[i - 1] = c

-------------------------------------------------------------------------------
\* One symbol of FindEndOfExpressionInLine.
ArrowOrOperator(l, i) ==
  \/ Before(l, i, "-")
  \/ i > 1 /\ ~Before(l, i, Operator) /\ EndsInOperator(l, i - 2)

EndStep(l, s, i) ==
  LET stack == s.stack  c == l[i] IN
  CASE s.over -> s
    [] c \in Opening -> Searching(Append(stack, c))
    [] c = "<" /\ Before(l, i, "<") ->
         IF TopIs(stack, "<") THEN IF Len(stack) = 1 THEN Failed ELSE Searching(Front(stack))
         ELSE s
    [] c = "<" -> IF EndsInOperator(l, i - 1) THEN s ELSE Searching(Append(stack, "<"))
    [] c \in Closing ->
         MatchBracket(stack, "<", CHOOSE b \in Opening : Mate(b) = c, i + 1)
    [] c = ">" -> IF ArrowOrOperator(l, i) \/ ~TopIs(stack, "<") THEN s ELSE Pop(stack, i + 1)
    [] c = ";" -> EndOfStatement(stack, "<")
    [] OTHER -> s

FindEndOfExpressionInLine(l, start, stack) ==
  FoldLeftDomain(LAMBDA s, i : IF i < start THEN s ELSE EndStep(l, s, i),
                 Searching(stack), l)

\* The place past the end of the expression that begins at p.
CloseExpression(t, p) ==
  LET l == t[p[1]]
      later(found, m) ==
        IF m <= p[1] \/ found.s.over \/ found.s.stack = <<>> THEN found
        ELSE [line |-> m, s |-> FindEndOfExpressionInLine(t[m], 1, found.s.stack)]
      first == [line |-> p[1], s |-> FindEndOfExpressionInLine(l, p[2], <<>>)]
      last == FoldLeftDomain(later, first, t)
      shift == At(t, p) = "<" /\ p[2] < Len(l) /\ l[p[2] + 1] \in {"<", "="}
  IN IF At(t, p) \notin Opening \cup {"<"} \/ shift \/ last.s.at = 0 THEN Nowhere
     ELSE <<last.line, last.s.at>>

-------------------------------------------------------------------------------
\* One symbol of FindStartOfExpressionInLine.
NoTemplateEnd(l, i) ==
  \/ Before(l, i, "-")
  \/ Before(l, i, " ") /\ i + 2 <= Len(l) /\ l[i + 1] = "=" /\ l[i + 2] = " "
  \/ EndsInOperator(l, i - 1)

StartStep(l, s, i) ==
  LET stack == s.stack  c == l[i] IN
  CASE s.over -> s
    [] ~s.over /\ s.skip > 0 -> [s EXCEPT !.skip = @ - 1]
    [] ~s.over /\ s.skip = 0 ->
       CASE c \in Closing -> Searching(Append(stack, c))
         [] c = ">" -> IF i > 1 /\ NoTemplateEnd(l, i) THEN [s EXCEPT !.skip = 1]
                       ELSE Searching(Append(stack, ">"))
         [] c = "<" -> IF Before(l, i, "<") THEN [s EXCEPT !.skip = 1]
                       ELSE IF TopIs(stack, ">") THEN Pop(stack, i) ELSE s
         [] c \in Opening -> MatchBracket(stack, ">", Mate(c), i)
         [] c = ";" -> EndOfStatement(stack, ">")
         [] OTHER -> s

FindStartOfExpressionInLine(l, end, stack) ==
  FoldRightDomain(LAMBDA i, s : IF i > end THEN s ELSE StartStep(l, s, i),
                  l, Searching(stack))

\* The place where the expression begins that ends at p.
ReverseCloseExpression(t, p) ==
  LET earlier(m, found) ==
        IF m >= p[1] \/ found.s.over \/ found.s.stack = <<>> THEN found
        ELSE [line |-> m, s |-> FindStartOfExpressionInLine(t[m], Len(t[m]), found.s.stack)]
      first == [line |-> p[1], s |-> FindStartOfExpressionInLine(t[p[1]], p[2], <<>>)]
      last == FoldRightDomain(earlier, t, first)
  IN IF At(t, p) \notin Closing \cup {">"} \/ last.s.at = 0 THEN Nowhere
     ELSE <<last.line, last.s.at>>

-------------------------------------------------------------------------------
\* NestingState.InTemplateArgumentList, from place p on.

RECURSIVE InTemplateArgumentList(_, _)
InTemplateArgumentList(t, p) ==
  LET l == t[p[1]]
      k == SelectInSubSeq(l, p[2], Len(l), LAMBDA c : c \in {"{", "}", ";", "=", "[", "]", ".", "<", ">"})
      end == CloseExpression(t, <<p[1], k>>)
  IN IF p[1] > Len(t) THEN FALSE
     ELSE IF k = 0 THEN InTemplateArgumentList(t, <<p[1] + 1, 1>>)
     ELSE IF l[k] = "<" THEN end # Nowhere /\ InTemplateArgumentList(t, end)
     ELSE l[k] \notin {"{", "}", ";"}

-------------------------------------------------------------------------------
(* The reference: the text without its lines, and what is balanced in it.  *)

Flat == FlattenSeq(text)
Offset(p) == Len(FlattenSeq(SubSeq(text, 1, p[1] - 1))) + p[2]
Between(p, q) == SubSeq(Flat, Offset(p) + 1, Offset(q) - 1)
Past(q) == <<q[1], q[2] + 1>>
Earlier(p, q) == Offset(p) < Offset(q)

RECURSIVE Balanced(_)
Balanced(s) ==
  \/ s = <<>>
  \/ s[1] \in Opening \cup {"<"} /\
     \E k \in 2..Len(s) : /\ s[k] = Mate(s[1])
                         /\ Balanced(SubSeq(s, 2, k - 1))
                         /\ Balanced(SubSeq(s, k + 1, Len(s)))

Only(s, kinds) == SelectSeq(s, LAMBDA c : c \in kinds)
Matched(p, q) ==
  /\ Earlier(p, q) /\ At(text, p) \in Opening /\ At(text, q) = Mate(At(text, p))
  /\ Balanced(Only(Between(p, q), Opening \cup Closing))

\* Parentheses, brackets and braces are matched as if nothing else stood in
\* the text, in both directions: no <, >, shift, arrow, operator or semicolon
\* between them hides one or adds one (CloseExpression and
\* ReverseCloseExpression, which guess what an angle bracket is).
BracketsMatch ==
  \A p, q \in Places(text) :
    /\ At(text, p) \in Opening /\ At(text, q) \in Closing =>
         ((CloseExpression(text, p) = Past(q)) <=> Matched(p, q))
    /\ At(text, q) \in Closing /\ At(text, p) \in Opening =>
         ((ReverseCloseExpression(text, q) = p) <=> Matched(p, q))

\* A >= between spaces, which only the backward search takes for a comparison.
SpacedGreaterEqual ==
  \E p \in Places(text) :
    /\ At(text, p) = ">" /\ Before(text[p[1]], p[2], " ")
    /\ p[2] + 2 <= Len(text[p[1]])
    /\ SubSeq(text[p[1]], p[2] + 1, p[2] + 2) = <<"=", " ">>

\* The > that the forward search finds for a < is one from which the backward
\* search finds that < again: the two, written apart for the two directions,
\* agree on which angle brackets are brackets.  (No caller starts at the second
\* < of a shift.)
AnglesInverse ==
  \A p, q \in Places(text) :
    /\ At(text, p) = "<" /\ At(text, q) = ">" /\ ~Before(text[p[1]], p[2], "<")
    /\ CloseExpression(text, p) = Past(q) /\ ~SpacedGreaterEqual
    => ReverseCloseExpression(text, q) = p

\* What follows a class name decides, after any number of template argument
\* lists, over the lines: a brace or a semicolon says that a class is declared,
\* the end of an enclosing list or a default that it is a template argument.
\* (NestingState trusts this to tell class heads from template parameters.)
ArgumentRecognised ==
  \A p, q \in Places(text) :
    LET passed == SubSeq(Flat, Offset(p), Offset(q) - 1)
        shift == \E r \in Places(text) : At(text, r) = "<" /\ Before(text[r[1]], r[2], "<")
    IN Offset(p) <= Offset(q) /\ At(text, q) \in {">", "=", "{", ";"} /\ ~shift
       /\ ToSet(passed) \subseteq {"<", ">", ","} /\ Balanced(Only(passed, {"<", ">"}))
       => (InTemplateArgumentList(text, p) <=> At(text, q) \in {">", "="})
===============================================================================
