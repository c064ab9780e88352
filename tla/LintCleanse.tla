------------------------------ MODULE LintCleanse -----------------------------
(***************************************************************************)
(* .ci/cpplint.py: how the linter removes comments and the contents of     *)
(* strings before it looks at a file, in passes that each read the whole   *)
(* file: multi-line comments, then raw strings, then, line by line,        *)
(* strings and the remaining comments.                                     *)
(*                                                                         *)
(* A line is a sequence of tokens, written without spaces but for one      *)
(* before a raw string, one between words or numbers, and one between      *)
(* marks of comments that follow one another.  Only */ stands directly     *)
(* before /* or //, and forms a // with it.  No line is an #include, whose *)
(* quotes _CollapseStrings keeps.  Line n is element n of the program's    *)
(* list, whose element 0 is the marker that ProcessFileData puts in front. *)
(***************************************************************************)
EXTENDS Integers, SequencesExt

CONSTANTS LineSet,    \* the lines a file may consist of
          MaxLines    \* bound: lines of the file

Word == "word"      Number == "number"    \* 12, 0x1f
DQ == "\""          SQ == "'"             Esc == "\\c"   \* an escaped character
LineComment == "//" Open == "/*"          Close == "*/"
RawOpen == "R\"("   RawClose == ")\""
Star == "*"           \* what is left of */ when its / is cut off

Tokens == {Word, Number, DQ, SQ, Esc, LineComment, Open, Close, RawOpen, RawClose}
IsQuote(t) == t \in {DQ, RawOpen, RawClose}   \* each holds one double quote

CleanseAssumption ==
  (\A l \in LineSet : ToSet(l) \subseteq Tokens) /\ MaxLines \in Nat

VARIABLE lines   \* the file

Init == lines = <<>>

AddLine == Len(lines) < MaxLines /\ \E l \in LineSet : lines' = Append(lines, l)

Next == AddLine

Spec == Init /\ [][Next]_lines

-------------------------------------------------------------------------------
\* The position of the first token from i on for which P holds, 0 if none.
First(s, i, P(_)) ==
  LET hits == {k \in i..Len(s) : P(s[k])} IN
  IF hits = {} THEN 0 ELSE CHOOSE k \in hits : \A m \in hits : k <= m
Until(s, k) == SubSeq(s, 1, k - 1)
After(s, k) == SubSeq(s, k + 1, Len(s))
Empty == <<DQ, DQ>>     \* what replaces a string

\* Whether the line has a // that begins in token i: the token itself, or the
\* last character of */ and the first of the token behind it.
Slashes(l, i) ==
  \/ l[i] = LineComment
  \/ l[i] = Close /\ i < Len(l) /\ l[i + 1] \in {Open, LineComment}

\* RemoveMultiLineComments: only a comment that starts its line, and only at a
\* line that ends with the end of a comment.
StartsComment(l) ==
  l # <<>> /\ l[1] = Open /\ First(l, 2, LAMBDA t : t = Close) = 0
EndsComment(l) == l # <<>> /\ Last(l) = Close

RECURSIVE RemoveMultiLineComments(_, _)
RemoveMultiLineComments(file, from) ==
  LET begin == First(file, from, StartsComment)
      end == IF begin = 0 THEN 0 ELSE First(file, begin, EndsComment)
  IN IF begin = 0 THEN [lines |-> file, error |-> {}]
     ELSE IF end = 0 THEN [lines |-> file, error |-> {begin + 1}]
     ELSE RemoveMultiLineComments(
            [n \in DOMAIN file |-> IF n \in begin..end THEN <<Open, Close>> ELSE file[n]],
            end + 1)

-------------------------------------------------------------------------------
\* CleanseRawStrings.  The text before a raw string is looked at for a comment.
RECURSIVE InLineComment(_, _)
InLineComment(s, i) ==
  IF i > Len(s) THEN FALSE
  ELSE LET quote == IsQuote(s[i])
           end == First(s, i + 1, LAMBDA t : IF quote THEN IsQuote(t) ELSE t = SQ) IN
       IF Slashes(s, i) THEN TRUE
       ELSE IF quote \/ s[i] = SQ THEN end # 0 /\ InLineComment(s, end + 1)
       ELSE InLineComment(s, i + 1)

\* Slip: a raw string is looked for within comments as well.
OpensRawAnywhere(l) == First(l, 1, LAMBDA t : t = RawOpen)

OpensRaw(l) ==
  LET k == First(l, 1, LAMBDA t : t = RawOpen) IN
  IF k # 0 /\ InLineComment(Until(l, k), 1) THEN 0 ELSE k

RECURSIVE ReplaceRaw(_)
ReplaceRaw(l) ==     \* the line without raw strings, and whether one goes on
  LET k == OpensRaw(l)
      end == First(l, k + 1, LAMBDA t : t = RawClose)
  IN IF k = 0 THEN [line |-> l, inside |-> FALSE]
     ELSE IF end = 0 THEN [line |-> Until(l, k) \o Empty, inside |-> TRUE]
     ELSE ReplaceRaw(Until(l, k) \o Empty \o After(l, end))

CleanseRawLine(l, inside) ==
  LET end == First(l, 1, LAMBDA t : t = RawClose) IN
  IF ~inside THEN ReplaceRaw(l)
  ELSE IF end = 0 THEN [line |-> Empty, inside |-> TRUE]
  ELSE ReplaceRaw(Empty \o After(l, end))

CleanseRawStrings(file) ==
  FoldLeft(LAMBDA acc, l :
             LET r == CleanseRawLine(l, acc.inside) IN
             [lines |-> Append(acc.lines, r.line), inside |-> r.inside],
           [lines |-> <<>>, inside |-> FALSE], file).lines

-------------------------------------------------------------------------------
\* _CollapseStrings: escapes go first, then strings, characters and the
\* separators in numbers, from left to right; an unmatched quote ends it.
NextIs(l, i, ts) == i < Len(l) /\ l[i + 1] \in ts

RECURSIVE NumberEnd(_, _)    \* behind the separators, and what they separate, from k on
NumberEnd(s, k) ==
  IF k < Len(s) /\ s[k] = SQ /\ NextIs(s, k, {Word, Number}) THEN NumberEnd(s, k + 2) ELSE k

RECURSIVE CollapseFrom(_)
CollapseFrom(s) ==
  LET k == First(s, 1, LAMBDA t : IsQuote(t) \/ t = SQ)
      end == First(s, k + 1, LAMBDA t : IF IsQuote(s[k]) THEN IsQuote(t) ELSE t = SQ)
      digits == k > 1 /\ s[k] = SQ /\ s[k - 1] = Number
      rest == NumberEnd(s, k)
  IN IF k = 0 THEN s
     ELSE IF digits /\ rest # k
       THEN SelectSeq(Until(s, rest), LAMBDA t : t # SQ) \o CollapseFrom(After(s, rest - 1))
     ELSE IF end = 0 THEN s
     ELSE Until(s, k) \o (IF s[k] = SQ THEN <<SQ, SQ>> ELSE Empty) \o CollapseFrom(After(s, end))

CollapseStrings(l) == CollapseFrom(SelectSeq(l, LAMBDA t : t # Esc))

\* IsCppString: whether what follows s is in a string, by counting quotes.
IsCppString(s) ==
  LET quotes == {i \in DOMAIN s : IsQuote(s[i])}
      chars == {i \in quotes : /\ s[i] = DQ /\ i > 1 /\ i < Len(s)
                               /\ s[i - 1] = SQ /\ s[i + 1] = SQ}
  IN Cardinality(quotes \ chars) % 2 = 1

\* CleanseComments: the first // cuts the line unless it is in a string; then
\* the comments that begin and end on the line go.
RECURSIVE RemoveComments(_)
RemoveComments(l) ==
  LET begin == First(l, 1, LAMBDA t : t = Open)
      end == First(l, begin + 1, LAMBDA t : t = Close)
  IN IF begin = 0 \/ end = 0 THEN l
     ELSE Until(l, begin) \o RemoveComments(After(l, end))

CutLine(l) ==
  LET k == First([i \in DOMAIN l |-> Slashes(l, i)], 1, LAMBDA t : t)
      rest == IF k # 0 /\ l[k] = Close THEN <<Star>> ELSE <<>>
  IN IF k = 0 \/ IsCppString(Until(l, k)) THEN l ELSE Until(l, k) \o rest

CleanseComments(l) == RemoveComments(CutLine(l))

\* CleansedLines, as ProcessFileData makes them: the lines without comments,
\* and the elided lines, without strings either.
WithoutRaw == CleanseRawStrings(RemoveMultiLineComments(lines, 1).lines)
CleansedLines == [n \in DOMAIN WithoutRaw |-> CleanseComments(WithoutRaw[n])]
Elided == [n \in DOMAIN WithoutRaw |-> CleanseComments(CollapseStrings(WithoutRaw[n]))]

-------------------------------------------------------------------------------
\* The lexer of the language: one pass, token by token.  It keeps the mode it
\* is in, the code so far, whether the last token belongs to a number, and
\* whether the file is free of what the linter's passes are not made for (tame),
\* its literals of marks that look like others while strings are kept (unmarked).
Start == [mode |-> "code", out |-> <<>>, number |-> FALSE, tame |-> TRUE, unmarked |-> TRUE,
          legal |-> TRUE, first |-> 0]

Emit(c, ts) == [c EXCEPT !.out = Append(Front(@), Last(@) \o ts)]
Turn(c, mode, n) ==
  [c EXCEPT !.mode = mode, !.first = n, !.number = @ /\ "comment" \in {c.mode, mode}]

LexToken(c, l, n, i) ==
  LET t == l[i] IN
  CASE c.mode = "code" ->
         CASE IsQuote(t) /\ t # RawOpen -> Turn(Emit(c, <<DQ>>), "string", n)
           [] t = RawOpen -> Turn(Emit(c, Empty), "raw", n)
           [] t = SQ /\ c.number ->   \* a separator, or no number
                [c EXCEPT !.legal = @ /\ l[i - 1] # Close /\ NextIs(l, i, {Word, Number})]
           [] t = SQ /\ ~c.number -> Turn(Emit(c, <<SQ>>), "char", n)
           [] t = LineComment -> Turn(c, "line", n)
           [] t = Open -> Turn(c, "comment", n)
           [] t \in {Esc, Close} -> [c EXCEPT !.legal = FALSE]
           [] OTHER -> [Emit(c, <<t>>) EXCEPT !.number = (t = Number) \/ (@ /\ l[i - 1] = SQ)]
    [] c.mode = "string" ->
         IF IsQuote(t)
         THEN Turn([Emit(c, <<DQ>>) EXCEPT !.tame = @ /\ t # RawOpen], "code", n)
         ELSE [c EXCEPT !.unmarked = @ /\ t # Open]
    [] c.mode = "char" ->
         IF t = SQ THEN Turn(Emit(c, <<SQ>>), "code", n)
         ELSE [c EXCEPT !.tame = @ /\ t # RawOpen,
                        !.unmarked = @ /\ t # Open /\ ~Slashes(l, i) /\ ~IsQuote(t)]
    [] c.mode = "raw" -> IF t = RawClose THEN Turn(c, "code", n) ELSE c
    [] c.mode = "comment" ->
         IF t = Close
         THEN Turn([c EXCEPT !.tame = @ /\ ~Slashes(l, i) /\ (c.first = n \/ i = Len(l))],
                   "code", n)
         ELSE [c EXCEPT !.tame = @ /\ t \notin {LineComment, SQ} /\ ~IsQuote(t)]
    [] c.mode = "line" -> c

\* A line begins: a raw string or a comment may go on.  A comment that spans
\* lines must start its line, a raw string must not look like one.
LexLine(c, l, n) ==
  LET begun == [c EXCEPT !.out = Append(@, IF c.mode = "raw" THEN Empty ELSE <<>>),
                         !.number = FALSE,
                         !.tame = @ /\ ~(c.mode = "raw" /\ StartsComment(l))]
      done == FoldLeft(LAMBDA acc, i : LexToken(acc, l, n, i), begun, [i \in DOMAIN l |-> i])
  IN CASE done.mode = "line" -> [done EXCEPT !.mode = "code"]
       [] done.mode \in {"string", "char"} -> [done EXCEPT !.mode = "code", !.legal = FALSE]
       [] done.mode = "comment" -> [done EXCEPT !.tame = @ /\ (done.first # n \/ StartsComment(l))]
       [] OTHER -> done

Lexed == FoldLeft(LAMBDA c, n : LexLine(c, lines[n], n), Start, [n \in DOMAIN lines |-> n])
Legal == Lexed.legal /\ Lexed.mode = "code"

\* CleansedLines: for a file whose comments hold no quotes and no //, form no
\* // with what follows them, and span lines only from the start of one to the
\* end of another, the elided lines are exactly the code, with every string
\* and character emptied.
ElidedIsCode == Legal /\ Lexed.tame => Elided = Lexed.out

\* CleansedLines.lines, when moreover no literal holds /*, no character literal
\* a quote or //: a // within a string does not cut the line.  (A comment behind
\* such a string stays: only the first // of the line is looked at.)
StringsKept ==
  Legal /\ Lexed.tame /\ Lexed.unmarked => \A n \in DOMAIN lines :
    IsPrefix(Lexed.out[n], CollapseStrings(CleansedLines[n]))
===============================================================================
