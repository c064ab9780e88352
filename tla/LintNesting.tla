----------------------------- MODULE LintNesting ------------------------------
(***************************************************************************)
(* .ci/cpplint.py, NestingState: the stack of classes, namespaces and      *)
(* other blocks the linter believes it is in, line after line, and the     *)
(* copies of it that #if, #else and #endif save and restore.               *)
(*                                                                         *)
(* A line is what Update sees of it: a conditional directive, namespace    *)
(* heads (each with or without its brace), a class head, the balance of    *)
(* its parentheses and then its braces, semicolons and closing             *)
(* parentheses in order.                                                   *)
(***************************************************************************)
EXTENDS Integers, FiniteSets, SequencesExt

CONSTANTS Kinds,          \* kind of line -> what is seen of it
          Menu,           \* the kinds a file is made of
          MaxLines        \* bound: lines of the file

Directives == {"none", "if", "else", "endif"}   \* #elif is as #else
Tokens == {"{", "}", ";", ")"}

LinesSeen ==
  [directive : Directives, namespaces : Seq(BOOLEAN), class : BOOLEAN, template : BOOLEAN,
   parens : Int, tokens : Seq(Tokens), asm : BOOLEAN, extern : BOOLEAN, indented : BOOLEAN,
   macro : BOOLEAN, forward : BOOLEAN]

NestingAssumption ==
  Menu \subseteq DOMAIN Kinds /\ MaxLines \in Nat /\ \A kind \in Menu : Kinds[kind] \in LinesSeen

\* The condition of an #if opens no block and leaves no parenthesis open.
DirectivesAlone ==
  \A kind \in Menu : LET l == Kinds[kind] IN
    l.directive # "none" => l.namespaces = <<>> /\ ~l.class /\ l.parens = 0 /\ l.tokens = <<>>

VARIABLES text,       \* the kinds of the lines read
          stack,      \* NestingState.stack
          ppStack,    \* NestingState.pp_stack
          prevTop,    \* previous_stack_top: the block, if any
          errors,     \* what was reported: <<category, line>>
          closed,     \* history: where each closed block opened and closed
          stray,      \* history: a } has removed a head that had no brace yet
          finished

nesting == <<stack, ppStack, prevTop>>
vars == <<text, nesting, errors, closed, stray, finished>>

Init ==
  /\ text = <<>> /\ stack = <<>> /\ ppStack = <<>> /\ prevTop = {}
  /\ errors = {} /\ closed = {} /\ stray = FALSE /\ finished = FALSE

-------------------------------------------------------------------------------
\* A block: open is the position of its brace, <<line, brace in the line>>.
Block(kind, n) ==
  [kind |-> kind, line |-> n, seen |-> FALSE, open |-> <<0, 0>>, parens |-> 0,
   asm |-> "no"]

Opened(b, position) == [b EXCEPT !.seen = TRUE, !.open = position]
SetTop(s, b) == [s EXCEPT ![Len(s)] = b]
SeenOpenBrace(s) == s = <<>> \/ Last(s).seen
InBlock(s, kind) == s # <<>> /\ Last(s).kind = kind
InAsmBlock(s) == s # <<>> /\ Last(s).asm # "no"

-------------------------------------------------------------------------------
\* UpdatePreprocessor: the stack and the saved stacks after a directive.

\* Slip: each #elif saves the stack that #endif will restore.
PreprocessorResaved(s, pp, d) ==
  CASE d = "if" -> [stack |-> s, pp |-> Append(pp, [beforeIf |-> s, beforeElse |-> <<>>,
                                                    seenElse |-> FALSE])]
    [] d = "else" /\ pp # <<>> ->
         LET top == Last(pp) IN
         [stack |-> top.beforeIf,
          pp |-> SetTop(pp, [top EXCEPT !.seenElse = TRUE, !.beforeElse = s])]
    [] d = "endif" /\ pp # <<>> ->
         [stack |-> IF Last(pp).seenElse THEN Last(pp).beforeElse ELSE s, pp |-> Front(pp)]
    [] OTHER -> [stack |-> s, pp |-> pp]

UpdatePreprocessor(s, pp, d) ==
  CASE d = "if" -> [stack |-> s, pp |-> Append(pp, [beforeIf |-> s, beforeElse |-> <<>>,
                                                    seenElse |-> FALSE])]
    [] d = "else" /\ pp # <<>> ->
         LET top == Last(pp) IN
         [stack |-> top.beforeIf,
          pp |-> SetTop(pp, IF top.seenElse THEN top
                            ELSE [top EXCEPT !.seenElse = TRUE, !.beforeElse = s])]
    [] d = "endif" /\ pp # <<>> ->
         [stack |-> IF Last(pp).seenElse THEN Last(pp).beforeElse ELSE s, pp |-> Front(pp)]
    [] OTHER -> [stack |-> s, pp |-> pp]

\* The parentheses of the line, and whether they enter or leave an asm block.
CountParentheses(s, l) ==
  IF s = <<>> THEN s
  ELSE LET top == Last(s)
           count == top.parens + l.parens
           asm == IF top.asm \in {"no", "end"}
                  THEN IF l.parens # 0 /\ count = 1 /\ l.asm THEN "inside" ELSE "no"
                  ELSE IF top.asm = "inside" /\ count = 0 THEN "end" ELSE top.asm
       IN SetTop(s, [top EXCEPT !.parens = count, !.asm = asm])

PushNamespaces(s, l, n) ==
  s \o [i \in DOMAIN l.namespaces |->
          IF l.namespaces[i] THEN Opened(Block("namespace", n), <<n, i>>)
          ELSE Block("namespace", n)]

\* A class head inside parentheses or template arguments opens no block.
PushClass(s, l, n) ==
  IF l.class /\ ~l.template /\ (s = <<>> \/ Last(s).parens = 0)
  THEN Append(s, Block("class", n)) ELSE s

\* One brace, semicolon or closing parenthesis; m carries the stack, what was
\* closed and whether a } met a head without a brace.

\* Slip: a semicolon removes the innermost block whether or not its brace came.
TakeTokenAnyHead(m, l, n, i) ==
  LET s == m.stack   token == l.tokens[i]   at == <<n, Len(l.namespaces) + i>> IN
  CASE token = "{" /\ ~SeenOpenBrace(s) ->
         [m EXCEPT !.stack = SetTop(s, Opened(Last(s), at))]
    [] token = "{" /\ SeenOpenBrace(s) ->
         LET kind == IF i = 1 /\ l.extern THEN "extern" ELSE "block"
             new == Opened(Block(kind, n), at) IN
         [m EXCEPT !.stack =
            Append(s, IF i = 1 /\ l.asm /\ kind = "block" THEN [new EXCEPT !.asm = "block"] ELSE new)]
    [] token \in {";", ")"} ->
         IF s = <<>> \/ (token = ")" /\ SeenOpenBrace(s)) THEN m
         ELSE [m EXCEPT !.stack = Front(s)]
    [] token = "}" ->
         IF s = <<>> THEN m
         ELSE [m EXCEPT !.stack = Front(s), !.stray = @ \/ ~Last(s).seen,
                        !.closed = @ \cup {<<Last(s).open, at>>}]

TakeToken(m, l, n, i) ==
  LET s == m.stack   token == l.tokens[i]   at == <<n, Len(l.namespaces) + i>> IN
  CASE token = "{" /\ ~SeenOpenBrace(s) ->
         [m EXCEPT !.stack = SetTop(s, Opened(Last(s), at))]
    [] token = "{" /\ SeenOpenBrace(s) ->
         LET kind == IF i = 1 /\ l.extern THEN "extern" ELSE "block"
             new == Opened(Block(kind, n), at) IN
         [m EXCEPT !.stack =
            Append(s, IF i = 1 /\ l.asm /\ kind = "block" THEN [new EXCEPT !.asm = "block"] ELSE new)]
    [] token \in {";", ")"} ->
         IF SeenOpenBrace(s) THEN m ELSE [m EXCEPT !.stack = Front(s)]
    [] token = "}" ->
         IF s = <<>> THEN m
         ELSE [m EXCEPT !.stack = Front(s), !.stray = @ \/ ~Last(s).seen,
                        !.closed = @ \cup {<<Last(s).open, at>>}]

\* The rest of Update, once the directive of the line has been dealt with.
UpdateBlocks(m, l, n) ==
  LET heads == PushClass(PushNamespaces(CountParentheses(m.stack, l), l, n), l, n) IN
  FoldLeft(LAMBDA acc, i : TakeToken(acc, l, n, i), [m EXCEPT !.stack = heads],
           [i \in DOMAIN l.tokens |-> i])

-------------------------------------------------------------------------------
\* CheckForNamespaceIndentation: a class or namespace that has just been put
\* on the stack, or a forward declaration, directly in a namespace.

NewInNamespace(s, before) ==
  /\ Len(s) > 1 /\ Last(s).kind \in {"class", "namespace"}
  /\ s[Len(s) - 1].kind = "namespace"
  /\ \E b \in before : b.kind = "namespace" /\ b.line = s[Len(s) - 1].line

IndentationError(s, before, l) ==
  /\ l.indented /\ ~l.macro
  /\ IF l.forward THEN InBlock(s, "namespace") ELSE NewInNamespace(s, before)

ReadLine(kind) ==
  LET l == Kinds[kind]   n == Len(text) + 1
      pre == UpdatePreprocessor(stack, ppStack, l.directive)
      now == UpdateBlocks([stack |-> pre.stack, closed |-> closed, stray |-> stray], l, n)
  IN
  /\ ~finished /\ Len(text) < MaxLines
  /\ text' = Append(text, kind)
  /\ prevTop' = IF stack = <<>> THEN {} ELSE {Last(stack)}
  /\ ppStack' = pre.pp
  /\ stack' = now.stack /\ closed' = now.closed /\ stray' = now.stray
  /\ errors' = errors \cup
       (IF IndentationError(now.stack, prevTop', l) THEN {<<"indentation_namespace", n>>} ELSE {})
  /\ UNCHANGED finished

\* At the end of the file, what was never closed.
CheckCompletedBlocks ==
  /\ ~finished /\ finished' = TRUE
  /\ errors' = errors \cup {<<stack[i].kind, stack[i].line>> :
                 i \in {j \in DOMAIN stack : stack[j].kind \in {"class", "namespace"}}}
  /\ UNCHANGED <<text, nesting, closed, stray>>

Next == (\E kind \in Menu : ReadLine(kind)) \/ CheckCompletedBlocks

Spec == Init /\ [][Next]_vars

-------------------------------------------------------------------------------
\* The branches of conditionals, found without a stack: the balance of #if and
\* #endif from line a to line b, and what it says of the lines in between.
Directive(i) == Kinds[text[i]].directive
Balance(a, b) ==
  FoldLeft(LAMBDA sum, i : sum + (CASE Directive(i) = "if" -> 1
                                    [] Directive(i) = "endif" -> -1 [] OTHER -> 0),
           0, [i \in 1..(b - a + 1) |-> a + i - 1])

Encloses(k, i) == k < i /\ Directive(k) = "if" /\ \A m \in (k + 1)..i : Balance(k, m) >= 1
Elses(k) == {e \in DOMAIN text : Directive(e) = "else" /\ Encloses(k, e) /\ Balance(k, e) = 1}
StillOpen(k) == \A m \in k..Len(text) : Balance(k, m) >= 1

\* A line counts if it is in the first branch of every conditional that has
\* ended around it and in the last branch so far of those still open.
Counts(i) ==
  \A k \in {j \in 1..(i - 1) : Encloses(j, i)} :
    IF StillOpen(k) THEN \A e \in Elses(k) : e <= i ELSE \A e \in Elses(k) : e > i

\* UpdatePreprocessor's documented assumption: a condition is true up to the
\* first #else, #elif or #endif and false after it, so the stack is the one
\* the lines of the first branches alone would have produced.
PreprocessorTransparent ==
  finished => stack = FoldLeft(LAMBDA m, i : IF Counts(i) THEN UpdateBlocks(m, Kinds[text[i]], i)
                                             ELSE m,
                               [stack |-> <<>>, closed |-> {}, stray |-> FALSE],
                               [i \in DOMAIN text |-> i]).stack

\* The braces of the file in order, and the pairs that match in it.
BracesOf(n) ==
  LET l == Kinds[text[n]]
      all == [i \in DOMAIN l.namespaces |-> IF l.namespaces[i] THEN "{" ELSE ""] \o l.tokens
  IN SelectSeq([i \in DOMAIN all |-> [token |-> all[i], at |-> <<n, i>>]],
               LAMBDA b : b.token \in {"{", "}"})
Braces == FlattenSeq([n \in DOMAIN text |-> BracesOf(n)])

Depth(b, i, j) ==
  Cardinality({m \in i..j : b[m].token = "{"}) - Cardinality({m \in i..j : b[m].token = "}"})

Pairs ==
  LET b == Braces IN
  {<<b[q[1]].at, b[q[2]].at>> : q \in
     {p \in (DOMAIN b) \X (DOMAIN b) :
        /\ p[1] < p[2] /\ b[p[1]].token = "{" /\ Depth(b, p[1], p[2]) = 0
        /\ \A m \in p[1]..(p[2] - 1) : Depth(b, p[1], m) > 0}}

Unconditional == \A i \in DOMAIN text : Directive(i) = "none"

\* Update: as long as every } closes a block whose brace has been seen, blocks
\* are opened and closed by matching braces, heads without a brace left aside,
\* whatever declarations and parentheses come in between.
ClosedByMatch ==
  ~stray /\ Unconditional =>
    /\ closed = Pairs
    /\ {stack[i].open : i \in {j \in DOMAIN stack : stack[j].seen}} =
         LET b == Braces IN
         {b[i].at : i \in {j \in DOMAIN b : b[j].token = "{" /\ \A p \in Pairs : p[1] # b[j].at}}

\* The innermost brace that is open where line n begins is a namespace's.
InNamespaceAt(n) ==
  LET b == SelectSeq(Braces, LAMBDA x : x.at[1] < n)
      unmatched == {i \in DOMAIN b : b[i].token = "{" /\
                      \A m \in i..Len(b) : Depth(b, i, m) > 0}
  IN \E i \in unmatched :
       /\ \A j \in unmatched : j <= i
       /\ b[i].at[2] <= Len(Kinds[text[b[i].at[1]]].namespaces)

\* CheckForNamespaceIndentation: a line reported as indented within a namespace
\* begins directly within one, not in a class or function inside it.
IndentedInNamespace ==
  Unconditional /\ (\A i \in DOMAIN text : FALSE \notin ToSet(Kinds[text[i]].namespaces)) =>
    \A e \in errors : e[1] = "indentation_namespace" => InNamespaceAt(e[2])
===============================================================================
