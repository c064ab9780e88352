----------------------------- MODULE LintTextProofs -----------------------------
(***************************************************************************)
(* The linter's checks that read a file's lines, for every file, every     *)
(* place it may be checked out to, every verbosity and every               *)
(* configuration: the order of its #include directives and which of them   *)
(* are remembered, how long its functions are, the guard of a header, and  *)
(* the blocks it is in after its conditionals.  A file is looked at by one *)
(* of them, so each is proved of a behaviour of its own module first.      *)
(***************************************************************************)
EXTENDS LintText, FoldFacts, FiniteSetTheorems, SequenceTheorems, TLAPS

\* A file is looked at by one check, whichever that is.
LEMMA OneCheck == ASSUME [TextNext]_textVars, NEW k PROVE what = k <=> (what = k)'
<1>1. what' = what
  BY DEF TextNext, textVars, OrderStep, BranchesStep, LengthsStep, CheckoutsStep, GuardsStep,
    ConditionalsStep
<1> QED BY <1>1

\* A behaviour is then one of that check, for the constants it is given.
LEMMA CheckoutsBehaviour ==
  /\ TextInit /\ what = "checkouts" => Checkouts!Init
  /\ what = "checkouts" /\ [TextNext]_textVars => [Checkouts!Next]_(Checkouts!vars)
<1>1. UNCHANGED textVars => UNCHANGED Checkouts!vars
  BY DEF textVars, pathVars, Checkouts!vars, Checkouts!inputs
<1> QED
  BY <1>1 DEF TextInit, TextNext, OrderStep, BranchesStep, LengthsStep, CheckoutsStep, GuardsStep,
    ConditionalsStep

LEMMA OrderBehaviour ==
  /\ TextInit /\ what = "order" => Order!Init
  /\ what = "order" /\ [TextNext]_textVars => [Order!Next]_(Order!vars)
<1>1. UNCHANGED textVars => UNCHANGED Order!vars
  BY DEF textVars, includeVars, Order!vars, Order!state, Order!hist
<1> QED
  BY <1>1 DEF TextInit, TextNext, OrderStep, BranchesStep, LengthsStep, CheckoutsStep, GuardsStep,
    ConditionalsStep

LEMMA BranchesBehaviour ==
  /\ TextInit /\ what = "branches" => Branches!Init
  /\ what = "branches" /\ [TextNext]_textVars => [Branches!Next]_(Branches!vars)
<1>1. UNCHANGED textVars => UNCHANGED Branches!vars
  BY DEF textVars, includeVars, Branches!vars, Branches!state, Branches!hist
<1> QED
  BY <1>1 DEF TextInit, TextNext, OrderStep, BranchesStep, LengthsStep, CheckoutsStep, GuardsStep,
    ConditionalsStep

LEMMA LengthsBehaviour ==
  /\ TextInit /\ what = "lengths" => Lengths!Init
  /\ what = "lengths" /\ [TextNext]_textVars => [Lengths!Next]_(Lengths!vars)
<1>1. UNCHANGED textVars => UNCHANGED Lengths!vars
  BY DEF textVars, functionVars, Lengths!vars, Lengths!state
<1> QED
  BY <1>1 DEF TextInit, TextNext, OrderStep, BranchesStep, LengthsStep, CheckoutsStep, GuardsStep,
    ConditionalsStep

LEMMA GuardsBehaviour ==
  /\ TextInit /\ what = "guards" => Guards!Init
  /\ what = "guards" /\ [TextNext]_textVars => [Guards!Next]_lines
<1>1. UNCHANGED textVars => UNCHANGED lines
  BY DEF textVars
<1> QED
  BY <1>1 DEF TextInit, TextNext, OrderStep, BranchesStep, LengthsStep, CheckoutsStep, GuardsStep,
    ConditionalsStep

LEMMA ConditionalsBehaviour ==
  /\ TextInit /\ what = "conditionals" => Conditionals!Init
  /\ what = "conditionals" /\ [TextNext]_textVars => [Conditionals!Next]_(Conditionals!vars)
<1>1. UNCHANGED textVars => UNCHANGED Conditionals!vars
  BY DEF textVars, blockVars, nestingVars, Conditionals!vars, Conditionals!nesting
<1> QED
  BY <1>1 DEF TextInit, TextNext, OrderStep, BranchesStep, LengthsStep, CheckoutsStep, GuardsStep,
    ConditionalsStep

-------------------------------------------------------------------------------
(* RepositoryName.                                                         *)

\* The climb for Subversion stays within the checkout; the search for a mark
\* has noted the top of the checkout once it is above it.
TopFound(d) ==
  /\ doing = "start" => rootDir = PathDepth /\ current = PathDepth
  /\ doing = "svn" => Checkouts!Svn \in marks[PathDepth] /\ rootDir >= d /\ current = rootDir - 1
  /\ doing = "search" => Checkouts!Svn \notin marks[PathDepth]
                         /\ rootDir = (IF current < d THEN d ELSE PathDepth)
  /\ doing = "done" => guard = Checkouts!Below(d)

PathInv ==
  /\ rootDir \in 0..PathDepth /\ current \in 0..PathDepth
  /\ exists => \A d \in 1..PathDepth : Checkouts!Checkout(d) => TopFound(d)

LEMMA PathStep ==
  ASSUME Checkouts!PathsAssumption, PathInv, [Checkouts!Next]_(Checkouts!vars)
  PROVE  PathInv'
<1> USE DEF Checkouts!PathsAssumption, Checkouts!inputs, Checkouts!Dirname
<1>0. CASE UNCHANGED Checkouts!vars
  BY <1>0 DEF PathInv, TopFound, Checkouts!Checkout, Checkouts!Below, Checkouts!vars
<1>1. CASE Checkouts!NoSuchFile
  BY <1>1 DEF PathInv, Checkouts!NoSuchFile, Checkouts!Finish
<1>2. CASE ~Checkouts!NoSuchFile /\ Checkouts!Next
  <2> USE <1>2 DEF Checkouts!Finish
  <2>1. rootDir' \in 0..PathDepth /\ current' \in 0..PathDepth
    BY DEF PathInv, Checkouts!Next, Checkouts!StartSvn, Checkouts!ClimbSvn, Checkouts!FinishSvn,
      Checkouts!StartSearch, Checkouts!SearchUp, Checkouts!FinishSearch
  <2>2. UNCHANGED <<path, exists, marks, option>>
    BY DEF PathInv, Checkouts!Next, Checkouts!StartSvn, Checkouts!ClimbSvn, Checkouts!FinishSvn,
      Checkouts!StartSearch, Checkouts!SearchUp, Checkouts!FinishSearch
  <2>3. ASSUME exists, NEW d \in 1..PathDepth, Checkouts!Checkout(d)
        PROVE  TopFound(d)'
    <3>1. /\ TopFound(d) /\ PathDepth \in 1..PathDepth
          /\ rootDir \in 0..PathDepth /\ current \in 0..PathDepth
      BY <2>3 DEF PathInv
    <3>2. \/ \A k \in 0..PathDepth : marks[k] = IF k >= d THEN {Checkouts!Svn} ELSE {}
          \/ \A k \in 0..PathDepth : IF k = d THEN marks[k] # {} ELSE marks[k] = {}
      BY <2>3 DEF Checkouts!Checkout, Checkouts!Dirs
    <3>3. Checkouts!Below(d)' = Checkouts!Below(d)
      BY <2>2 DEF Checkouts!Below
    <3>4. CASE Checkouts!StartSvn
      BY <3>1, <3>2, <3>3, <3>4 DEF Checkouts!StartSvn, TopFound
    <3>5. CASE Checkouts!ClimbSvn
      BY <3>1, <3>2, <3>3, <3>5 DEF Checkouts!ClimbSvn, TopFound
    <3>6. CASE Checkouts!FinishSvn
      <4>1. rootDir = d
        BY <3>1, <3>2, <3>6 DEF Checkouts!FinishSvn, TopFound
      <4> QED BY <3>3, <3>6, <4>1 DEF Checkouts!FinishSvn, TopFound
    <3>7. CASE Checkouts!StartSearch
      BY <3>1, <3>2, <3>3, <3>7 DEF Checkouts!StartSearch, TopFound
    <3>8. CASE Checkouts!SearchUp
      BY <3>1, <3>2, <3>3, <3>8 DEF Checkouts!SearchUp, TopFound
    <3>9. CASE Checkouts!FinishSearch
      <4>1. rootDir = d /\ marks[rootDir] # {}
        BY <3>1, <3>2, <3>9 DEF Checkouts!FinishSearch, TopFound
      <4> QED BY <3>3, <3>9, <4>1 DEF Checkouts!FinishSearch, TopFound
    <3> QED
      BY <2>3, <3>4, <3>5, <3>6, <3>7, <3>8, <3>9 DEF Checkouts!Next
  <2> QED
    BY <2>1, <2>2, <2>3 DEF PathInv, Checkouts!Checkout, Checkouts!Dirs
<1> QED BY <1>0, <1>1, <1>2

\* A header in a checkout, wherever that is and whatever system it is of, has
\* the guard of its path within it (FileInfo.RepositoryName).
THEOREM GuardOfCheckout == TextSpec => []SameInEveryCheckout
<1>1. Checkouts!PathsAssumption
  BY LintTextAssumption
<1>2. Checkouts!Init => PathInv
  BY <1>1 DEF Checkouts!Init, PathInv, TopFound, Checkouts!PathsAssumption, Checkouts!Dirs
<1>3. PathInv => Checkouts!SameInEveryCheckout
  BY <1>1 DEF PathInv, TopFound, Checkouts!SameInEveryCheckout, Checkouts!PathsAssumption,
    Checkouts!Dirs
<1>4. PathInv /\ [Checkouts!Next]_(Checkouts!vars) => PathInv'
  BY <1>1, PathStep
<1>5. [TextNext]_textVars => (what = "checkouts" <=> (what = "checkouts")')
  BY OneCheck
<1>6. SameInEveryCheckout <=> (what = "checkouts" => Checkouts!SameInEveryCheckout)
  BY DEF SameInEveryCheckout
<1> QED BY <1>2, <1>3, <1>4, <1>5, <1>6, CheckoutsBehaviour, PTL DEF TextSpec

-------------------------------------------------------------------------------
(* CheckForHeaderGuard.                                                    *)

\* The lines it looks at are the first and the last with some directive.
LEMMA FirstLine ==
  ASSUME NEW f, Len(f) \in Nat, NEW d
  PROVE  \/ /\ Guards!FirstOf(f, d) \in 1..Len(f)
            /\ f[Guards!FirstOf(f, d)].directive = d
            /\ \A j \in 1..Len(f) : f[j].directive = d => Guards!FirstOf(f, d) <= j
         \/ /\ Guards!FirstOf(f, d) = 0
            /\ \A j \in 1..Len(f) : f[j].directive # d
<1> DEFINE I == {i \in 1..Len(f) : f[i].directive = d}
<1>1. Guards!FirstOf(f, d) = IF I # {} THEN Guards!Min(I) ELSE 0
  BY DEF Guards!FirstOf, Guards!SelectInSeq
<1>2. I # {} => \E m \in I : \A x \in I : m <= x
  <2>1. I \in SUBSET Nat
    OBVIOUS
  <2> HIDE DEF I
  <2> QED BY <2>1, Least
<1>3. I # {} => Guards!Min(I) \in I /\ \A x \in I : Guards!Min(I) <= x
  <2> HIDE DEF I
  <2> QED BY <1>2 DEF Guards!Min
<1> QED BY <1>1, <1>3

LEMMA LastLine ==
  ASSUME NEW f, Len(f) \in Nat
  PROVE  \/ /\ Guards!GuardEndif(f) \in 1..Len(f)
            /\ f[Guards!GuardEndif(f)].directive = "endif"
            /\ \A j \in 1..Len(f) : f[j].directive = "endif" => Guards!GuardEndif(f) >= j
         \/ /\ Guards!GuardEndif(f) = 0
            /\ \A j \in 1..Len(f) : f[j].directive # "endif"
<1> DEFINE I == {i \in 1..Len(f) : f[i].directive = "endif"}
<1>1. Guards!GuardEndif(f) = IF I # {} THEN Guards!Max(I) ELSE 0
  BY DEF Guards!GuardEndif, Guards!SelectLastInSeq
<1>2. I # {} => \E m \in I : \A x \in I : m >= x
  <2>1. I \in SUBSET (1..Len(f))
    OBVIOUS
  <2> HIDE DEF I
  <2> QED BY <2>1, Greatest
<1>3. I # {} => Guards!Max(I) \in I /\ \A x \in I : Guards!Max(I) >= x
  <2> HIDE DEF I
  <2> QED BY <1>2 DEF Guards!Max
<1> QED BY <1>1, <1>3

\* Files with the same directives have the guard in the same lines.
LEMMA SameDirectives ==
  ASSUME NEW f, NEW g, Len(f) \in Nat, Len(g) = Len(f),
         \A i \in 1..Len(f) : g[i].directive = f[i].directive
  PROVE  /\ Guards!GuardIfndef(g) = Guards!GuardIfndef(f)
         /\ Guards!GuardDefine(g) = Guards!GuardDefine(f)
         /\ Guards!GuardEndif(g) = Guards!GuardEndif(f)
<1>1. ASSUME NEW d PROVE Guards!FirstOf(g, d) = Guards!FirstOf(f, d)
  <2> DEFINE p == Guards!FirstOf(f, d)  q == Guards!FirstOf(g, d)
  <2>1. \/ /\ p \in 1..Len(f) /\ f[p].directive = d
           /\ \A j \in 1..Len(f) : f[j].directive = d => p <= j
        \/ p = 0 /\ \A j \in 1..Len(f) : f[j].directive # d
    BY FirstLine
  <2>2. \/ /\ q \in 1..Len(f) /\ g[q].directive = d
           /\ \A j \in 1..Len(f) : g[j].directive = d => q <= j
        \/ q = 0 /\ \A j \in 1..Len(f) : g[j].directive # d
    BY FirstLine
  <2> HIDE DEF p, q
  <2>3. p = q
    BY <2>1, <2>2
  <2> QED BY <2>3 DEF p, q
<1>2. Guards!GuardEndif(g) = Guards!GuardEndif(f)
  <2> DEFINE p == Guards!GuardEndif(f)  q == Guards!GuardEndif(g)
  <2>1. \/ /\ p \in 1..Len(f) /\ f[p].directive = "endif"
           /\ \A j \in 1..Len(f) : f[j].directive = "endif" => p >= j
        \/ p = 0 /\ \A j \in 1..Len(f) : f[j].directive # "endif"
    BY LastLine
  <2>2. \/ /\ q \in 1..Len(f) /\ g[q].directive = "endif"
           /\ \A j \in 1..Len(f) : g[j].directive = "endif" => q >= j
        \/ q = 0 /\ \A j \in 1..Len(f) : g[j].directive # "endif"
    BY LastLine
  <2> HIDE DEF p, q
  <2>3. p = q
    BY <2>1, <2>2
  <2> QED BY <2>3 DEF p, q
<1> QED BY <1>1, <1>2 DEF Guards!GuardIfndef, Guards!GuardDefine

LEMMA HeaderTyped ==
  ASSUME Guards!GuardAssumption, NEW f \in Seq(HeaderLines)
  PROVE  /\ Len(f) \in Nat /\ DOMAIN f = 1..Len(f)
         /\ \A i \in 1..Len(f) : f[i] \in [directive : {"ifndef", "define", "endif", "text"},
              name : STRING, comment : {"none", "//", "/*"}, nolint : {"none", "guard", "any"}]
<1>1. Len(f) \in Nat /\ DOMAIN f = 1..Len(f) /\ \A i \in 1..Len(f) : f[i] \in HeaderLines
  BY LenProperties, ElementOfSeq
<1> QED BY <1>1 DEF Guards!GuardAssumption

LEMMA GuardReport ==
  ASSUME NEW f, NEW X, NEW e, Guards!GuardIfndef(f) = 1, Guards!GuardDefine(f) = 2,
         Guards!GuardEndif(f) = e,
         Guards!NameComplaint(1, f[1].name) \cup Guards!EndifComplaint(f, e) = X
  PROVE  Guards!CheckForHeaderGuard(f) =
           IF \E k \in DOMAIN f : f[k].nolint = "guard" THEN {}
           ELSE IF f[1].name # f[2].name THEN {Guards!Complaint(0, 5)}
           ELSE {c \in X : c.line = 0 \/ f[c.line].nolint = "none"}
BY DEF Guards!CheckForHeaderGuard

\* The body of a header does not matter: its lines are neither the first
\* #ifndef and #define nor the last #endif.
LEMMA BodyDoesNotMatter ==
  ASSUME Guards!GuardAssumption, lines \in Seq(HeaderLines)
  PROVE  Guards!BodyIrrelevant
<1> DEFINE n == Len(lines)
           outer == <<lines[1], lines[2], lines[n]>>
           said == Guards!CheckForHeaderGuard(lines)
           brief == Guards!CheckForHeaderGuard(outer)
<1>1. n \in Nat /\ DOMAIN lines = 1..n /\ DOMAIN outer = 1..3 /\ Len(outer) = 3
  BY HeaderTyped
<1> SUFFICES ASSUME n > 3, lines[1].directive = "ifndef", lines[2].directive = "define",
                    lines[n].directive = "endif",
                    \A i \in 3..n - 1 : lines[i].nolint # "guard",
                    lines[n].comment = "/*" => \A i \in 3..n - 1 : lines[i].comment # "//"
             PROVE  said = {IF c.line = 3 THEN [c EXCEPT !.line = n] ELSE c : c \in brief}
  BY DEF Guards!BodyIrrelevant
<1>2. Guards!GuardIfndef(lines) = 1 /\ Guards!GuardDefine(lines) = 2
  <2>1. Guards!FirstOf(lines, "ifndef") = 1
    BY <1>1, FirstLine
  <2>2. Guards!FirstOf(lines, "define") = 2
    BY <1>1, FirstLine
  <2> QED BY <2>1, <2>2 DEF Guards!GuardIfndef, Guards!GuardDefine
<1>3. Guards!GuardEndif(lines) = n
  <2> HIDE DEF said, brief, outer
  <2>1. /\ Guards!GuardEndif(lines) \in 1..n
        /\ \A j \in 1..n : lines[j].directive = "endif" => Guards!GuardEndif(lines) >= j
    BY <1>1, LastLine
  <2> QED BY <1>1, <2>1
<1>4. Guards!GuardIfndef(outer) = 1 /\ Guards!GuardDefine(outer) = 2
  <2>1. Guards!FirstOf(outer, "ifndef") = 1
    BY <1>1, FirstLine
  <2>2. Guards!FirstOf(outer, "define") = 2
    BY <1>1, FirstLine
  <2> QED BY <2>1, <2>2 DEF Guards!GuardIfndef, Guards!GuardDefine
<1>5. Guards!GuardEndif(outer) = 3
  BY <1>1, LastLine
<1>6. (\E k \in DOMAIN lines : lines[k].nolint = "guard") <=>
      (\E k \in DOMAIN outer : outer[k].nolint = "guard")
  BY <1>1
<1>7. lines[n].comment = "/*" =>
        ((\E k \in DOMAIN lines : lines[k].comment = "//") <=>
         (\E k \in DOMAIN outer : outer[k].comment = "//"))
  BY <1>1
<1> DEFINE advice(k) == Guards!NameComplaint(1, lines[1].name) \cup
                    (IF /\ lines[n].name \in {Guards!Var, Guards!VarOld}
                        /\ \/ lines[n].comment = "//"
                           \/ /\ lines[n].comment = "/*"
                              /\ ~\E j \in DOMAIN lines : lines[j].comment = "//"
                     THEN Guards!NameComplaint(k, lines[n].name)
                     ELSE {Guards!Complaint(k, 5)})
<1>8. Guards!NameComplaint(1, lines[1].name) \cup Guards!EndifComplaint(lines, n) = advice(n)
  BY <1>1 DEF Guards!EndifComplaint
<1>9. Guards!NameComplaint(1, lines[1].name) \cup Guards!EndifComplaint(outer, 3) = advice(3)
  BY <1>7 DEF Guards!EndifComplaint
<1>10. outer[1] = lines[1] /\ outer[2] = lines[2] /\ outer[3] = lines[n]
  OBVIOUS
<1> HIDE DEF advice, outer, n
<1>11. said = IF \E k \in DOMAIN lines : lines[k].nolint = "guard" THEN {}
                ELSE IF lines[1].name # lines[2].name THEN {Guards!Complaint(0, 5)}
                ELSE {c \in advice(n) : c.line = 0 \/ lines[c.line].nolint = "none"}
  BY <1>2, <1>3, <1>8, GuardReport, SMTT(30)
<1>12. brief = IF \E k \in DOMAIN lines : lines[k].nolint = "guard" THEN {}
               ELSE IF lines[1].name # lines[2].name THEN {Guards!Complaint(0, 5)}
               ELSE {c \in advice(3) : c.line = 0 \/ outer[c.line].nolint = "none"}
  BY <1>4, <1>5, <1>6, <1>9, <1>10, GuardReport, SMTT(30)
<1>13. \A k \in Nat : \A c \in advice(k) : c = Guards!Complaint(c.line, c.confidence)
                                       /\ c.line \in {1, k}
  BY DEF advice, Guards!NameComplaint, Guards!Complaint
<1>14. \A x : Guards!Complaint(n, x) \in advice(n) <=> Guards!Complaint(3, x) \in advice(3)
  BY <1>1 DEF advice, Guards!NameComplaint, Guards!Complaint
<1>15. \A x : Guards!Complaint(1, x) \in advice(n) <=> Guards!Complaint(1, x) \in advice(3)
  BY <1>1 DEF advice, Guards!NameComplaint, Guards!Complaint
<1> DEFINE moved(c) == IF c.line = 3 THEN [c EXCEPT !.line = n] ELSE c
           kept == {c \in advice(n) : c.line = 0 \/ lines[c.line].nolint = "none"}
           brieflyKept == {c \in advice(3) : c.line = 0 \/ outer[c.line].nolint = "none"}
<1>16. kept = {moved(c) : c \in brieflyKept}
  <2>1. ASSUME NEW c \in brieflyKept PROVE moved(c) \in kept
    <3>1. c = Guards!Complaint(c.line, c.confidence) /\ c.line \in {1, 3}
      BY <1>13
    <3>2. CASE c.line = 3
      <4>1. moved(c) = Guards!Complaint(n, c.confidence)
        BY <3>1, <3>2 DEF Guards!Complaint
      <4>2. moved(c) \in advice(n)
        BY <1>14, <3>1, <3>2, <4>1
      <4>3. moved(c).line = n
        BY <4>1 DEF Guards!Complaint
      <4>4. lines[n].nolint = "none"
        BY <1>10, <3>2
      <4> HIDE DEF moved
      <4> QED BY <4>2, <4>3, <4>4
    <3>3. CASE c.line = 1
      <4>1. c \in advice(n)
        BY <1>15, <3>1, <3>3
      <4> QED BY <1>10, <3>3, <4>1
    <3> QED BY <3>1, <3>2, <3>3
  <2>2. ASSUME NEW c \in kept PROVE \E b \in brieflyKept : c = moved(b)
    <3>1. c = Guards!Complaint(c.line, c.confidence) /\ c.line \in {1, n}
      BY <1>1, <1>13
    <3>2. CASE c.line = n
      <4> DEFINE b == Guards!Complaint(3, c.confidence)
      <4>1. b \in advice(3) /\ b.line = 3
        BY <1>14, <3>1, <3>2 DEF Guards!Complaint
      <4>2. moved(b) = c
        BY <3>1, <3>2 DEF Guards!Complaint
      <4>3. b \in brieflyKept
        BY <1>1, <1>10, <3>2, <4>1
      <4> QED BY <4>2, <4>3
    <3>3. CASE c.line = 1
      <4>1. c \in advice(3)
        BY <1>15, <3>1, <3>3
      <4>2. c \in brieflyKept
        BY <1>1, <1>10, <3>3, <4>1
      <4> QED BY <3>3, <4>2
    <3> QED BY <3>1, <3>2, <3>3
  <2> HIDE DEF kept, brieflyKept
  <2>3. {moved(c) : c \in brieflyKept} \subseteq kept
    BY <2>1
  <2>4. kept \subseteq {moved(c) : c \in brieflyKept}
    <3> HIDE DEF moved
    <3> QED BY <2>2
  <2> QED BY <2>3, <2>4
<1>17. {moved(c) : c \in {}} = {}
  OBVIOUS
<1>18. {moved(c) : c \in {Guards!Complaint(0, 5)}} = {Guards!Complaint(0, 5)}
  <2>1. moved(Guards!Complaint(0, 5)) = Guards!Complaint(0, 5)
    BY DEF Guards!Complaint
  <2> HIDE DEF moved
  <2> QED BY <2>1
<1>19. said = {moved(c) : c \in brief}
  <2> HIDE DEF moved, kept, brieflyKept, said, brief
  <2> QED BY <1>11, <1>12, <1>16, <1>17, <1>18 DEF kept, brieflyKept
<1> QED BY <1>19

\* The header after the advice has its directives in the same lines, and no
\* name or comment to complain of.
LEMMA AdviceHelps ==
  ASSUME Guards!GuardAssumption, lines \in Seq(HeaderLines)
  PROVE  Guards!SuggestionsHelp
<1> DEFINE i == Guards!GuardIfndef(lines)
           d == Guards!GuardDefine(lines)
           e == Guards!GuardEndif(lines)
           g == Guards!Mended
           said == Guards!CheckForHeaderGuard(lines)
<1> SUFFICES ASSUME e # 0, \A c \in said : c.line # 0
             PROVE  Guards!CheckForHeaderGuard(g) = {}
  BY DEF Guards!SuggestionsHelp
<1>1. /\ Len(lines) \in Nat /\ DOMAIN lines = 1..Len(lines)
      /\ \A k \in 1..Len(lines) :
           lines[k] \in [directive : {"ifndef", "define", "endif", "text"}, name : STRING,
             comment : {"none", "//", "/*"}, nolint : {"none", "guard", "any"}]
  BY HeaderTyped
<1>2. DOMAIN g = 1..Len(lines)
  BY <1>1 DEF Guards!Mended
<1>3. \A k \in 1..Len(lines) : /\ (k = i => lines[k].directive = "ifndef")
                                /\ (k = d => lines[k].directive = "define")
                                /\ (k = e => lines[k].directive = "endif")
  BY <1>1, FirstLine, LastLine DEF Guards!GuardIfndef, Guards!GuardDefine
<1>4. ASSUME NEW k \in 1..Len(lines)
      PROVE  g[k] = CASE k \in {i, d} -> [lines[k] EXCEPT !.name = Guards!Var]
                      [] k = e -> [lines[k] EXCEPT !.name = Guards!Var, !.comment = "//"]
                      [] OTHER -> lines[k]
  BY <1>1 DEF Guards!Mended, Guards!GuardDefine
<1>5. ASSUME NEW k \in 1..Len(lines)
      PROVE  /\ g[k].directive = lines[k].directive /\ g[k].nolint = lines[k].nolint
             /\ k \in {i, d} => g[k].name = Guards!Var
             /\ k = e => g[k].name = Guards!Var /\ g[k].comment = "//"
  <2> HIDE DEF i, d, e, g
  <2>1. lines[k] \in [directive : {"ifndef", "define", "endif", "text"}, name : STRING,
             comment : {"none", "//", "/*"}, nolint : {"none", "guard", "any"}]
    BY <1>1
  <2>2. k = e => k \notin {i, d}
    BY <1>3
  <2>3. CASE k \in {i, d}
    <3>1. g[k] = [lines[k] EXCEPT !.name = Guards!Var]
      BY <1>4, <2>2, <2>3
    <3> QED BY <2>1, <2>2, <2>3, <3>1 DEF Guards!Var
  <2>4. CASE k = e
    <3>1. g[k] = [lines[k] EXCEPT !.name = Guards!Var, !.comment = "//"]
      BY <1>4, <2>2, <2>4
    <3> QED BY <2>1, <2>2, <2>4, <3>1 DEF Guards!Var
  <2>5. CASE k \notin {i, d, e}
    <3>1. g[k] = lines[k]
      BY <1>4, <2>5
    <3> QED BY <2>1, <2>5, <3>1
  <2> QED BY <2>3, <2>4, <2>5
<1>6. Len(g) = Len(lines)
  BY <1>1, <1>2
<1>7. Guards!GuardIfndef(g) = i /\ Guards!GuardDefine(g) = d /\ Guards!GuardEndif(g) = e
  BY <1>1, <1>5, <1>6, SameDirectives
<1> HIDE DEF g
<1>8. CASE \E k \in DOMAIN lines : lines[k].nolint = "guard"
  BY <1>1, <1>2, <1>5, <1>8 DEF Guards!CheckForHeaderGuard
<1>9. CASE \A k \in DOMAIN lines : lines[k].nolint # "guard"
  <2>1. i # 0 /\ d # 0
    BY <1>9 DEF Guards!CheckForHeaderGuard, Guards!Complaint
  <2>2. /\ i \in 1..Len(lines) /\ lines[i].directive = "ifndef"
        /\ d \in 1..Len(lines) /\ lines[d].directive = "define"
        /\ e \in 1..Len(lines) /\ lines[e].directive = "endif"
    BY <1>1, <2>1, FirstLine, LastLine DEF Guards!GuardIfndef, Guards!GuardDefine
  <2> HIDE DEF i, d, e
  <2>3. g[i].name = Guards!Var /\ g[d].name = Guards!Var
        /\ g[e].name = Guards!Var /\ g[e].comment = "//"
    BY <1>5, <2>2
  <2>4. Guards!NameComplaint(i, g[i].name) = {}
    BY <2>3 DEF Guards!NameComplaint, Guards!Var, Guards!VarOld
  <2>5. Guards!EndifComplaint(g, e) = {}
    <3>1. Guards!NameComplaint(e, g[e].name) = {}
      BY <2>3 DEF Guards!NameComplaint, Guards!Var, Guards!VarOld
    <3> QED BY <2>2, <2>3, <3>1 DEF Guards!EndifComplaint
  <2>6. \A k \in DOMAIN g : g[k].nolint # "guard"
    BY <1>1, <1>2, <1>5, <1>9
  <2> QED BY <1>7, <2>1, <2>3, <2>4, <2>5, <2>6 DEF Guards!CheckForHeaderGuard
<1> QED BY <1>8, <1>9

\* CheckForHeaderGuard looks at three lines of a header, and what it advises
\* leads to a header it accepts.
THEOREM GuardFound == TextSpec => []GuardVerdict
<1>1. Guards!GuardAssumption
  BY LintTextAssumption
<1>2. Guards!Init => lines \in Seq(HeaderLines)
  BY DEF Guards!Init
<1>3. lines \in Seq(HeaderLines) /\ [Guards!Next]_lines => (lines \in Seq(HeaderLines))'
  BY AppendProperties DEF Guards!Next, Guards!AddLine
<1>4. lines \in Seq(HeaderLines) => Guards!BodyIrrelevant /\ Guards!SuggestionsHelp
  BY <1>1, BodyDoesNotMatter, AdviceHelps
<1>5. [TextNext]_textVars => (what = "guards" <=> (what = "guards")')
  BY OneCheck
<1>6. GuardVerdict <=> (what = "guards" => Guards!BodyIrrelevant /\ Guards!SuggestionsHelp)
  BY DEF GuardVerdict
<1> QED BY <1>2, <1>3, <1>4, <1>5, <1>6, GuardsBehaviour, PTL DEF TextSpec

-------------------------------------------------------------------------------
(* CheckForFunctionLengths and _FunctionState.                             *)

LinesTyped ==
  /\ file \in Seq(FunctionLines) /\ verbosity \in 0..MaxConfidence
  /\ lineno \in 1..Len(file) + 1
  /\ inFunction \in BOOLEAN /\ function \in {"plain", "test"} /\ count \in Nat

\* The function that begins at h goes on to the next line.
Within(h) ==
  /\ h \in 1..lineno - 1 /\ Lengths!IsHead(h)
  /\ \A i \in h + 1..lineno - 1 : ~Lengths!IsHead(i) /\ ~file[i].end

\* The one _FunctionState holds the function that the next line stands in, and
\* the lines of that function alone.
Counted ==
  /\ inFunction => \E h : Within(h) /\ function = file[h].head /\ count = Lengths!Size(h, lineno)
  /\ ~inFunction => \A h : ~Within(h)

LengthsInv ==
  /\ LinesTyped /\ Counted
  /\ Lengths!OversizeReported /\ Lengths!SureEnoughToPrint

-------------------------------------------------------------------------------
LEMMA FileTypedHere ==
  ASSUME Lengths!FunctionsAssumption, LinesTyped
  PROVE  /\ Len(file) \in Nat /\ DOMAIN file = 1..Len(file) /\ lineno \in Nat
         /\ \A i \in 1..Len(file) :
              /\ file[i] \in [head : {"no", "plain", "test"}, mark : {"none", "stop", "open"},
                              end : BOOLEAN, blank : BOOLEAN]
              /\ (file[i].end => file[i].head = "no")
<1>1. Len(file) \in Nat /\ DOMAIN file = 1..Len(file)
      /\ \A i \in 1..Len(file) : file[i] \in FunctionLines
  BY LenProperties, ElementOfSeq DEF LinesTyped
<1> QED BY <1>1 DEF Lengths!FunctionsAssumption, LinesTyped

\* What the file says does not change.
LEMMA FileKept ==
  ASSUME file' = file, verbosity' = verbosity
  PROVE  /\ \A i : Lengths!IsHead(i)' <=> Lengths!IsHead(i)
         /\ \A f : Lengths!Trigger(f)' = Lengths!Trigger(f)
         /\ \A h, e : Lengths!Size(h, e)' = Lengths!Size(h, e)
         /\ \A h, e : Lengths!IsFunction(h, e)' <=> Lengths!IsFunction(h, e)
         /\ Lengths!Functions' = Lengths!Functions
<1>1. \A i : Lengths!IsHead(i)' <=> Lengths!IsHead(i)
  BY DEF Lengths!IsHead, Lengths!BodyLine, Lengths!SelectInSubSeq
<1>2. \A f : Lengths!Trigger(f)' = Lengths!Trigger(f)
  BY DEF Lengths!Trigger
<1>3. \A h, e : Lengths!Size(h, e)' = Lengths!Size(h, e)
  BY DEF Lengths!Size
<1>4. \A h, e : Lengths!IsFunction(h, e)' <=> Lengths!IsFunction(h, e)
  BY <1>1 DEF Lengths!IsFunction
<1>5. Lengths!Functions' = Lengths!Functions
  BY <1>4 DEF Lengths!Functions
<1> QED BY <1>1, <1>2, <1>3, <1>4, <1>5

\* The next line begins a function, ends one, or stands in the one before it.
LEMMA WithinNext ==
  ASSUME Lengths!FunctionsAssumption, LinesTyped, Lengths!Processing
  PROVE  \A h : Within(h)' <=> \/ h = lineno /\ Lengths!IsHead(lineno)
                               \/ Within(h) /\ ~Lengths!IsHead(lineno) /\ ~file[lineno].end
<1>1. lineno \in Nat /\ lineno >= 1 /\ lineno' = lineno + 1 /\ file' = file
      /\ verbosity' = verbosity
  BY FileTypedHere DEF Lengths!Processing, LinesTyped
<1>2. \A h : Within(h)' <=> /\ h \in 1..lineno /\ Lengths!IsHead(h)
                            /\ \A i \in h + 1..lineno : ~Lengths!IsHead(i) /\ ~file[i].end
  BY <1>1, FileKept DEF Within
<1>3. ASSUME NEW h
      PROVE  Within(h)' <=> \/ h = lineno /\ Lengths!IsHead(lineno)
                            \/ Within(h) /\ ~Lengths!IsHead(lineno) /\ ~file[lineno].end
  <2>1. CASE h \in 1..lineno - 1
    <3>1. h + 1..lineno = (h + 1..lineno - 1) \cup {lineno}
      BY <1>1, <2>1
    <3> QED BY <1>1, <1>2, <2>1, <3>1 DEF Within
  <2>2. CASE h = lineno
    BY <1>1, <1>2, <2>2 DEF Within
  <2>3. CASE h \notin 1..lineno
    BY <1>1, <1>2, <2>3 DEF Within
  <2> QED BY <1>1, <2>1, <2>2, <2>3
<1> QED BY <1>3

LEMMA WithinUnique ==
  ASSUME lineno \in Nat, NEW g, NEW h, Within(g), Within(h)
  PROVE  g = h
BY DEF Within

\* The function that ends with the next line is the one it stands in.
LEMMA EndsHere ==
  ASSUME Lengths!FunctionsAssumption, LinesTyped, lineno <= Len(file), NEW h
  PROVE  /\ Lengths!IsFunction(h, lineno) /\ h \in 1..Len(file) <=> Within(h) /\ file[lineno].end
         /\ Within(h) => <<h, lineno>> \in (1..Len(file)) \X (1..Len(file))
BY FileTypedHere DEF Lengths!IsFunction, Within, LinesTyped

LEMMA SameCardinality ==
  ASSUME NEW S PROVE Lengths!Cardinality(S) = Cardinality(S)
BY Zenon DEF Lengths!Cardinality, Cardinality

Body(h, e) == {i \in h + 1..e - 1 : file[i].head = "no" /\ ~file[i].blank}

LEMMA SizeOfBody == ASSUME NEW h, NEW e PROVE Lengths!Size(h, e) = Cardinality(Body(h, e))
BY SameCardinality DEF Lengths!Size, Body

\* Lines are added to the size of a function one by one.
LEMMA SizeNext ==
  ASSUME Lengths!FunctionsAssumption, LinesTyped, lineno <= Len(file), NEW h \in 1..lineno - 1
  PROVE  /\ Lengths!Size(h, lineno) \in Nat
         /\ Lengths!Size(h, lineno + 1) =
              IF file[lineno].head = "no" /\ ~file[lineno].blank
              THEN Lengths!Size(h, lineno) + 1 ELSE Lengths!Size(h, lineno)
         /\ Lengths!Size(lineno, lineno + 1) = 0
<1>1. lineno \in Nat
  BY FileTypedHere
<1>2. IsFiniteSet(Body(h, lineno))
  <2>1. IsFiniteSet(h + 1..lineno - 1)
    BY <1>1, FS_Interval
  <2> QED BY <2>1, FS_Subset DEF Body
<1>3. Body(h, lineno + 1) = IF file[lineno].head = "no" /\ ~file[lineno].blank
                          THEN Body(h, lineno) \cup {lineno} ELSE Body(h, lineno)
  <2>1. h + 1..(lineno + 1) - 1 = (h + 1..lineno - 1) \cup {lineno}
    BY <1>1
  <2> QED BY <2>1 DEF Body
<1>4. lineno \notin Body(h, lineno)
  BY <1>1 DEF Body
<1>5. Body(lineno, lineno + 1) = {}
  BY <1>1 DEF Body
<1>6. /\ Cardinality(Body(h, lineno)) \in Nat
      /\ Cardinality(Body(h, lineno) \cup {lineno}) = Cardinality(Body(h, lineno)) + 1
  BY <1>2, <1>4, FS_AddElement, FS_CardinalityType
<1>7. Cardinality(Body(lineno, lineno + 1)) = 0
  BY <1>5, FS_EmptySet
<1> QED BY <1>3, <1>6, <1>7, SizeOfBody

\* A step that begins no function and ends none leaves no function too long.
LEMMA LengthsCount ==
  ASSUME Lengths!FunctionsAssumption, LinesTyped, Counted, Lengths!Processing,
         ~Lengths!IsHead(lineno), ~file[lineno].end, UNCHANGED <<function, inFunction>>,
         count' = IF inFunction /\ file[lineno].head = "no" /\ ~file[lineno].blank
                  THEN count + 1 ELSE count
  PROVE  LinesTyped' /\ Counted'
<1>1. lineno \in Nat /\ Len(file) \in Nat /\ lineno <= Len(file) /\ lineno' = lineno + 1
      /\ file' = file /\ verbosity' = verbosity
  BY FileTypedHere DEF Lengths!Processing
<1>2. LinesTyped'
  BY <1>1 DEF LinesTyped
<1>3. \A h : Within(h)' <=> Within(h)
  <2>1. \A h : Within(h) => h # lineno
    BY <1>1 DEF Within
  <2> QED BY <2>1, WithinNext
<1>4. CASE inFunction
  <2>1. PICK h : Within(h) /\ function = file[h].head /\ count = Lengths!Size(h, lineno)
    BY <1>4 DEF Counted
  <2>2. h \in 1..lineno - 1
    BY <2>1 DEF Within
  <2>3. count' = Lengths!Size(h, lineno + 1)
    BY <1>1, <1>4, <2>1, <2>2, SizeNext
  <2>4. Lengths!Size(h, lineno)' = Lengths!Size(h, lineno + 1)
    BY <1>1, FileKept
  <2>5. Within(h)' /\ function' = file'[h].head /\ count' = Lengths!Size(h, lineno)'
    BY <1>1, <1>3, <2>1, <2>3, <2>4
  <2> QED BY <1>2, <1>4, <2>5 DEF Counted
<1>5. CASE ~inFunction
  BY <1>2, <1>3, <1>5 DEF Counted
<1> QED BY <1>4, <1>5 DEF LinesTyped

LEMMA LengthsBegin ==
  ASSUME Lengths!FunctionsAssumption, LinesTyped, Counted, Lengths!Begin
  PROVE  LinesTyped' /\ Counted'
<1>1. lineno \in Nat /\ Len(file) \in Nat /\ lineno <= Len(file) /\ lineno' = lineno + 1
      /\ file' = file /\ verbosity' = verbosity
  BY FileTypedHere DEF Lengths!Processing, Lengths!Begin
<1>2. LinesTyped'
  BY <1>1, FileTypedHere DEF LinesTyped, Lengths!Begin
<1>3. PICK h : h = lineno
  OBVIOUS
<1>4. Lengths!IsHead(lineno) /\ Lengths!Processing
  BY DEF Lengths!Begin, Lengths!IsHead
<1>5. Within(h)'
  BY <1>3, <1>4, WithinNext
<1>6. Lengths!Size(h, lineno)' = 0
  <2>1. Lengths!Size(h, lineno)' = Lengths!Size(lineno, lineno + 1)
    BY <1>1, <1>3, FileKept
  <2>2. Body(lineno, lineno + 1) = {}
    BY <1>1 DEF Body
  <2> QED BY <2>1, <2>2, SizeOfBody, FS_EmptySet
<1>7. inFunction' = TRUE /\ function' = file'[h].head /\ count' = 0
  BY <1>1, <1>3 DEF Lengths!Begin
<1> QED BY <1>2, <1>5, <1>6, <1>7 DEF Counted

LEMMA LengthsEnd ==
  ASSUME Lengths!FunctionsAssumption, LinesTyped, Counted, Lengths!End
  PROVE  LinesTyped' /\ Counted'
<1>1. /\ lineno \in 1..Len(file) /\ Len(file) \in Nat /\ lineno' = lineno + 1
      /\ file' = file /\ verbosity' = verbosity
  BY FileTypedHere DEF Lengths!Processing, Lengths!End, LinesTyped
<1>2. /\ Lengths!Processing /\ file[lineno].end
      /\ inFunction' = FALSE /\ function' = function /\ count' = count
  BY DEF Lengths!End
<1>3. inFunction' \in BOOLEAN
  BY <1>2, Zenon
<1>4. LinesTyped'
  BY <1>1, <1>2, <1>3 DEF LinesTyped
<1>5. ~Lengths!IsHead(lineno)
  BY <1>1, <1>2, FileTypedHere DEF Lengths!IsHead
<1>6. \A h : ~Within(h)'
  BY <1>2, <1>5, WithinNext
<1> QED BY <1>2, <1>4, <1>6 DEF Counted

-------------------------------------------------------------------------------
\* The reports that the lines before m should have led to.
Reports(m) ==
  {Lengths!SizeReport(f[2], file[f[1]].head, Lengths!Size(f[1], f[2])) :
     f \in {g \in Lengths!Functions :
              /\ g[2] < m
              /\ Lengths!Size(g[1], g[2]) > Lengths!Trigger(file[g[1]].head)}}

LEMMA ReportsAreThose ==
  Lengths!OversizeReported <=> {r \in reports : r.what = "size"} = Reports(lineno)
BY DEF Lengths!OversizeReported, Reports

\* A line that does not end the function it stands in leads to no report.
LEMMA ReportsSame ==
  ASSUME Lengths!FunctionsAssumption, LinesTyped, Lengths!Processing,
         ~file[lineno].end \/ \A h : ~Within(h)
  PROVE  Reports(lineno)' = Reports(lineno)
<1>1. lineno \in Nat /\ Len(file) \in Nat /\ lineno <= Len(file) /\ lineno' = lineno + 1
      /\ file' = file /\ verbosity' = verbosity
  BY FileTypedHere DEF Lengths!Processing
<1>2. \A f \in Lengths!Functions : f[2] \in Nat /\ f[2] # lineno
  BY <1>1, EndsHere DEF Lengths!Functions
<1>3. \A f \in Lengths!Functions : f[2] < lineno + 1 <=> f[2] < lineno
  BY <1>1, <1>2
<1>4. Reports(lineno)' = Reports(lineno + 1)
  BY <1>1, FileKept DEF Reports, Lengths!SizeReport, Lengths!Confidence
<1>5. Reports(lineno + 1) = Reports(lineno)
  BY <1>3 DEF Reports
<1> QED BY <1>4, <1>5

\* The one function that ends with a line has been counted.
LEMMA ReportsNext ==
  ASSUME Lengths!FunctionsAssumption, LinesTyped, Lengths!Processing, file[lineno].end,
         NEW h, Within(h)
  PROVE  Reports(lineno)' = Reports(lineno) \cup
           (IF Lengths!Size(h, lineno) > Lengths!Trigger(file[h].head)
            THEN {Lengths!SizeReport(lineno, file[h].head, Lengths!Size(h, lineno))} ELSE {})
<1>1. lineno \in Nat /\ Len(file) \in Nat /\ lineno <= Len(file) /\ lineno' = lineno + 1
      /\ file' = file /\ verbosity' = verbosity
  BY FileTypedHere DEF Lengths!Processing
<1>2. <<h, lineno>> \in Lengths!Functions
  BY <1>1, EndsHere DEF Lengths!Functions
<1>3. \A f \in Lengths!Functions : f = <<f[1], f[2]>> /\ f[2] \in Nat /\ f[1] \in 1..Len(file)
  BY <1>1 DEF Lengths!Functions
<1>4. ASSUME NEW f \in Lengths!Functions, f[2] = lineno PROVE f = <<h, lineno>>
  <2>1. Lengths!IsFunction(f[1], lineno)
    BY <1>4 DEF Lengths!Functions
  <2>2. Within(f[1])
    BY <1>1, <1>3, <2>1, EndsHere
  <2> QED BY <1>1, <1>3, <1>4, <2>2, WithinUnique
<1>5. \A f \in Lengths!Functions : f[2] < lineno + 1 <=> (f[2] < lineno \/ f = <<h, lineno>>)
  BY <1>1, <1>3, <1>4
<1>6. Reports(lineno)' = Reports(lineno + 1)
  BY <1>1, FileKept DEF Reports, Lengths!SizeReport, Lengths!Confidence
<1> DEFINE said(f) == Lengths!SizeReport(f[2], file[f[1]].head, Lengths!Size(f[1], f[2]))
           long(f) == Lengths!Size(f[1], f[2]) > Lengths!Trigger(file[f[1]].head)
<1>7. Reports(lineno) = {said(f) : f \in {g \in Lengths!Functions : g[2] < lineno /\ long(g)}}
  BY DEF Reports
<1>8. Reports(lineno + 1) =
        {said(f) : f \in {g \in Lengths!Functions : g[2] < lineno + 1 /\ long(g)}}
  BY DEF Reports
<1>9. said(<<h, lineno>>) = Lengths!SizeReport(lineno, file[h].head, Lengths!Size(h, lineno))
      /\ (long(<<h, lineno>>) <=> Lengths!Size(h, lineno) > Lengths!Trigger(file[h].head))
  OBVIOUS
<1> HIDE DEF said, long
<1>10. CASE long(<<h, lineno>>)
  <2>1. Reports(lineno + 1) = Reports(lineno) \cup {said(<<h, lineno>>)}
    BY <1>2, <1>5, <1>7, <1>8, <1>10
  <2> QED BY <1>6, <1>9, <1>10, <2>1
<1>11. CASE ~long(<<h, lineno>>)
  <2>1. Reports(lineno + 1) = Reports(lineno)
    BY <1>2, <1>5, <1>7, <1>8, <1>11
  <2> QED BY <1>6, <1>9, <1>11, <2>1
<1> QED BY <1>10, <1>11

-------------------------------------------------------------------------------
LEMMA Doubling ==
  ASSUME Lengths!FunctionsAssumption, Lengths!PowersGrow, NEW f, NEW c \in 0..MaxConfidence + 1,
         NEW d \in 0..MaxConfidence + 1, c <= d
  PROVE  /\ Lengths!Base(f) * 2^c \in Nat /\ Lengths!Base(f) * 2^d \in Nat
         /\ Lengths!Base(f) * 2^c <= Lengths!Base(f) * 2^d
<1>1. Lengths!Base(f) \in Nat
  BY DEF Lengths!FunctionsAssumption, Lengths!Base
<1>2. 2^c \in Nat /\ 2^d \in Nat /\ 2^c <= 2^d
  BY DEF Lengths!PowersGrow
<1>3. ASSUME NEW a \in Nat, NEW x \in Nat, NEW y \in Nat, x <= y
      PROVE  a * x \in Nat /\ a * y \in Nat /\ a * x <= a * y
  BY <1>3, SMTT(30)
<1> DEFINE p == 2^c  q == 2^d
<1> HIDE DEF p, q
<1>4. p \in Nat /\ q \in Nat /\ p <= q
  BY <1>2 DEF p, q
<1>5. Lengths!Base(f) * p \in Nat /\ Lengths!Base(f) * q \in Nat
      /\ Lengths!Base(f) * p <= Lengths!Base(f) * q
  BY <1>1, <1>3, <1>4
<1> QED BY <1>5 DEF p, q

\* A size above the trigger has a confidence no lower than the verbosity.
LEMMA ConfidenceEnough ==
  ASSUME Lengths!FunctionsAssumption, Lengths!PowersGrow, verbosity \in 0..MaxConfidence,
         NEW f, NEW size \in Nat, size > Lengths!Trigger(f)
  PROVE  Lengths!Confidence(size, f) >= verbosity /\ Lengths!Confidence(size, f) \in Nat
<1> DEFINE atLevel(c) == Lengths!Base(f) * 2^c
           fits(c) == atLevel(c) <= size /\ (c < MaxConfidence => size < atLevel(c + 1))
<1>1. MaxConfidence \in Nat
  BY DEF Lengths!FunctionsAssumption
<1>2. \A c, d \in 0..MaxConfidence + 1 :
        c <= d => atLevel(c) \in Nat /\ atLevel(d) \in Nat /\ atLevel(c) <= atLevel(d)
  BY Doubling
<1>3. size > atLevel(verbosity)
  BY DEF Lengths!Trigger
<1>4. Lengths!Confidence(size, f) = CHOOSE c \in 0..MaxConfidence : fits(c)
  BY DEF Lengths!Confidence
<1> HIDE DEF atLevel
<1> DEFINE S == {c + 1 : c \in {b \in 0..MaxConfidence : atLevel(b) <= size}}
<1>5. \E c \in 0..MaxConfidence : fits(c)
  <2>1. S \in SUBSET (1..MaxConfidence + 1) /\ MaxConfidence + 1 \in Nat
    BY <1>1
  <2>2. verbosity + 1 \in S
    BY <1>1, <1>2, <1>3
  <2>3. PICK m \in S : \A x \in S : m >= x
    <3> HIDE DEF S
    <3> QED BY <2>1, <2>2, Greatest
  <2>4. PICK c \in 0..MaxConfidence : m = c + 1 /\ atLevel(c) <= size
    OBVIOUS
  <2>5. ASSUME c < MaxConfidence PROVE size < atLevel(c + 1)
    <3>1. c + 1 \in 0..MaxConfidence /\ atLevel(c + 1) \in Nat
      BY <1>1, <1>2, <2>5
    <3>2. CASE atLevel(c + 1) <= size
      <4>1. c + 1 + 1 \in S
        BY <3>1, <3>2
      <4> HIDE DEF S
      <4> QED BY <2>3, <2>4, <4>1
    <3> QED BY <3>1, <3>2
  <2> QED BY <2>4, <2>5
<1>6. Lengths!Confidence(size, f) \in 0..MaxConfidence /\ fits(Lengths!Confidence(size, f))
  <2> HIDE DEF fits
  <2> QED BY <1>4, <1>5
<1>7. ASSUME NEW c \in 0..MaxConfidence, fits(c) PROVE c >= verbosity
  <2>1. CASE c < verbosity
    <3>1. c < MaxConfidence /\ size < atLevel(c + 1)
      BY <1>1, <1>7, <2>1
    <3>2. c + 1 \in 0..MaxConfidence + 1 /\ c + 1 <= verbosity /\ verbosity \in 0..MaxConfidence + 1
      BY <1>1, <2>1
    <3>3. /\ atLevel(c + 1) <= atLevel(verbosity)
          /\ atLevel(c + 1) \in Nat /\ atLevel(verbosity) \in Nat
      BY <1>2, <3>2
    <3> QED BY <1>3, <3>1, <3>3
  <2> QED BY <2>1
<1> QED BY <1>1, <1>6, <1>7

-------------------------------------------------------------------------------
LEMMA LengthsReported ==
  ASSUME Lengths!FunctionsAssumption, Lengths!PowersGrow, LengthsInv, Lengths!End
  PROVE  Lengths!OversizeReported' /\ Lengths!SureEnoughToPrint'
<1>1. LinesTyped /\ Counted /\ Lengths!OversizeReported /\ Lengths!SureEnoughToPrint
      /\ Lengths!Processing /\ file[lineno].end
  BY DEF LengthsInv, Lengths!End
<1>2. lineno \in Nat /\ verbosity' = verbosity /\ lineno' = lineno + 1
  BY <1>1, FileTypedHere DEF Lengths!Processing
<1>3. {r \in reports : r.what = "size"} = Reports(lineno)
  BY <1>1, ReportsAreThose
<1>4. \A l, f, c : /\ Lengths!SizeReport(l, f, c).what = "size"
                   /\ Lengths!SizeReport(l, f, c).confidence = Lengths!Confidence(c, f)
  BY DEF Lengths!SizeReport
<1>5. CASE inFunction /\ count > Lengths!Trigger(function)
  <2>1. PICK h : Within(h) /\ function = file[h].head /\ count = Lengths!Size(h, lineno)
    BY <1>1, <1>5 DEF Counted
  <2> DEFINE said == Lengths!SizeReport(lineno, function, count)
  <2>2. reports' = reports \cup {said}
    BY <1>5 DEF Lengths!End
  <2>3. Reports(lineno)' = Reports(lineno) \cup {said}
    BY <1>1, <1>5, <2>1, ReportsNext
  <2>4. {r \in reports' : r.what = "size"} = {r \in reports : r.what = "size"} \cup {said}
    BY <1>4, <2>2
  <2>5. Lengths!OversizeReported'
    <3> HIDE DEF said
    <3>1. {r \in reports' : r.what = "size"} = Reports(lineno)'
      BY <1>3, <2>3, <2>4
    <3> QED BY <3>1 DEF Lengths!OversizeReported, Reports
  <2>6. said.confidence >= verbosity
    BY <1>1, <1>4, <1>5, ConfidenceEnough DEF LinesTyped
  <2>7. Lengths!SureEnoughToPrint'
    BY <1>1, <1>2, <2>2, <2>6 DEF Lengths!SureEnoughToPrint
  <2> QED BY <2>5, <2>7
<1>6. CASE ~(inFunction /\ count > Lengths!Trigger(function))
  <2>1. reports' = reports
    BY <1>6 DEF Lengths!End
  <2>2. Reports(lineno)' = Reports(lineno)
    <3>1. CASE inFunction
      <4>1. PICK h : Within(h) /\ function = file[h].head /\ count = Lengths!Size(h, lineno)
        BY <1>1, <3>1 DEF Counted
      <4> QED BY <1>1, <1>6, <3>1, <4>1, ReportsNext
    <3>2. CASE ~inFunction
      BY <1>1, <3>2, ReportsSame DEF Counted
    <3> QED BY <3>1, <3>2
  <2>3. Lengths!OversizeReported'
    BY <1>3, <2>1, <2>2 DEF Lengths!OversizeReported, Reports
  <2>4. Lengths!SureEnoughToPrint'
    BY <1>1, <1>2, <2>1 DEF Lengths!SureEnoughToPrint
  <2> QED BY <2>3, <2>4
<1> QED BY <1>5, <1>6

LEMMA LengthsOther ==
  ASSUME Lengths!FunctionsAssumption, LengthsInv,
         Lengths!NoBody \/ Lengths!Trivial \/ Lengths!Begin \/ Lengths!Count
  PROVE  Lengths!OversizeReported' /\ Lengths!SureEnoughToPrint'
<1>1. LinesTyped /\ Counted /\ Lengths!OversizeReported /\ Lengths!SureEnoughToPrint
      /\ Lengths!Processing
  BY DEF LengthsInv, Lengths!NoBody, Lengths!Trivial, Lengths!Begin, Lengths!Count
<1>2. lineno \in 1..Len(file) /\ verbosity' = verbosity
  BY <1>1, FileTypedHere DEF Lengths!Processing, LinesTyped
<1>3. ~file[lineno].end
  BY <1>1, <1>2, FileTypedHere
    DEF Lengths!NoBody, Lengths!Trivial, Lengths!Begin, Lengths!Count
<1>4. Reports(lineno)' = Reports(lineno)
  BY <1>1, <1>3, ReportsSame
<1>5. {r \in reports' : r.what = "size"} = {r \in reports : r.what = "size"}
  BY DEF Lengths!NoBody, Lengths!Trivial, Lengths!Begin, Lengths!Count
<1>6. \A r \in reports' : r \in reports \/ r.confidence = MaxConfidence
  BY DEF Lengths!NoBody, Lengths!Trivial, Lengths!Begin, Lengths!Count
<1>7. Lengths!OversizeReported'
  BY <1>1, <1>4, <1>5 DEF Lengths!OversizeReported, Reports
<1>8. MaxConfidence >= verbosity
  BY <1>1 DEF LinesTyped, Lengths!FunctionsAssumption
<1>9. Lengths!SureEnoughToPrint'
  BY <1>1, <1>2, <1>6, <1>8 DEF Lengths!SureEnoughToPrint
<1> QED BY <1>7, <1>9

\* A line looks like the head of one function or like none.
LEMMA LengthsStates ==
  ASSUME Lengths!FunctionsAssumption, LinesTyped, Counted, Lengths!Next
  PROVE  LinesTyped' /\ Counted'
<1>1. CASE Lengths!Begin
  BY <1>1, LengthsBegin
<1>2. CASE Lengths!End
  BY <1>2, LengthsEnd
<1>3. CASE Lengths!Count
  <2>1. ~Lengths!IsHead(lineno)
    BY <1>3 DEF Lengths!Count, Lengths!IsHead
  <2>2. count' = IF inFunction /\ file[lineno].head = "no" /\ ~file[lineno].blank
                 THEN count + 1 ELSE count
    BY <1>3 DEF Lengths!Count
  <2> QED BY <1>3, <2>1, <2>2, LengthsCount DEF Lengths!Count
<1>4. CASE Lengths!NoBody \/ Lengths!Trivial
  <2>1. lineno \in 1..Len(file) /\ Lengths!Processing /\ file[lineno].head # "no"
    BY <1>4, FileTypedHere DEF Lengths!NoBody, Lengths!Trivial, Lengths!Processing, LinesTyped
  <2>2. ~file[lineno].end
    BY <2>1, FileTypedHere
  <2>3. ~Lengths!IsHead(lineno)
    BY <1>4 DEF Lengths!NoBody, Lengths!Trivial, Lengths!IsHead
  <2>4. UNCHANGED <<function, inFunction, count>>
    BY <1>4 DEF Lengths!NoBody, Lengths!Trivial, Lengths!state
  <2>5. count' = IF inFunction /\ file[lineno].head = "no" /\ ~file[lineno].blank
                 THEN count + 1 ELSE count
    BY <2>1, <2>4
  <2> QED BY <2>1, <2>2, <2>3, <2>4, <2>5, LengthsCount
<1> QED BY <1>1, <1>2, <1>3, <1>4 DEF Lengths!Next

LEMMA LengthsInductive ==
  ASSUME Lengths!FunctionsAssumption, Lengths!PowersGrow, LengthsInv,
         [Lengths!Next]_(Lengths!vars)
  PROVE  LengthsInv'
<1>1. CASE Lengths!Next
  <2>1. LinesTyped' /\ Counted'
    BY <1>1, LengthsStates DEF LengthsInv
  <2>2. Lengths!OversizeReported' /\ Lengths!SureEnoughToPrint'
    BY <1>1, LengthsReported, LengthsOther DEF Lengths!Next
  <2> QED BY <2>1, <2>2 DEF LengthsInv
<1>2. CASE UNCHANGED Lengths!vars
  <2> USE <1>2 DEF Lengths!vars, Lengths!state
  <2>1. LinesTyped' /\ Lengths!SureEnoughToPrint'
    BY DEF LengthsInv, LinesTyped, Lengths!SureEnoughToPrint
  <2>2. Counted'
    BY FileKept DEF LengthsInv, Counted, Within
  <2>3. Lengths!OversizeReported'
    BY FileKept DEF LengthsInv, Lengths!OversizeReported, Lengths!SizeReport, Lengths!Confidence
  <2> QED BY <2>1, <2>2, <2>3 DEF LengthsInv
<1> QED BY <1>1, <1>2

LEMMA LengthsBegun ==
  ASSUME Lengths!FunctionsAssumption, Lengths!Init PROVE LengthsInv
<1>1. file \in Seq(FunctionLines)
  BY DEF Lengths!Init, Lengths!BoundedSeq, Lengths!SeqOf
<1>2. Len(file) \in Nat
  BY <1>1, LenProperties
<1>3. inFunction \in BOOLEAN
  BY Zenon DEF Lengths!Init
<1>4. LinesTyped
  BY <1>1, <1>2, <1>3 DEF Lengths!Init, LinesTyped
<1>5. Counted
  BY DEF Lengths!Init, Counted, Within
<1>6. \A f \in Lengths!Functions : ~(f[2] < 1)
  BY <1>2 DEF Lengths!Functions
<1>7. Reports(1) = {}
  BY <1>6 DEF Reports
<1>8. Lengths!OversizeReported
  BY <1>7, ReportsAreThose DEF Lengths!Init
<1> QED BY <1>4, <1>5, <1>8 DEF LengthsInv, Lengths!Init, Lengths!SureEnoughToPrint

\* The functions complained of are those with more lines than the verbosity
\* lets pass, and what is complained of is printed (_FunctionState.Check).
THEOREM LongFunctions == TextSpec => []SizesReported
<1>1. Lengths!FunctionsAssumption /\ Lengths!PowersGrow
  BY LintTextAssumption
<1>2. Lengths!Init => LengthsInv
  BY <1>1, LengthsBegun
<1>3. LengthsInv /\ [Lengths!Next]_(Lengths!vars) => LengthsInv'
  BY <1>1, LengthsInductive
<1>4. LengthsInv => Lengths!OversizeReported /\ Lengths!SureEnoughToPrint
  BY DEF LengthsInv
<1>5. [TextNext]_textVars => (what = "lengths" <=> (what = "lengths")')
  BY OneCheck
<1>6. SizesReported <=>
        (what = "lengths" => Lengths!OversizeReported /\ Lengths!SureEnoughToPrint)
  BY DEF SizesReported
<1> QED BY <1>2, <1>3, <1>4, <1>5, <1>6, LengthsBehaviour, PTL DEF TextSpec

-------------------------------------------------------------------------------
(* CheckNextIncludeOrder and IsInAlphabeticalOrder.                        *)

Entry(x) == x.type \in Order!Types /\ x.to \in 1..4 /\ x.rank \in Nat \ {0} /\ x.line \in Nat

Entries(s) == (\E S : s \in Seq(S)) /\ \A i \in 1..Len(s) : Entry(s[i])

\* The section and the header are those of the last #include; what is said of a
\* line is said when it is read.
OrderTyped ==
  /\ line \in Nat /\ Entries(since)
  /\ section = (IF since = <<>> THEN 0 ELSE since[Len(since)].to)
  /\ lastHeader = (IF since = <<>> THEN 0 ELSE since[Len(since)].rank)
  /\ \A e \in errors : e[2] \in Nat /\ e[2] <= line
  /\ \A i \in 1..Len(since) : since[i].line <= line

\* The places the headers of s may take.
Fits(place, s) ==
  /\ place \in [1..Len(s) -> 1..4]
  /\ \A i \in 1..Len(s) : place[i] \in Order!Places(s[i].type)
  /\ \A i, j \in 1..Len(s) : i < j => place[i] <= place[j]

\* The sections are places in order for headers that do not come too late, and
\* no other places are lower: keeping the section alone is enough.
Greedy(s) ==
  /\ \A i \in 1..Len(s) : ~s[i].late => s[i].to \in Order!Places(s[i].type)
  /\ \A i, j \in 1..Len(s) : i < j => s[i].to <= s[j].to
  /\ \A place : Fits(place, s) => \A i \in 1..Len(s) : ~s[i].late /\ s[i].to <= place[i]

OrderInv == OrderTyped /\ Greedy(since) /\ Order!AlphaWithinSection

-------------------------------------------------------------------------------
LEMMA TypeOfHeader == ASSUME NEW h PROVE Order!ClassifyInclude(h) \in Order!Types
BY DEF Order!ClassifyInclude, Order!Types

\* The next section is not lower, and no place in order for the header is.
LEMMA NextPlace ==
  ASSUME NEW type \in Order!Types, NEW s \in 0..4
  PROVE  LET next == Order!NextSection(type, s) IN
         /\ next.to \in 1..4 /\ next.to >= s
         /\ ~next.late => next.to \in Order!Places(type)
         /\ \A p \in Order!Places(type) : p >= s => ~next.late /\ next.to <= p
<1> DEFINE next == Order!NextSection(type, s)
<1>1. \/ /\ next.to = (IF s <= 2 THEN 2 ELSE s) /\ (next.late <=> s > 2)
         /\ Order!Places(type) = {2}
      \/ /\ next.to = (IF s <= 3 THEN 3 ELSE s) /\ (next.late <=> s > 3)
         /\ Order!Places(type) = {3}
      \/ /\ next.to = (IF s <= 1 THEN 1 ELSE 4) /\ ~next.late
         /\ Order!Places(type) = {1, 4}
      \/ /\ next.to = 4 /\ ~next.late
         /\ Order!Places(type) = {4}
  BY DEF Order!NextSection, Order!Places, Order!Types, Order!C, Order!Cpp, Order!MyH,
    Order!OtherH, Order!CSys, Order!CppSys, Order!LikelyMy, Order!PossibleMy, Order!Other
<1> HIDE DEF next
<1>2. /\ next.to \in 1..4 /\ next.to >= s
      /\ ~next.late => next.to \in Order!Places(type)
      /\ \A p \in Order!Places(type) : p >= s => ~next.late /\ next.to <= p
  BY <1>1
<1> QED BY <1>2 DEF next

LEMMA GreedyNext ==
  ASSUME NEW S, NEW s \in Seq(S), NEW x \in S, Entries(s), Entry(x), Greedy(s),
         NEW from \in 0..4, from = (IF s = <<>> THEN 0 ELSE s[Len(s)].to),
         x.to = Order!NextSection(x.type, from).to, x.late = Order!NextSection(x.type, from).late
  PROVE  Greedy(Append(s, x))
<1> DEFINE t == Append(s, x)  n == Len(s)
<1>1. n \in Nat /\ Len(t) = n + 1 /\ t[n + 1] = x /\ (\A i \in 1..n : t[i] = s[i])
      /\ (s # <<>> => n \in 1..n) /\ (s = <<>> => n = 0)
  BY AppendProperties, LenProperties, EmptySeq
<1>2. \A i \in 1..n : Entry(s[i])
  BY DEF Entries
<1>3. x.type \in Order!Types
  BY DEF Entry
<1>4. /\ x.to \in 1..4 /\ x.to >= from
      /\ ~x.late => x.to \in Order!Places(x.type)
      /\ \A p \in Order!Places(x.type) : p >= from => ~x.late /\ x.to <= p
  BY <1>3, NextPlace
<1> HIDE DEF t, n
<1>5. \A i \in 1..Len(t) : ~t[i].late => t[i].to \in Order!Places(t[i].type)
  BY <1>1, <1>4 DEF Greedy, n
<1>6. \A i \in 1..n : s[i].to \in 1..4 /\ s[i].to <= from
  BY <1>1, <1>2 DEF Greedy, Entry, n
<1>7. \A i, j \in 1..Len(t) : i < j => t[i].to <= t[j].to
  <2>1. ASSUME NEW i \in 1..Len(t), NEW j \in 1..Len(t), i < j PROVE t[i].to <= t[j].to
    <3>1. CASE j = n + 1
      <4>1. i \in 1..n
        BY <1>1, <2>1, <3>1
      <4> QED BY <1>1, <1>4, <1>6, <3>1, <4>1
    <3>2. CASE j # n + 1
      <4>1. i \in 1..n /\ j \in 1..n
        BY <1>1, <2>1, <3>2
      <4> QED BY <1>1, <2>1, <4>1 DEF Greedy, n
    <3> QED BY <3>1, <3>2
  <2> QED BY <2>1
<1>8. ASSUME NEW place, Fits(place, t)
      PROVE  \A i \in 1..Len(t) : ~t[i].late /\ t[i].to <= place[i]
  <2> DEFINE q == [i \in 1..n |-> place[i]]
  <2>1. Fits(q, s)
    BY <1>1, <1>8 DEF Fits, n
  <2>2. \A i \in 1..n : ~s[i].late /\ s[i].to <= q[i]
    BY <2>1 DEF Greedy, n
  <2>3. place[n + 1] \in Order!Places(x.type) /\ place[n + 1] \in 1..4
    BY <1>1, <1>8 DEF Fits
  <2>4. place[n + 1] >= from
    <3>1. CASE s = <<>>
      BY <2>3, <3>1
    <3>2. CASE s # <<>>
      <4>1. n \in 1..n /\ n \in 1..Len(t) /\ n + 1 \in 1..Len(t) /\ from = s[n].to
        BY <1>1, <3>2 DEF n
      <4>2. place[n] <= place[n + 1] /\ place[n] \in 1..4
        BY <1>1, <1>8, <4>1 DEF Fits
      <4> QED BY <1>6, <2>2, <2>3, <4>1, <4>2
    <3> QED BY <3>1, <3>2
  <2>5. ~x.late /\ x.to <= place[n + 1]
    BY <1>4, <2>3, <2>4
  <2> QED BY <1>1, <2>2, <2>5
<1> QED BY <1>5, <1>7, <1>8 DEF Greedy, t

\* What is not too late can be ordered, and what can be ordered is not too late.
LEMMA GreedyOrders ==
  ASSUME Entries(since), Greedy(since)
  PROVE  Order!LateIffUnordered
<1>1. Len(since) \in Nat /\ DOMAIN since = 1..Len(since)
      /\ \A i \in 1..Len(since) : Entry(since[i])
  BY LenProperties DEF Entries
<1> DEFINE types == [i \in DOMAIN since |-> since[i].type]
<1>2. Order!Ordered(types) <=> \E place : Fits(place, since)
  BY <1>1 DEF Order!Ordered, Fits
<1>3. ASSUME \A i \in DOMAIN since : ~since[i].late PROVE \E place : Fits(place, since)
  <2> DEFINE place == [i \in 1..Len(since) |-> since[i].to]
  <2>1. Fits(place, since)
    BY <1>1, <1>3 DEF Fits, Greedy, Entry
  <2> QED BY <2>1
<1>4. ASSUME NEW place, Fits(place, since) PROVE \A i \in DOMAIN since : ~since[i].late
  BY <1>1, <1>4 DEF Greedy
<1> HIDE DEF types
<1> QED BY <1>2, <1>3, <1>4 DEF Order!LateIffUnordered, types

-------------------------------------------------------------------------------
\* A step that says nothing of the order of headers, in this line or a later one.
LEMMA OrderKept ==
  ASSUME OrderInv, line' \in Nat, line' >= line,
         UNCHANGED <<since, section, lastHeader>>,
         \A e \in errors' : \/ e \in errors
                            \/ e[1] # "build/include_alpha" /\ e[2] = line',
         errors \subseteq errors'
  PROVE  OrderInv'
<1>1. OrderTyped'
  BY DEF OrderInv, OrderTyped, Entries, Entry
<1>2. Greedy(since)'
  BY DEF OrderInv, Greedy, Fits
<1>3. \A l : <<"build/include_alpha", l, {}>> \in errors' <=>
             <<"build/include_alpha", l, {}>> \in errors
  OBVIOUS
<1>4. Order!AlphaWithinSection'
  BY <1>3 DEF OrderInv, Order!AlphaWithinSection
<1> QED BY <1>1, <1>2, <1>4 DEF OrderInv

LEMMA OrderPass ==
  ASSUME OrderInv, NEW name \in DOMAIN OrderHeaders, Order!PassInclude(name)
  PROVE  OrderInv'
<1>1. line \in Nat /\ line' = line + 1
  BY DEF OrderInv, OrderTyped, Order!PassInclude, Order!NextLine
<1>2. UNCHANGED <<since, section, lastHeader>> /\ errors \subseteq errors'
  BY DEF Order!PassInclude, Order!state
<1>3. \A e \in errors' : \/ e \in errors
                         \/ e[1] # "build/include_alpha" /\ e[2] = line'
  BY <1>1 DEF Order!PassInclude, Order!BareName, Order!Say
<1> QED BY <1>1, <1>2, <1>3, OrderKept

LEMMA OrderReset ==
  ASSUME OrderInv, NEW d, Order!ResetSection(d)
  PROVE  OrderInv'
<1>1. line' = line + 1 /\ since' = <<>> /\ section' = 0 /\ lastHeader' = 0 /\ errors' = errors
  BY DEF Order!ResetSection, Order!NextLine, Order!Initial
<1>2. Len(since') = 0 /\ DOMAIN since' = {} /\ since' \in Seq({})
  BY <1>1, EmptySeq
<1>3. OrderTyped'
  BY <1>1, <1>2 DEF OrderInv, OrderTyped, Entries
<1>4. Greedy(since')
  BY <1>2 DEF Greedy
<1>5. Order!AlphaWithinSection'
  BY <1>2 DEF Order!AlphaWithinSection
<1> QED BY <1>3, <1>4, <1>5 DEF OrderInv, Greedy, Fits

LEMMA OrderTrack ==
  ASSUME Order!IncludesAssumption, OrderInv, NEW name \in DOMAIN OrderHeaders,
         Order!TrackInclude(name)
  PROVE  OrderInv'
<1> DEFINE h == OrderHeaders[name]
           type == Order!ClassifyInclude(h)
           next == Order!NextSection(type, section)
           x == [type |-> type, late |-> next.late, to |-> next.to, rank |-> h.rank,
                 line |-> line + 1, adjacent |-> prevInclude]
           n == Len(since)
<1>1. /\ line' = line + 1 /\ since' = Append(since, x) /\ section' = next.to
      /\ lastHeader' = h.rank
      /\ errors' = errors \cup Order!BareName(h) \cup
           (IF next.late THEN Order!Say("build/include_order", {}) ELSE {}) \cup
           (IF Order!InAlphabeticalOrder(Order!HeaderBefore(next), h) THEN {}
            ELSE Order!Say("build/include_alpha", {}))
  BY DEF Order!TrackInclude, Order!NextLine
<1>2. /\ line \in Nat /\ Entries(since) /\ Greedy(since) /\ h.rank \in Nat \ {0}
      /\ section = (IF since = <<>> THEN 0 ELSE since[n].to)
      /\ lastHeader = (IF since = <<>> THEN 0 ELSE since[n].rank)
      /\ \A e \in errors : e[2] \in Nat /\ e[2] <= line
      /\ \A i \in 1..n : since[i].line <= line
  BY DEF OrderInv, OrderTyped, Order!IncludesAssumption
<1>3. PICK T : since \in Seq(T)
  BY <1>2 DEF Entries
<1> DEFINE S == T \cup {x}
<1>4. since \in Seq(S) /\ x \in S
  BY <1>3, SeqMonotonic
<1> HIDE DEF S
<1>5. /\ n \in Nat /\ Len(since') = n + 1 /\ since'[n + 1] = x /\ since' \in Seq(S)
      /\ \A i \in 1..n : since'[i] = since[i]
      /\ since # <<>> => n \in 1..n
      /\ since = <<>> <=> n = 0
      /\ since' # <<>>
      /\ DOMAIN since = 1..n /\ DOMAIN since' = 1..n + 1
  BY <1>1, <1>4, AppendProperties, LenProperties, EmptySeq
<1>6. type \in Order!Types
  BY TypeOfHeader
<1>7. section \in 0..4
  BY <1>2, <1>5 DEF Entries, Entry
<1> HIDE DEF next, type, h, n
<1>8. next.to \in 1..4
  BY <1>6, <1>7, NextPlace DEF next
<1>9. x.type = type /\ x.late = next.late /\ x.to = next.to /\ x.rank = h.rank
      /\ x.line = line + 1 /\ x.adjacent = prevInclude
  OBVIOUS
<1> HIDE DEF x
<1>10. Entry(x)
  BY <1>2, <1>6, <1>8, <1>9 DEF Entry
<1>11. Greedy(Append(since, x))
  BY <1>2, <1>4, <1>7, <1>9, <1>10, GreedyNext DEF n, next
<1>12. \A e \in errors' : e \in errors \/ e[2] = line + 1
  BY <1>1 DEF Order!BareName, Order!Say
<1>13. \A i \in 1..n + 1 : i \in 1..n \/ i = n + 1
  BY <1>5
<1>14. Entries(since')
  BY <1>2, <1>5, <1>10, <1>13 DEF Entries, n
<1>15. \A i \in 1..n + 1 : since'[i].line <= line + 1
  <2>1. \A i \in 1..n : since[i].line \in Nat /\ since[i].line <= line + 1
    BY <1>2 DEF Entries, Entry, n
  <2> QED BY <1>2, <1>5, <1>9, <1>13, <2>1
<1>16. OrderTyped'
  <2>1. section' = since'[Len(since')].to /\ lastHeader' = since'[Len(since')].rank
    BY <1>1, <1>5, <1>9
  <2> QED BY <1>1, <1>2, <1>5, <1>12, <1>14, <1>15, <2>1, SMTT(30) DEF OrderTyped, Entries, Entry
<1>17. <<"build/include_alpha", line + 1, {}>> \in errors' <=>
         ~Order!InAlphabeticalOrder(Order!HeaderBefore(next), h)
  <2>1. <<"build/include_alpha", line + 1, {}>> \notin errors
    BY <1>2
  <2> QED BY <1>1, <2>1 DEF Order!BareName, Order!Say
<1>18. ~Order!InAlphabeticalOrder(Order!HeaderBefore(next), h) <=>
         ~next.late /\ next.to = section /\ lastHeader > h.rank /\ prevInclude
  BY <1>2 DEF Order!InAlphabeticalOrder, Order!HeaderBefore
<1>19. next.to = section /\ lastHeader > h.rank <=>
         n >= 1 /\ since[n].to = next.to /\ since[n].rank > h.rank
  BY <1>2, <1>5, <1>8
<1>20. ASSUME NEW i \in 1..n
       PROVE  (<<"build/include_alpha", since[i].line, {}>> \in errors') <=>
              (<<"build/include_alpha", since[i].line, {}>> \in errors)
  <2>1. since[i].line # line + 1
    BY <1>2
  <2> QED BY <1>1, <1>12, <2>1
<1>21. ASSUME NEW i \in DOMAIN since'
       PROVE  (<<"build/include_alpha", since'[i].line, {}>> \in errors') <=>
                /\ i > 1 /\ ~since'[i].late /\ since'[i].adjacent
                /\ since'[i - 1].to = since'[i].to
                /\ since'[i - 1].rank > since'[i].rank
  <2>1. CASE i \in 1..n
    <3>1. since'[i] = since[i] /\ (i > 1 => since'[i - 1] = since[i - 1])
      BY <1>5, <2>1
    <3>2. (<<"build/include_alpha", since[i].line, {}>> \in errors) <=>
            /\ i > 1 /\ ~since[i].late /\ since[i].adjacent
            /\ since[i - 1].to = since[i].to
            /\ since[i - 1].rank > since[i].rank
      BY <1>5, <2>1 DEF OrderInv, Order!AlphaWithinSection
    <3> QED BY <1>20, <2>1, <3>1, <3>2
  <2>2. CASE i = n + 1
    <3>1. since'[i] = x
      BY <1>5, <2>2
    <3>2. i > 1 <=> n >= 1
      BY <1>5, <2>2
    <3>3. n >= 1 => since'[i - 1] = since[n]
      BY <1>5, <2>2
    <3>4. (<<"build/include_alpha", x.line, {}>> \in errors') <=>
            ~next.late /\ n >= 1 /\ since[n].to = next.to /\ since[n].rank > h.rank /\ prevInclude
      BY <1>9, <1>17, <1>18, <1>19
    <3> QED BY <1>9, <3>1, <3>2, <3>3, <3>4
  <2> QED BY <1>5, <1>13, <2>1, <2>2
<1>22. Greedy(since')
  BY <1>1, <1>11 DEF x
<1>23. Order!AlphaWithinSection'
  BY <1>21 DEF Order!AlphaWithinSection
<1> QED BY <1>16, <1>22, <1>23 DEF OrderInv, Greedy, Fits

LEMMA OrderInductive ==
  ASSUME Order!IncludesAssumption, OrderInv, [Order!Next]_(Order!vars)
  PROVE  OrderInv'
<1>1. CASE \E name \in DOMAIN OrderHeaders : Order!IncludeLine(name)
  BY <1>1, OrderPass, OrderTrack DEF Order!IncludeLine
<1>2. CASE \E d \in OrderDirectives : Order!ResetSection(d)
  BY <1>2, OrderReset
<1>3. CASE Order!OtherLine
  <2>1. line' = line + 1 /\ errors' = errors /\ UNCHANGED <<since, section, lastHeader>>
    BY <1>3 DEF Order!OtherLine, Order!NextLine, Order!state, Order!hist
  <2>2. line \in Nat
    BY DEF OrderInv, OrderTyped
  <2> QED BY <2>1, <2>2, OrderKept
<1>4. CASE Order!CheckForIncludeWhatYouUse
  <2>1. line' = line /\ line \in Nat /\ UNCHANGED <<since, section, lastHeader>>
    BY <1>4 DEF Order!CheckForIncludeWhatYouUse, Order!state, Order!hist, OrderInv, OrderTyped
  <2>2. /\ errors \subseteq errors'
        /\ \A e \in errors' : e \in errors \/ (e[1] # "build/include_alpha" /\ e[2] = line')
    BY <1>4, <2>1 DEF Order!CheckForIncludeWhatYouUse
  <2> QED BY <2>1, <2>2, OrderKept
<1>5. CASE UNCHANGED Order!vars
  <2>1. line' = line /\ line \in Nat /\ errors' = errors
        /\ UNCHANGED <<since, section, lastHeader>>
    BY <1>5 DEF Order!vars, Order!state, Order!hist, OrderInv, OrderTyped
  <2> QED BY <2>1, OrderKept
<1> QED BY <1>1, <1>2, <1>3, <1>4, <1>5 DEF Order!Next

LEMMA OrderBegun == ASSUME Order!Init PROVE OrderInv
<1>1. line = 0 /\ since = <<>> /\ section = 0 /\ lastHeader = 0 /\ errors = {}
  BY DEF Order!Init, Order!Initial
<1>2. Len(since) = 0 /\ DOMAIN since = {} /\ since \in Seq({})
  BY <1>1, EmptySeq
<1>3. OrderTyped
  BY <1>1, <1>2 DEF OrderTyped, Entries
<1>4. Greedy(since) /\ Order!AlphaWithinSection
  BY <1>2 DEF Greedy, Order!AlphaWithinSection
<1> QED BY <1>3, <1>4 DEF OrderInv

\* The order of the headers is judged as documented although one number and the
\* last header are all that is kept of them (CheckNextIncludeOrder).
THEOREM HeadersOrdered == TextSpec => []OrderJudged
<1>1. Order!IncludesAssumption
  BY LintTextAssumption
<1>2. Order!Init => OrderInv
  BY OrderBegun
<1>3. OrderInv /\ [Order!Next]_(Order!vars) => OrderInv'
  BY <1>1, OrderInductive
<1>4. OrderInv => Order!LateIffUnordered /\ Order!AlphaWithinSection
  BY GreedyOrders DEF OrderInv, OrderTyped
<1>5. [TextNext]_textVars => (what = "order" <=> (what = "order")')
  BY OneCheck
<1>6. OrderJudged <=> (what = "order" => Order!LateIffUnordered /\ Order!AlphaWithinSection)
  BY DEF OrderJudged
<1> QED BY <1>2, <1>3, <1>4, <1>5, <1>6, OrderBehaviour, PTL DEF TextSpec

-------------------------------------------------------------------------------
(* FindHeader and CheckForIncludeWhatYouUse.                               *)

InConditional(b) == b \in Seq([opened : Nat, arm : Nat]) /\ Len(b) = 1 /\ b[1].opened < line

KnownTyped ==
  /\ line \in Nat
  /\ includeList \in Seq(Seq((DOMAIN BranchHeaders) \X Nat)) /\ Len(includeList) >= 1
  /\ branch = <<>> \/ InConditional(branch)
  /\ \A s \in seen : s.branch = <<>> \/ InConditional(s.branch)

\* An #include in branches b, remembered in list i, can be there with this line.
Together(b, i) ==
  \/ branch = <<>> \/ b = <<>> \/ b[1].opened # branch[1].opened
  \/ i = Len(includeList) /\ b = branch

Held(i) == Branches!ToSet(includeList[i])

\* What is remembered has been seen, and not in another branch; what is not in
\* a conditional is not in the list that the next branch forgets.
Recalled ==
  \A i \in 1..Len(includeList) : \A r \in Held(i) :
    \E s \in seen : s.name = r[1] /\ s.line = r[2] /\ Together(s.branch, i)
NotForgotten ==
  \A s \in seen : s.branch = <<>> /\ s.name \in Required =>
    \E i \in 1..Len(includeList) :
      /\ branch # <<>> => i < Len(includeList)
      /\ \E r \in Held(i) : r[1] = s.name

KnownInv ==
  /\ KnownTyped /\ Recalled /\ NotForgotten
  /\ ~finished => \A e \in errors : e[1] # "build/include_what_you_use"
  /\ Branches!DuplicateIsReal /\ Branches!MissingIsReal

-------------------------------------------------------------------------------
LEMMA OpenedBefore ==
  ASSUME NEW b, InConditional(b)
  PROVE  b[1].opened \in Nat /\ b[1].arm \in Nat /\ b[1].opened < line
<1>1. b \in Seq([opened : Nat, arm : Nat]) /\ 1 \in 1..Len(b)
  BY DEF InConditional
<1>2. b[1] \in [opened : Nat, arm : Nat]
  BY <1>1, ElementOfSeq
<1> QED BY <1>2 DEF InConditional

LEMMA StillInConditional ==
  ASSUME line \in Nat, line' = line + 1
  PROVE  \A b : InConditional(b) => InConditional(b)'
BY OpenedBefore DEF InConditional

LEMMA AppendedToSet ==
  ASSUME NEW S, NEW s \in Seq(S), NEW x \in S
  PROVE  Branches!ToSet(Append(s, x)) = Branches!ToSet(s) \cup {x}
<1>1. /\ Len(s) \in Nat /\ DOMAIN s = 1..Len(s) /\ Len(Append(s, x)) = Len(s) + 1
      /\ DOMAIN Append(s, x) = 1..Len(s) + 1 /\ Append(s, x)[Len(s) + 1] = x
      /\ \A i \in 1..Len(s) : Append(s, x)[i] = s[i]
  BY AppendProperties, LenProperties
<1> QED BY <1>1 DEF Branches!ToSet

LEMMA RememberedIn ==
  ASSUME KnownTyped
  PROVE  \A r : r \in Branches!Remembered <=>
           \E i \in 1..Len(includeList) : r \in Held(i)
<1>1. DOMAIN includeList = 1..Len(includeList)
  BY LenProperties DEF KnownTyped
<1> QED BY <1>1 DEF Branches!Remembered, Held

\* Errors about other things, and more #includes, change nothing of what has
\* been said of repeated and missing headers.
LEMMA StillReal ==
  ASSUME KnownInv, ~finished, ~finished', seen \subseteq seen',
         \A e \in errors' :
           e \in errors \/ (e[1] # "duplicate" /\ e[1] # "build/include_what_you_use")
  PROVE  /\ \A e \in errors' : e[1] # "build/include_what_you_use"
         /\ Branches!DuplicateIsReal' /\ Branches!MissingIsReal'
<1>1. \A e \in errors' : e[1] # "build/include_what_you_use"
  BY DEF KnownInv
<1>2. Branches!MissingIsReal'
  BY <1>1 DEF Branches!MissingIsReal
<1>3. ASSUME NEW e \in errors', e[1] = "duplicate"
      PROVE  \E first, second \in seen' :
               /\ first.line \in e[3] /\ second.line = e[2] /\ first.name = second.name
               /\ ~Branches!Exclusive(first.branch, second.branch)
  BY <1>3 DEF KnownInv, Branches!DuplicateIsReal
<1>4. Branches!DuplicateIsReal'
  BY <1>3 DEF Branches!DuplicateIsReal, Branches!Exclusive
<1> QED BY <1>1, <1>2, <1>4

\* Two #includes that can be together are not in two branches of a conditional.
LEMMA TogetherNotExclusive ==
  ASSUME KnownTyped, NEW s \in seen, NEW i, Together(s.branch, i)
  PROVE  ~Branches!Exclusive(s.branch, branch)
<1>1. branch = <<>> => DOMAIN branch = {}
  OBVIOUS
<1>2. s.branch = <<>> => DOMAIN s.branch = {}
  OBVIOUS
<1>3. branch = <<>> \/ DOMAIN branch = {1}
  BY LenProperties DEF KnownTyped, InConditional
<1>4. s.branch = <<>> \/ DOMAIN s.branch = {1}
  BY LenProperties DEF KnownTyped, InConditional
<1> QED BY <1>1, <1>2, <1>3, <1>4 DEF Together, Branches!Exclusive

-------------------------------------------------------------------------------
LEMMA KnownPass ==
  ASSUME Branches!RequiredAssumption, KnownInv, NEW name \in DOMAIN BranchHeaders,
         Branches!PassInclude(name)
  PROVE  KnownInv'
<1> DEFINE now == [name |-> name, line |-> line + 1, branch |-> branch]
<1>1. /\ ~finished /\ finished' = finished /\ line' = line + 1 /\ seen' = seen \cup {now}
      /\ UNCHANGED <<includeList, branch>> /\ KnownTyped /\ line \in Nat
  BY DEF Branches!PassInclude, Branches!NextLine, Branches!See, Branches!state, KnownInv, KnownTyped
<1>2. now.name = name /\ now.line = line + 1 /\ now.branch = branch
  OBVIOUS
<1> HIDE DEF now
<1>3. KnownTyped'
  BY <1>1, <1>2, StillInConditional DEF KnownTyped
<1>4. Recalled'
  BY <1>1 DEF KnownInv, Recalled, Together, Held
<1>5. NotForgotten'
  <2>1. ASSUME branch = <<>>, name \in Required
        PROVE  \E i \in 1..Len(includeList) : \E r \in Held(i) : r[1] = name
    <3>1. ~Branches!RefusedInclude(BranchHeaders[name]) /\ ~BranchHeaders[name].thirdparty
      BY <2>1 DEF Branches!RequiredAssumption, Branches!RefusedInclude
    <3>2. Branches!FindHeader(name) # {}
      BY <3>1 DEF Branches!PassInclude
    <3>3. PICK r \in Branches!Remembered : r[1] = name
      BY <3>2 DEF Branches!FindHeader
    <3> QED BY <1>1, <3>3, RememberedIn
  <2>2. ASSUME NEW s \in seen', s.branch = <<>>, s.name \in Required
        PROVE  \E i \in 1..Len(includeList) :
                 /\ branch # <<>> => i < Len(includeList)
                 /\ \E r \in Held(i) : r[1] = s.name
    <3>1. CASE s \in seen
      BY <2>2, <3>1 DEF KnownInv, NotForgotten
    <3>2. CASE s = now
      BY <1>2, <2>1, <2>2, <3>2
    <3> QED BY <1>1, <3>1, <3>2
  <2> QED BY <1>1, <2>2 DEF NotForgotten, Held
<1>6. CASE Branches!FindHeader(name) = {}
  <2>1. \A e \in errors' :
          e \in errors \/ (e[1] # "duplicate" /\ e[1] # "build/include_what_you_use")
    BY <1>6 DEF Branches!PassInclude, Branches!BareName, Branches!Say
  <2> QED BY <1>1, <1>3, <1>4, <1>5, <2>1, StillReal DEF KnownInv
<1>7. CASE Branches!FindHeader(name) # {}
  <2> DEFINE again == <<"duplicate", line + 1, Branches!FindHeader(name)>>
  <2>1. \A e \in errors' :
          e \in errors \/ e = again \/ (e[1] # "duplicate" /\ e[1] # "build/include_what_you_use")
    BY <1>7 DEF Branches!PassInclude, Branches!BareName, Branches!Say
  <2>2. again[1] = "duplicate" /\ again[2] = line + 1 /\ again[3] = Branches!FindHeader(name)
    OBVIOUS
  <2> HIDE DEF again
  <2>3. \A e \in errors' : e[1] # "build/include_what_you_use"
    BY <1>1, <2>1, <2>2 DEF KnownInv
  <2>4. Branches!MissingIsReal'
    BY <2>3 DEF Branches!MissingIsReal
  <2>5. PICK r \in Branches!Remembered : r[1] = name
    BY <1>7 DEF Branches!FindHeader
  <2>6. PICK i \in 1..Len(includeList) : r \in Held(i)
    BY <1>1, <2>5, RememberedIn
  <2>7. PICK s \in seen : s.name = r[1] /\ s.line = r[2] /\ Together(s.branch, i)
    BY <2>6 DEF KnownInv, Recalled
  <2>8. s.line \in Branches!FindHeader(name)
    BY <2>5, <2>7 DEF Branches!FindHeader
  <2>9. ~Branches!Exclusive(s.branch, branch)
    BY <1>1, <2>7, TogetherNotExclusive
  <2>10. ASSUME NEW e \in errors', e[1] = "duplicate"
         PROVE  \E first, second \in seen' :
                  /\ first.line \in e[3] /\ second.line = e[2] /\ first.name = second.name
                  /\ ~Branches!Exclusive(first.branch, second.branch)
    <3>1. CASE e = again
      <4>1. s \in seen' /\ now \in seen'
        BY <1>1
      <4> QED BY <1>2, <2>2, <2>5, <2>7, <2>8, <2>9, <3>1, <4>1
    <3>2. CASE e \in errors
      BY <1>1, <2>10, <3>2 DEF KnownInv, Branches!DuplicateIsReal
    <3> QED BY <2>1, <2>10, <3>1, <3>2
  <2>11. Branches!DuplicateIsReal'
    BY <2>10 DEF Branches!DuplicateIsReal, Branches!Exclusive
  <2> QED BY <1>1, <1>3, <1>4, <1>5, <2>3, <2>4, <2>11 DEF KnownInv
<1> QED BY <1>6, <1>7

LEMMA KnownTrack ==
  ASSUME KnownInv, NEW name \in DOMAIN BranchHeaders, Branches!TrackInclude(name)
  PROVE  KnownInv'
<1> DEFINE now == [name |-> name, line |-> line + 1, branch |-> branch]
           n == Len(includeList)
           row == <<name, line + 1>>
<1>1. /\ ~finished /\ finished' = finished /\ line' = line + 1 /\ seen' = seen \cup {now}
      /\ includeList' = [includeList EXCEPT ![n] = Append(@, row)]
      /\ branch' = branch /\ KnownTyped /\ line \in Nat
  BY DEF Branches!TrackInclude, Branches!NextLine, Branches!See, KnownInv, KnownTyped
<1>2. now.name = name /\ now.line = line + 1 /\ now.branch = branch
      /\ row[1] = name /\ row[2] = line + 1 /\ row \in (DOMAIN BranchHeaders) \X Nat
  BY <1>1
<1> HIDE DEF now, row
<1>3. /\ n \in Nat /\ n \in 1..n /\ DOMAIN includeList = 1..n
      /\ includeList[n] \in Seq((DOMAIN BranchHeaders) \X Nat)
  BY <1>1, LenProperties, ElementOfSeq DEF KnownTyped
<1>4. /\ includeList' \in Seq(Seq((DOMAIN BranchHeaders) \X Nat)) /\ Len(includeList') = n
      /\ includeList'[n] = Append(includeList[n], row)
      /\ \A i \in 1..n : i # n => includeList'[i] = includeList[i]
  <2>1. Append(includeList[n], row) \in Seq((DOMAIN BranchHeaders) \X Nat)
    BY <1>2, <1>3, AppendProperties
  <2>2. includeList \in Seq(Seq((DOMAIN BranchHeaders) \X Nat))
    BY <1>1 DEF KnownTyped
  <2> HIDE DEF n
  <2> QED BY <1>1, <1>3, <2>1, <2>2, ExceptSeq
<1>5. KnownTyped'
  <2>1. line' \in Nat /\ Len(includeList') >= 1
    <3> HIDE DEF n
    <3> QED BY <1>1, <1>3, <1>4
  <2>2. branch' = <<>> \/ InConditional(branch)'
    BY <1>1, StillInConditional DEF KnownTyped
  <2>3. \A s \in seen : s.branch = <<>> \/ InConditional(s.branch)'
    BY <1>1, StillInConditional DEF KnownTyped
  <2>4. \A s : s = now => s.branch = <<>> \/ InConditional(s.branch)'
    BY <1>1, <1>2, StillInConditional DEF KnownTyped
  <2>5. \A s \in seen' : s.branch = <<>> \/ InConditional(s.branch)'
    BY <1>1, <2>3, <2>4
  <2>6. (includeList \in Seq(Seq((DOMAIN BranchHeaders) \X Nat)))'
    BY <1>4
  <2> QED BY <2>1, <2>2, <2>5, <2>6 DEF KnownTyped
<1>6. \A i \in 1..n : Held(i)' = IF i = n THEN Held(i) \cup {row} ELSE Held(i)
  <2>1. Branches!ToSet(Append(includeList[n], row)) = Branches!ToSet(includeList[n]) \cup {row}
    BY <1>2, <1>3, AppendedToSet
  <2> QED BY <1>4, <2>1 DEF Held, Branches!ToSet
<1>7. \A i \in 1..n : Held(i) \subseteq Held(i)'
  BY <1>6
<1>8. Recalled'
  <2>1. ASSUME NEW i \in 1..n, NEW r \in Held(i)'
        PROVE  \E s \in seen' : s.name = r[1] /\ s.line = r[2] /\ Together(s.branch, i)
    <3>1. CASE r \in Held(i)
      BY <1>1, <3>1 DEF KnownInv, Recalled
    <3>2. CASE i = n /\ r = row
      BY <1>1, <1>2, <3>2 DEF Together
    <3> QED BY <1>6, <2>1, <3>1, <3>2
  <2>2. \A s \in seen' : \A i : Together(s.branch, i)' <=> Together(s.branch, i)
    BY <1>1, <1>4 DEF Together
  <2> QED BY <1>4, <2>1, <2>2 DEF Recalled
<1>9. NotForgotten'
  <2>1. ASSUME NEW s \in seen', s.branch = <<>>, s.name \in Required
        PROVE  \E i \in 1..n : /\ branch # <<>> => i < n
                               /\ \E r \in Held(i)' : r[1] = s.name
    <3>1. CASE s \in seen
      <4>1. PICK i \in 1..n : /\ branch # <<>> => i < n
                              /\ \E r \in Held(i) : r[1] = s.name
        BY <2>1, <3>1 DEF KnownInv, NotForgotten
      <4> QED BY <1>7, <4>1
    <3>2. CASE s = now
      <4>1. PICK i \in 1..n : i = n
        BY <1>3
      <4>2. row \in Held(i)'
        BY <1>6, <4>1
      <4>3. branch = <<>> /\ row[1] = s.name
        BY <1>2, <2>1, <3>2
      <4> QED BY <4>2, <4>3
    <3> QED BY <1>1, <3>1, <3>2
  <2> QED BY <1>1, <1>4, <2>1 DEF NotForgotten
<1>10. \A e \in errors' :
         e \in errors \/ (e[1] # "duplicate" /\ e[1] # "build/include_what_you_use")
  BY DEF Branches!TrackInclude, Branches!BareName, Branches!Say
<1> QED BY <1>1, <1>5, <1>8, <1>9, <1>10, StillReal DEF KnownInv

-------------------------------------------------------------------------------
\* A conditional begins: no #include seen so far is in it.
LEMMA KnownIf ==
  ASSUME KnownInv, Branches!ResetSection("if")
  PROVE  KnownInv'
<1> DEFINE n == Len(includeList)
           b == [opened |-> line, arm |-> 1]
<1>1. /\ ~finished /\ finished' = finished /\ line' = line + 1 /\ seen' = seen /\ errors' = errors
      /\ includeList' = Append(includeList, <<>>) /\ branch' = Append(branch, b)
      /\ Len(branch) < 1 /\ KnownTyped /\ line \in Nat
  BY DEF Branches!ResetSection, Branches!NextLine, Branches!ListAfter, Branches!BranchAfter,
    KnownInv, KnownTyped
<1>2. branch = <<>>
  BY <1>1 DEF KnownTyped, InConditional
<1>3. /\ branch' \in Seq([opened : Nat, arm : Nat]) /\ Len(branch') = 1 /\ branch'[1] = b
      /\ branch' # <<>>
  <2>1. b \in [opened : Nat, arm : Nat]
    BY <1>1
  <2> HIDE DEF b
  <2>2. <<>> \in Seq([opened : Nat, arm : Nat]) /\ Len(<<>>) = 0
    BY EmptySeq
  <2> QED BY <1>1, <1>2, <2>1, <2>2, AppendProperties
<1>4. /\ n \in Nat /\ n >= 1 /\ Len(includeList') = n + 1 /\ includeList'[n + 1] = <<>>
      /\ includeList' \in Seq(Seq((DOMAIN BranchHeaders) \X Nat))
      /\ \A i \in 1..n : includeList'[i] = includeList[i]
  <2>1. <<>> \in Seq((DOMAIN BranchHeaders) \X Nat)
    BY EmptySeq
  <2> QED BY <1>1, <2>1, AppendProperties, LenProperties DEF KnownTyped
<1> HIDE DEF n
<1>5. b.opened = line
  OBVIOUS
<1> HIDE DEF b
<1>6. KnownTyped'
  <2>1. InConditional(branch)'
    BY <1>1, <1>3, <1>5 DEF InConditional
  <2>2. \A s \in seen : s.branch = <<>> \/ InConditional(s.branch)'
    BY <1>1, StillInConditional DEF KnownTyped
  <2> QED BY <1>1, <1>4, <2>1, <2>2 DEF KnownTyped
<1>7. /\ \A i \in 1..n : Held(i)' = Held(i)
      /\ \A i : i = n + 1 => Held(i)' = {}
      /\ \A i \in 1..n + 1 : i \in 1..n \/ i = n + 1
  <2>1. Branches!ToSet(<<>>) = {}
    BY DEF Branches!ToSet
  <2> QED BY <1>4, <2>1 DEF Held, Branches!ToSet
<1>8. ASSUME NEW s \in seen, NEW i PROVE Together(s.branch, i)'
  <2>1. s.branch = <<>> \/ s.branch[1].opened # b.opened
    BY <1>1, <1>5, OpenedBefore DEF KnownTyped, InConditional
  <2> QED BY <1>1, <1>3, <2>1 DEF Together
<1>9. Recalled'
  <2>1. ASSUME NEW i \in 1..n + 1, NEW r \in Held(i)'
        PROVE  \E s \in seen : s.name = r[1] /\ s.line = r[2]
    <3>1. i \in 1..n /\ r \in Held(i)
      BY <1>4, <1>7, <2>1
    <3> QED BY <3>1 DEF KnownInv, Recalled, n
  <2> QED BY <1>1, <1>4, <1>8, <2>1 DEF Recalled
<1>10. NotForgotten'
  <2>1. ASSUME NEW s \in seen, s.branch = <<>>, s.name \in Required
        PROVE  \E i \in 1..n + 1 : i < n + 1 /\ \E r \in Held(i)' : r[1] = s.name
    <3>1. PICK i \in 1..n : \E r \in Held(i) : r[1] = s.name
      BY <2>1 DEF KnownInv, NotForgotten, n
    <3>2. i \in 1..n + 1 /\ i < n + 1 /\ Held(i)' = Held(i)
      BY <1>4, <1>7
    <3> QED BY <3>1, <3>2
  <2> QED BY <1>1, <1>4, <2>1 DEF NotForgotten
<1> QED BY <1>1, <1>6, <1>9, <1>10, StillReal DEF KnownInv

LEMMA FirstReplaced ==
  ASSUME NEW S, NEW s \in Seq(S), 1 \in 1..Len(s), NEW x \in S
  PROVE  /\ [s EXCEPT ![1] = x] \in Seq(S) /\ Len([s EXCEPT ![1] = x]) = Len(s)
         /\ [s EXCEPT ![1] = x][1] = x
BY ExceptSeq

\* The next branch of the conditional: the list of the one before is emptied, and
\* the lists before it hold nothing of this conditional.
LEMMA KnownElse ==
  ASSUME KnownInv, NEW d \in {"else", "elif"}, Branches!ResetSection(d)
  PROVE  KnownInv'
<1> DEFINE n == Len(includeList)
<1>1. /\ ~finished /\ finished' = finished /\ line' = line + 1 /\ seen' = seen /\ errors' = errors
      /\ includeList' = [includeList EXCEPT ![n] = <<>>] /\ branch # <<>>
      /\ branch' = [branch EXCEPT ![Len(branch)].arm = @ + 1]
      /\ KnownTyped /\ line \in Nat
  BY DEF Branches!ResetSection, Branches!NextLine, Branches!ListAfter, Branches!BranchAfter,
    KnownInv, KnownTyped
<1>2. /\ InConditional(branch) /\ Len(branch) = 1 /\ branch[1].opened \in Nat
      /\ branch[1].arm \in Nat /\ branch[1] \in [opened : Nat, arm : Nat]
      /\ branch[1].opened < line /\ branch \in Seq([opened : Nat, arm : Nat])
      /\ 1 \in 1..Len(branch)
  <2>1. InConditional(branch)
    BY <1>1 DEF KnownTyped
  <2>2. branch \in Seq([opened : Nat, arm : Nat]) /\ 1 \in 1..Len(branch) /\ Len(branch) = 1
    BY <2>1 DEF InConditional
  <2>3. branch[1] \in [opened : Nat, arm : Nat]
    BY <2>2, ElementOfSeq
  <2> QED BY <2>1, <2>2, <2>3, OpenedBefore
<1>3. /\ branch' \in Seq([opened : Nat, arm : Nat]) /\ Len(branch') = 1
      /\ branch'[1].opened = branch[1].opened /\ branch' # <<>>
  <2> DEFINE b == [branch[1] EXCEPT !.arm = @ + 1]
  <2>1. b \in [opened : Nat, arm : Nat] /\ b.opened = branch[1].opened
    BY <1>2
  <2>2. branch' = [branch EXCEPT ![1] = b]
    BY <1>1, <1>2
  <2> HIDE DEF b
  <2>3. /\ branch' \in Seq([opened : Nat, arm : Nat]) /\ Len(branch') = Len(branch)
        /\ branch'[1] = b
    BY <1>2, <2>1, <2>2, FirstReplaced
  <2>4. branch' = <<>> => Len(branch') = 0
    OBVIOUS
  <2> QED BY <1>2, <2>1, <2>3, <2>4
<1>4. /\ n \in Nat /\ n \in 1..n /\ Len(includeList') = n /\ includeList'[n] = <<>>
      /\ includeList' \in Seq(Seq((DOMAIN BranchHeaders) \X Nat))
      /\ \A i \in 1..n : i # n => includeList'[i] = includeList[i]
  <2>1. <<>> \in Seq((DOMAIN BranchHeaders) \X Nat)
    BY EmptySeq
  <2>2. includeList \in Seq(Seq((DOMAIN BranchHeaders) \X Nat)) /\ n \in Nat /\ n \in 1..n
    BY <1>1, LenProperties DEF KnownTyped
  <2> HIDE DEF n
  <2> QED BY <1>1, <2>1, <2>2, ExceptSeq DEF n
<1> HIDE DEF n
<1>5. KnownTyped'
  <2>1. InConditional(branch)'
    BY <1>1, <1>2, <1>3 DEF InConditional
  <2>2. \A s \in seen : s.branch = <<>> \/ InConditional(s.branch)'
    BY <1>1, StillInConditional DEF KnownTyped
  <2> QED BY <1>1, <1>4, <2>1, <2>2 DEF KnownTyped
<1>6. /\ \A i \in 1..n : i # n => Held(i)' = Held(i)
      /\ \A i : i = n => Held(i)' = {}
  <2>1. Branches!ToSet(<<>>) = {}
    BY DEF Branches!ToSet
  <2> QED BY <1>4, <2>1 DEF Held, Branches!ToSet
<1>7. Recalled'
  <2>1. ASSUME NEW i \in 1..n, NEW r \in Held(i)'
        PROVE  \E s \in seen : s.name = r[1] /\ s.line = r[2] /\ Together(s.branch, i)'
    <3>1. i # n /\ r \in Held(i)
      BY <1>6, <2>1
    <3>2. PICK s \in seen : s.name = r[1] /\ s.line = r[2] /\ Together(s.branch, i)
      BY <3>1 DEF KnownInv, Recalled, n
    <3>3. s.branch = <<>> \/ s.branch[1].opened # branch[1].opened
      BY <1>1, <3>1, <3>2 DEF Together, n
    <3>4. Together(s.branch, i)'
      BY <1>3, <3>3 DEF Together
    <3> QED BY <3>2, <3>4
  <2> QED BY <1>1, <1>4, <2>1 DEF Recalled
<1>8. NotForgotten'
  <2>1. ASSUME NEW s \in seen, s.branch = <<>>, s.name \in Required
        PROVE  \E i \in 1..n : i < n /\ \E r \in Held(i)' : r[1] = s.name
    <3>1. PICK i \in 1..n : i < n /\ \E r \in Held(i) : r[1] = s.name
      BY <1>1, <2>1 DEF KnownInv, NotForgotten, n
    <3>2. i # n
      BY <1>4, <3>1
    <3>3. Held(i)' = Held(i)
      BY <1>6, <3>1, <3>2
    <3> QED BY <3>1, <3>3
  <2> QED BY <1>1, <1>4, <2>1 DEF NotForgotten
<1> QED BY <1>1, <1>5, <1>7, <1>8, StillReal DEF KnownInv

\* After the conditional all that is remembered counts again.
LEMMA KnownEndif ==
  ASSUME KnownInv, Branches!ResetSection("endif")
  PROVE  KnownInv'
<1>1. /\ ~finished /\ finished' = finished /\ line' = line + 1 /\ seen' = seen /\ errors' = errors
      /\ includeList' = includeList /\ branch # <<>> /\ branch' = Branches!Front(branch)
      /\ KnownTyped /\ line \in Nat
  BY DEF Branches!ResetSection, Branches!NextLine, Branches!ListAfter, Branches!BranchAfter,
    KnownInv, KnownTyped
<1>2. branch' = <<>>
  <2>1. Len(branch) = 1 /\ branch \in Seq([opened : Nat, arm : Nat])
    BY <1>1 DEF KnownTyped, InConditional
  <2>2. branch' = SubSeq(branch, 1, 0)
    BY <1>1, <2>1 DEF Branches!Front
  <2> QED BY <2>1, <2>2, SubSeqEmpty
<1>3. KnownTyped'
  BY <1>1, <1>2, StillInConditional DEF KnownTyped
<1>4. Recalled'
  BY <1>1, <1>2 DEF KnownInv, Recalled, Together, Held
<1>5. NotForgotten'
  BY <1>1, <1>2 DEF KnownInv, NotForgotten, Held
<1> QED BY <1>1, <1>3, <1>4, <1>5, StillReal DEF KnownInv

-------------------------------------------------------------------------------
\* At the end, what is reported as missing is not remembered.
LEMMA KnownFinish ==
  ASSUME KnownInv, Branches!CheckForIncludeWhatYouUse
  PROVE  KnownInv'
<1>1. /\ branch = <<>> /\ ~finished /\ finished' = TRUE
      /\ UNCHANGED <<line, includeList, branch, seen>> /\ KnownTyped
  BY DEF Branches!CheckForIncludeWhatYouUse, Branches!state, Branches!hist, KnownInv
<1>2. KnownTyped' /\ Recalled' /\ NotForgotten'
  BY <1>1 DEF KnownInv, KnownTyped, InConditional, Recalled, NotForgotten, Together, Held
<1>3. \A e \in errors' : \/ e \in errors
                         \/ /\ e[1] = "build/include_what_you_use"
                            /\ \E x \in Required : x \notin Branches!IncludeDict /\ e[3] = {x}
  BY DEF Branches!CheckForIncludeWhatYouUse
<1>4. ASSUME NEW e \in errors', e[1] = "build/include_what_you_use", NEW s \in seen,
             s.name \in e[3], s.branch = <<>>
      PROVE  FALSE
  <2>1. s.name \in Required /\ s.name \notin Branches!IncludeDict
    BY <1>1, <1>3, <1>4 DEF KnownInv
  <2>2. PICK i \in 1..Len(includeList) : \E r \in Held(i) : r[1] = s.name
    BY <1>4, <2>1 DEF KnownInv, NotForgotten
  <2>3. PICK r \in Held(i) : r[1] = s.name
    BY <2>2
  <2>4. r \in Branches!Remembered
    BY <1>1, <2>3, RememberedIn
  <2>5. s.name \in Branches!IncludeDict
    BY <2>3, <2>4 DEF Branches!IncludeDict
  <2> QED BY <2>1, <2>5
<1>5. Branches!MissingIsReal'
  BY <1>1, <1>4 DEF Branches!MissingIsReal
<1>6. Branches!DuplicateIsReal'
  BY <1>1, <1>3 DEF KnownInv, Branches!DuplicateIsReal, Branches!Exclusive
<1> QED BY <1>1, <1>2, <1>5, <1>6 DEF KnownInv

LEMMA KnownStutter ==
  ASSUME KnownInv, UNCHANGED <<includeList, branch, seen, errors, finished>>,
         line' = line \/ line' = line + 1
  PROVE  KnownInv'
<1>1. KnownTyped /\ line \in Nat
  BY DEF KnownInv, KnownTyped
<1>2. \A b : InConditional(b) => InConditional(b)'
  BY <1>1, OpenedBefore DEF InConditional
<1>3. KnownTyped'
  BY <1>1, <1>2 DEF KnownTyped
<1>4. Recalled' /\ NotForgotten'
  BY DEF KnownInv, Recalled, NotForgotten, Together, Held
<1>5. Branches!DuplicateIsReal' /\ Branches!MissingIsReal'
  BY DEF KnownInv, Branches!DuplicateIsReal, Branches!MissingIsReal, Branches!Exclusive
<1> QED BY <1>3, <1>4, <1>5 DEF KnownInv

LEMMA KnownInductive ==
  ASSUME Branches!RequiredAssumption, KnownInv, [Branches!Next]_(Branches!vars)
  PROVE  KnownInv'
<1>1. CASE \E name \in DOMAIN BranchHeaders : Branches!IncludeLine(name)
  BY <1>1, KnownPass, KnownTrack DEF Branches!IncludeLine
<1>2. CASE \E d \in {"if", "else", "elif", "endif"} : Branches!ResetSection(d)
  BY <1>2, KnownIf, KnownElse, KnownEndif
<1>3. CASE Branches!OtherLine \/ UNCHANGED Branches!vars
  BY <1>3, KnownStutter
    DEF Branches!OtherLine, Branches!NextLine, Branches!vars, Branches!state, Branches!hist
<1>4. CASE Branches!CheckForIncludeWhatYouUse
  BY <1>4, KnownFinish
<1> QED BY <1>1, <1>2, <1>3, <1>4 DEF Branches!Next

LEMMA KnownBegun == ASSUME Branches!Init PROVE KnownInv
<1>1. /\ line = 0 /\ includeList = << <<>> >> /\ errors = {} /\ branch = <<>> /\ seen = {}
      /\ finished = FALSE
  BY DEF Branches!Init
<1>2. includeList \in Seq(Seq((DOMAIN BranchHeaders) \X Nat)) /\ Len(includeList) = 1
  <2>1. <<>> \in Seq((DOMAIN BranchHeaders) \X Nat)
    BY EmptySeq
  <2> QED BY <1>1, <2>1
<1>3. Held(1) = {}
  BY <1>1 DEF Held, Branches!ToSet
<1>4. KnownTyped
  BY <1>1, <1>2 DEF KnownTyped
<1>5. Recalled /\ NotForgotten
  BY <1>1, <1>2, <1>3 DEF Recalled, NotForgotten
<1>6. Branches!DuplicateIsReal /\ Branches!MissingIsReal
  BY <1>1 DEF Branches!DuplicateIsReal, Branches!MissingIsReal
<1> QED BY <1>1, <1>4, <1>5, <1>6 DEF KnownInv

\* Whichever branches of the preprocessor are taken, a header said to be repeated
\* can be, and one said to be missing is not included in all cases.
THEOREM HeadersRemembered == TextSpec => []HeadersKnown
<1>1. Branches!RequiredAssumption
  BY LintTextAssumption
<1>2. Branches!Init => KnownInv
  BY KnownBegun
<1>3. KnownInv /\ [Branches!Next]_(Branches!vars) => KnownInv'
  BY <1>1, KnownInductive
<1>4. KnownInv => Branches!DuplicateIsReal /\ Branches!MissingIsReal
  BY DEF KnownInv
<1>5. [TextNext]_textVars => (what = "branches" <=> (what = "branches")')
  BY OneCheck
<1>6. HeadersKnown <=>
        (what = "branches" => Branches!DuplicateIsReal /\ Branches!MissingIsReal)
  BY DEF HeadersKnown
<1> QED BY <1>2, <1>3, <1>4, <1>5, <1>6, BranchesBehaviour, PTL DEF TextSpec

-------------------------------------------------------------------------------
(* UpdatePreprocessor.                                                     *)

\* The directives of n lines, and how many conditionals are open after each.
Depths(d, L, n) ==
  /\ n \in Nat /\ d \in [1..n -> Conditionals!Directives] /\ L \in [0..n -> Int] /\ L[0] = 0
  /\ \A i \in 1..n : L[i] = L[i - 1] + CASE d[i] = "if" -> 1 [] d[i] = "endif" -> -1 [] OTHER -> 0

\* Line k is an #if that is open after line t; its #else lines up to there;
\* and the lines that count, given that the file ends with line t.
Open(d, L, k, t) == k \in 1..t /\ d[k] = "if" /\ \A m \in k..t : L[m] >= L[k]
ElsesTo(d, L, k, t) ==
  {e \in 1..t : k < e /\ d[e] = "else" /\ Open(d, L, k, e) /\ L[e] = L[k]}
CountsTo(d, L, i, t) ==
  \A k \in 1..(i - 1) :
    Open(d, L, k, i) =>
      IF Open(d, L, k, t) THEN \A e \in ElsesTo(d, L, k, t) : e <= i
      ELSE \A e \in ElsesTo(d, L, k, t) : e > i

LEMMA LevelSteps ==
  ASSUME NEW n, NEW d, NEW L, Depths(d, L, n), NEW i \in 1..n
  PROVE  /\ L[i] \in Int /\ L[i - 1] \in Int /\ d[i] \in {"none", "if", "else", "endif"}
         /\ d[i] = "if" => L[i] = L[i - 1] + 1
         /\ d[i] = "endif" => L[i] = L[i - 1] - 1
         /\ d[i] \in {"none", "else"} => L[i] = L[i - 1]
<1>1. i - 1 \in 0..n /\ i \in 0..n
  BY DEF Depths
<1> QED BY <1>1 DEF Depths, Conditionals!Directives

\* What is around an open #if stays as it was before it.
LEMMA Around ==
  ASSUME NEW n, NEW d, NEW L, Depths(d, L, n), NEW t \in 1..n, NEW k, Open(d, L, k, t),
         NEW j \in 1..(k - 1)
  PROVE  /\ k \in 1..t /\ n \in Nat
         /\ Open(d, L, j, t) <=> Open(d, L, j, k - 1)
         /\ Open(d, L, j, k - 1) => \A m \in k..t : L[m] > L[j]
         /\ ElsesTo(d, L, j, t) = ElsesTo(d, L, j, k - 1)
<1>1. k \in 1..t /\ n \in Nat /\ k \in 1..n /\ k \in Nat /\ j \in 1..n /\ t \in Nat /\ j <= k - 1 /\ k - 1 <= t
  BY DEF Open, Depths
<1>2. L[k] = L[k - 1] + 1 /\ L[k - 1] \in Int /\ L[k] \in Int /\ L[j] \in Int
  BY <1>1, LevelSteps DEF Open
<1>3. ASSUME Open(d, L, j, k - 1) PROVE \A m \in k..t : L[m] > L[j]
  <2>1. L[k - 1] >= L[j]
    BY <1>1, <1>3 DEF Open
  <2>2. ASSUME NEW m \in k..t PROVE L[m] >= L[k] /\ L[m] \in Int
    BY <1>1, LevelSteps DEF Open
  <2> QED BY <1>2, <2>1, <2>2
<1>4. Open(d, L, j, k - 1) => Open(d, L, j, t)
  <2>1. SUFFICES ASSUME Open(d, L, j, k - 1) PROVE Open(d, L, j, t)
    OBVIOUS
  <2>2. ASSUME NEW m \in j..t PROVE L[m] >= L[j]
    <3>1. CASE m \in k..t
      <4>1. L[m] > L[j] /\ m \in 1..n
        BY <1>1, <1>3, <2>1, <3>1
      <4>2. L[m] \in Int
        BY <4>1, LevelSteps
      <4> QED BY <1>2, <4>1, <4>2
    <3>2. CASE m \in j..(k - 1)
      BY <2>1, <3>2 DEF Open
    <3> QED BY <1>1, <3>1, <3>2
  <2> QED BY <1>1, <2>1, <2>2 DEF Open
<1>5. Open(d, L, j, t) => Open(d, L, j, k - 1)
  BY <1>1 DEF Open
<1>6. ASSUME NEW e \in ElsesTo(d, L, j, t) PROVE e \in ElsesTo(d, L, j, k - 1)
  <2>1. e \in 1..t /\ Open(d, L, j, e) /\ L[e] = L[j] /\ j < e /\ d[e] = "else"
    BY DEF ElsesTo
  <2>2. e <= k - 1
    <3>1. SUFFICES ASSUME e \in k..t PROVE FALSE
      BY <1>1, <2>1
    <3>2. Open(d, L, j, k - 1)
      BY <1>1, <2>1, <3>1 DEF Open
    <3> QED BY <1>2, <1>3, <2>1, <3>1, <3>2
  <2> QED BY <1>1, <2>1, <2>2 DEF ElsesTo
<1>7. ElsesTo(d, L, j, k - 1) \subseteq ElsesTo(d, L, j, t)
  BY <1>1 DEF ElsesTo
<1> QED BY <1>1, <1>3, <1>4, <1>5, <1>6, <1>7

\* Whether a line before an open #if counts was settled there.
LEMMA SettledBefore ==
  ASSUME NEW n, NEW d, NEW L, Depths(d, L, n), NEW t \in 1..n, NEW k, Open(d, L, k, t),
         NEW i \in 1..(k - 1)
  PROVE  CountsTo(d, L, i, t) <=> CountsTo(d, L, i, k - 1)
<1>1. k \in 1..t /\ n \in Nat /\ i \in Nat
  BY DEF Open, Depths
<1>2. ASSUME NEW j \in 1..(i - 1)
      PROVE  /\ Open(d, L, j, t) <=> Open(d, L, j, k - 1)
             /\ ElsesTo(d, L, j, t) = ElsesTo(d, L, j, k - 1)
  <2>1. j \in 1..(k - 1)
    BY <1>1
  <2> QED BY <2>1, Around
<1> QED BY <1>2 DEF CountsTo

\* The #if that a line after t would end, or give another branch.
Innermost(d, L, k, t) ==
  Open(d, L, k, t) /\ L[k] = L[t] /\ \A j \in 1..t : Open(d, L, j, t) => j <= k

LEMMA CountsItself == ASSUME NEW d, NEW L, NEW i \in Nat PROVE CountsTo(d, L, i, i)
BY DEF CountsTo, ElsesTo

\* An #else takes back what counted since the innermost #if.
LEMMA CountsAtElse ==
  ASSUME NEW n, NEW d, NEW L, Depths(d, L, n), NEW u \in 1..n, d[u] = "else",
         NEW k, Innermost(d, L, k, u - 1)
  PROVE  /\ k \in 1..(u - 1)
         /\ \A i \in 1..(k - 1) : CountsTo(d, L, i, u) <=> CountsTo(d, L, i, k - 1)
         /\ CountsTo(d, L, k, u)
         /\ \A i \in (k + 1)..(u - 1) : ~ CountsTo(d, L, i, u)
<1>1. /\ n \in Nat /\ k \in 1..(u - 1) /\ u - 1 \in 1..n /\ u \in Nat /\ k \in 1..u
      /\ u - 1 \in 1..(u - 1)
  BY DEF Open, Depths, Innermost
<1>2. L[u] = L[u - 1] /\ L[k] = L[u - 1] /\ d[k] = "if" /\ \A m \in k..(u - 1) : L[m] >= L[k]
  BY <1>1, LevelSteps DEF Innermost, Open
<1>3. Open(d, L, k, u)
  <2>1. L[u] \in Int
    BY LevelSteps
  <2>2. L[u] >= L[k]
    BY <1>2, <2>1
  <2>3. ASSUME NEW m \in k..u PROVE L[m] >= L[k]
    BY <1>1, <1>2, <2>2
  <2> QED BY <1>1, <1>2, <2>3 DEF Open
<1>4. \A i \in 1..(k - 1) : CountsTo(d, L, i, u) <=> CountsTo(d, L, i, k - 1)
  BY <1>3, SettledBefore
<1>5. ASSUME NEW j \in 1..(k - 1), Open(d, L, j, k)
      PROVE  Open(d, L, j, u) /\ \A e \in ElsesTo(d, L, j, u) : e <= k
  <2>1. Open(d, L, j, k - 1)
    BY <1>1, <1>5 DEF Open
  <2>2. Open(d, L, j, u) /\ ElsesTo(d, L, j, u) = ElsesTo(d, L, j, k - 1)
    BY <1>3, <2>1, Around
  <2> QED BY <1>1, <2>2 DEF ElsesTo
<1>6. CountsTo(d, L, k, u)
  BY <1>5 DEF CountsTo
<1>7. u \in ElsesTo(d, L, k, u)
  BY <1>1, <1>2, <1>3 DEF ElsesTo
<1>8. ASSUME NEW i \in (k + 1)..(u - 1) PROVE ~ CountsTo(d, L, i, u)
  <2>1. k \in 1..(i - 1) /\ u > i /\ ~ u <= i
    BY <1>1
  <2>2. Open(d, L, k, i)
    BY <1>1, <1>3, <2>1 DEF Open
  <2> QED BY <1>3, <1>7, <2>1, <2>2 DEF CountsTo
<1> QED BY <1>1, <1>4, <1>6, <1>8

\* An #endif takes back what counted since the first #else.
LEMMA CountsAtEndif ==
  ASSUME NEW n, NEW d, NEW L, Depths(d, L, n), NEW u \in 1..n, d[u] = "endif",
         NEW k, Innermost(d, L, k, u - 1),
         NEW f \in ElsesTo(d, L, k, u - 1), \A e \in ElsesTo(d, L, k, u - 1) : f <= e
  PROVE  /\ f \in 1..(u - 1)
         /\ \A i \in 1..(f - 1) : CountsTo(d, L, i, u) <=> CountsTo(d, L, i, f - 1)
         /\ \A i \in f..(u - 1) : ~ CountsTo(d, L, i, u)
<1>1. /\ n \in Nat /\ k \in 1..(u - 1) /\ u - 1 \in 1..n /\ u \in Nat /\ u - 1 \in 1..(u - 1)
      /\ Open(d, L, k, u - 1)
  BY DEF Open, Depths, Innermost
<1>2. /\ f \in 1..(u - 1) /\ k < f /\ d[f] = "else" /\ L[f] = L[k] /\ f \in 1..n
      /\ L[f - 1] = L[f] /\ L[k] \in Int
  BY <1>1, LevelSteps DEF ElsesTo
<1>3. L[u] = L[k] - 1 /\ d[k] = "if" /\ \A m \in k..(u - 1) : L[m] >= L[k]
  BY <1>1, LevelSteps DEF Innermost, Open
<1>4. ~ Open(d, L, k, u)
  BY <1>1, <1>2, <1>3 DEF Open
<1>5. ASSUME NEW j PROVE ElsesTo(d, L, j, u) = ElsesTo(d, L, j, u - 1)
  BY <1>1 DEF ElsesTo
<1>6. Open(d, L, k, f - 1) /\ ElsesTo(d, L, k, f - 1) = {}
  <2>1. Open(d, L, k, f - 1)
    BY <1>1, <1>2 DEF Open
  <2>2. ASSUME NEW e \in ElsesTo(d, L, k, f - 1) PROVE FALSE
    <3>1. e \in ElsesTo(d, L, k, u - 1) /\ e \in 1..(f - 1)
      BY <1>1, <1>2 DEF ElsesTo
    <3> QED BY <1>2, <3>1
  <2> QED BY <2>1, <2>2
<1>7. ASSUME NEW j \in 1..(k - 1)
      PROVE  /\ Open(d, L, j, u) <=> Open(d, L, j, f - 1)
             /\ ElsesTo(d, L, j, u) = ElsesTo(d, L, j, f - 1)
  <2>1. f - 1 \in 1..n /\ u - 1 \in 1..n
    BY <1>1, <1>2
  <2>2. /\ Open(d, L, j, u - 1) <=> Open(d, L, j, k - 1)
        /\ ElsesTo(d, L, j, u - 1) = ElsesTo(d, L, j, k - 1)
        /\ Open(d, L, j, k - 1) => L[k] > L[j]
    BY <1>1, <2>1, Around
  <2>3. /\ Open(d, L, j, f - 1) <=> Open(d, L, j, k - 1)
        /\ ElsesTo(d, L, j, f - 1) = ElsesTo(d, L, j, k - 1)
    BY <1>6, <2>1, Around
  <2>4. j \in 1..n
    BY <1>1
  <2>5. L[j] \in Int
    BY <2>4, LevelSteps
  <2>6. Open(d, L, j, u) <=> Open(d, L, j, u - 1)
    <3>1. Open(d, L, j, u) => Open(d, L, j, u - 1)
      BY <1>1 DEF Open
    <3>2. ASSUME Open(d, L, j, u - 1) PROVE Open(d, L, j, u)
      <4>1. L[u] >= L[j]
        BY <1>2, <1>3, <2>2, <2>5, <3>2
      <4> QED BY <1>1, <3>2, <4>1 DEF Open
    <3> QED BY <3>1, <3>2
  <2> QED BY <1>5, <2>2, <2>3, <2>6
<1>8. ASSUME NEW i \in 1..(f - 1) PROVE CountsTo(d, L, i, u) <=> CountsTo(d, L, i, f - 1)
  <2>1. SUFFICES ASSUME NEW j \in 1..(i - 1), Open(d, L, j, i)
        PROVE (IF Open(d, L, j, u) THEN \A e \in ElsesTo(d, L, j, u) : e <= i
               ELSE \A e \in ElsesTo(d, L, j, u) : e > i)
          <=> (IF Open(d, L, j, f - 1) THEN \A e \in ElsesTo(d, L, j, f - 1) : e <= i
               ELSE \A e \in ElsesTo(d, L, j, f - 1) : e > i)
    BY Zenon DEF CountsTo
  <2>2. CASE j \in 1..(k - 1)
    BY <1>7, <2>2
  <2>3. CASE j = k
    <3>1. \A e \in ElsesTo(d, L, k, u) : e > i
      <4>1. ASSUME NEW e \in ElsesTo(d, L, k, u - 1) PROVE e > i
        <5>1. f <= e /\ e \in Nat
          BY DEF ElsesTo
        <5> QED BY <1>2, <5>1
      <4> QED BY <1>5, <4>1
    <3> QED BY <1>4, <1>6, <2>3, <3>1
  <2>4. CASE j > k
    <3>1. j \in 1..(f - 1) /\ j \in 1..n /\ j \in k..(u - 1) /\ i \in 1..n /\ j - 1 \in k..(u - 1)
      BY <1>1, <1>2, <2>4
    <3>2. L[j] = L[j - 1] + 1 /\ L[j - 1] >= L[k] /\ L[j] \in Int /\ L[j - 1] \in Int
      BY <1>1, <1>3, <2>1, <3>1, LevelSteps DEF Open
    <3>3. L[j] > L[k] /\ ~ L[f - 1] >= L[j]
      BY <1>2, <3>2
    <3>4. ~ Open(d, L, j, f - 1)
      BY <1>2, <3>1, <3>3 DEF Open
    <3>5. ASSUME NEW t \in (f - 1)..n PROVE ~ Open(d, L, j, t)
      BY <1>1, <1>2, <3>1, <3>3 DEF Open
    <3>6. ElsesTo(d, L, j, u) = ElsesTo(d, L, j, f - 1) /\ ~ Open(d, L, j, u)
      <4>1. ASSUME NEW e \in ElsesTo(d, L, j, u) PROVE e \in ElsesTo(d, L, j, f - 1)
        <5>1. e \in 1..u /\ Open(d, L, j, e) /\ j < e /\ d[e] = "else" /\ L[e] = L[j]
          BY DEF ElsesTo
        <5>2. ~ e \in (f - 1)..n
          BY <3>5, <5>1
        <5>3. e \in 1..(f - 1)
          BY <1>1, <1>2, <5>1, <5>2
        <5> QED BY <5>1, <5>3 DEF ElsesTo
      <4>2. ElsesTo(d, L, j, f - 1) \subseteq ElsesTo(d, L, j, u)
        BY <1>1, <1>2 DEF ElsesTo
      <4>3. u \in (f - 1)..n
        BY <1>1, <1>2
      <4> QED BY <3>5, <4>1, <4>2, <4>3
    <3> QED BY <3>4, <3>6
  <2>5. j \in Nat /\ k \in Nat
    BY <1>1
  <2> QED BY <2>2, <2>3, <2>4, <2>5
<1>9. ASSUME NEW i \in f..(u - 1) PROVE ~ CountsTo(d, L, i, u)
  <2>1. k \in 1..(i - 1) /\ ~ f > i /\ i \in Nat
    BY <1>1, <1>2
  <2>2. Open(d, L, k, i)
    BY <1>1, <1>2, <2>1 DEF Open
  <2>3. f \in ElsesTo(d, L, k, u)
    BY <1>5
  <2> QED BY <1>4, <2>1, <2>2, <2>3 DEF CountsTo
<1> QED BY <1>2, <1>8, <1>9

\* Any other line leaves what counted.
LEMMA CountsKept ==
  ASSUME NEW n, NEW d, NEW L, Depths(d, L, n), NEW u \in 1..n,
         \/ d[u] \in {"none", "if"}
         \/ \A j \in 1..(u - 1) : ~ Open(d, L, j, u - 1)
         \/ /\ d[u] = "endif"
            /\ \E k : Innermost(d, L, k, u - 1) /\ ElsesTo(d, L, k, u - 1) = {}
  PROVE  \A i \in 1..(u - 1) : CountsTo(d, L, i, u) <=> CountsTo(d, L, i, u - 1)
<1>1. u \in Nat /\ n \in Nat
  BY DEF Depths
<1>2. \A j : Open(d, L, j, u) => j = u \/ Open(d, L, j, u - 1)
  BY <1>1 DEF Open
<1>3. L[u] \in Int /\ L[u - 1] \in Int
  BY LevelSteps
<1>4. ASSUME NEW j \in 1..(u - 1),
             Open(d, L, j, u) <=> Open(d, L, j, u - 1),
             u \notin ElsesTo(d, L, j, u)
      PROVE  ElsesTo(d, L, j, u) = ElsesTo(d, L, j, u - 1)
  BY <1>1, <1>4 DEF ElsesTo
<1>5. SUFFICES ASSUME NEW j \in 1..(u - 1)
      PROVE \/ /\ Open(d, L, j, u) <=> Open(d, L, j, u - 1)
               /\ ElsesTo(d, L, j, u) = ElsesTo(d, L, j, u - 1)
            \/ ElsesTo(d, L, j, u) = {} /\ ElsesTo(d, L, j, u - 1) = {}
  <2>1. ASSUME NEW i \in 1..(u - 1) PROVE CountsTo(d, L, i, u) <=> CountsTo(d, L, i, u - 1)
    <3>1. \A j \in 1..(i - 1) : j \in 1..(u - 1)
      BY <1>1
    <3> QED BY <1>5, <3>1 DEF CountsTo
  <2> QED BY <2>1
<1>6. j \in 1..n /\ L[j] \in Int
  BY <1>1, LevelSteps
<1>7. CASE d[u] \in {"none", "if"}
  <2>1. L[u] >= L[u - 1]
    BY <1>3, <1>7, LevelSteps
  <2>2. Open(d, L, j, u - 1) => Open(d, L, j, u)
    <3>1. SUFFICES ASSUME Open(d, L, j, u - 1) PROVE Open(d, L, j, u)
      OBVIOUS
    <3>2. L[u] >= L[j]
      BY <1>1, <1>3, <1>6, <2>1, <3>1 DEF Open
    <3> QED BY <1>1, <3>1, <3>2 DEF Open
  <2>3. u \notin ElsesTo(d, L, j, u)
    BY <1>7 DEF ElsesTo
  <2> QED BY <1>1, <1>2, <1>4, <2>2, <2>3
<1>8. CASE \A m \in 1..(u - 1) : ~ Open(d, L, m, u - 1)
  <2>1. ~ Open(d, L, j, u) /\ ~ Open(d, L, j, u - 1)
    BY <1>1, <1>2, <1>8
  <2>2. u \notin ElsesTo(d, L, j, u)
    BY <2>1 DEF ElsesTo
  <2> QED BY <1>4, <2>1, <2>2
<1>9. ASSUME d[u] = "endif", NEW k, Innermost(d, L, k, u - 1), ElsesTo(d, L, k, u - 1) = {}
      PROVE \/ /\ Open(d, L, j, u) <=> Open(d, L, j, u - 1)
               /\ ElsesTo(d, L, j, u) = ElsesTo(d, L, j, u - 1)
            \/ ElsesTo(d, L, j, u) = {} /\ ElsesTo(d, L, j, u - 1) = {}
  <2>1. u \notin ElsesTo(d, L, j, u)
    BY <1>9 DEF ElsesTo
  <2>2. ElsesTo(d, L, j, u) = ElsesTo(d, L, j, u - 1)
    BY <1>1, <2>1 DEF ElsesTo
  <2>3. CASE j = k
    BY <1>9, <2>2, <2>3
  <2>4. CASE j # k
    <3>1. Open(d, L, j, u - 1) => Open(d, L, j, u)
      <4>1. SUFFICES ASSUME Open(d, L, j, u - 1) PROVE Open(d, L, j, u)
        OBVIOUS
      <4>2. j <= k /\ Open(d, L, k, u - 1) /\ k \in 1..(u - 1) /\ L[k] = L[u - 1]
        BY <1>9, <4>1 DEF Innermost, Open
      <4>3. j \in 1..(k - 1) /\ u - 1 \in 1..n
        BY <1>1, <2>4, <4>2
      <4>4. L[k] > L[j]
        BY <1>1, <4>1, <4>2, <4>3, Around
      <4>5. L[u] = L[u - 1] - 1
        BY <1>9, LevelSteps
      <4>6. L[u] >= L[j]
        BY <1>3, <1>6, <4>2, <4>4, <4>5
      <4> QED BY <1>1, <4>1, <4>6 DEF Open
    <3> QED BY <1>1, <1>2, <2>2, <3>1
  <2> QED BY <2>3, <2>4
<1> QED BY <1>7, <1>8, <1>9

-------------------------------------------------------------------------------
\* What is saved of the stacks of blocks.
SavesOf(V) == [beforeIf : V, beforeElse : V, seenElse : BOOLEAN]

\* b has the stacks that were there before the #if at k and before its first #else.
Remembers(d, L, s, b, k, t) ==
  /\ b.beforeIf = s[k - 1]
  /\ b.seenElse <=> ElsesTo(d, L, k, t) # {}
  /\ b.seenElse => \E f \in ElsesTo(d, L, k, t) :
                     (\A e \in ElsesTo(d, L, k, t) : f <= e) /\ b.beforeElse = s[f - 1]

\* The saved stacks q are those of the conditionals open after line t.
SavedOpen(d, L, s, q, t) ==
  \E ks \in [1..Len(q) -> 1..t] :
    /\ \A j \in 1..Len(q) : /\ Open(d, L, ks[j], t) /\ L[ks[j]] = L[t] - (Len(q) - j)
                            /\ Remembers(d, L, s, q[j], ks[j], t)
    /\ \A k \in 1..t : Open(d, L, k, t) => \E j \in 1..Len(q) : ks[j] = k

LEMMA Deeper ==
  ASSUME NEW n, NEW d, NEW L, Depths(d, L, n), NEW t \in 1..n, NEW k, Open(d, L, k, t),
         NEW j, Open(d, L, j, t), j < k
  PROVE  L[j] < L[k]
<1>1. j \in 1..(k - 1) /\ k \in k..t /\ k \in 1..n /\ j \in 1..n
  BY DEF Open, Depths
<1>2. L[k] > L[j]
  BY <1>1, Around
<1>3. L[k] \in Int /\ L[j] \in Int
  BY <1>1, LevelSteps
<1> QED BY <1>2, <1>3

\* The last of the saved stacks is that of the innermost conditional.
LEMMA SavedLast ==
  ASSUME NEW n, NEW d, NEW L, Depths(d, L, n), NEW t \in 0..n, NEW s, NEW V, NEW q \in Seq(V),
         SavedOpen(d, L, s, q, t)
  PROVE  /\ q = <<>> => \A k \in 1..t : ~ Open(d, L, k, t)
         /\ q # <<>> => \E k : Innermost(d, L, k, t) /\ Remembers(d, L, s, q[Len(q)], k, t)
<1>1. PICK ks \in [1..Len(q) -> 1..t] :
        /\ \A j \in 1..Len(q) : /\ Open(d, L, ks[j], t) /\ L[ks[j]] = L[t] - (Len(q) - j)
                                /\ Remembers(d, L, s, q[j], ks[j], t)
        /\ \A k \in 1..t : Open(d, L, k, t) => \E j \in 1..Len(q) : ks[j] = k
  BY DEF SavedOpen
<1>2. Len(q) \in Nat /\ (q = <<>> => Len(q) = 0) /\ (q # <<>> => Len(q) \in 1..Len(q))
  OBVIOUS
<1>3. ASSUME q # <<>> PROVE Innermost(d, L, ks[Len(q)], t) /\ Remembers(d, L, s, q[Len(q)], ks[Len(q)], t)
  <2> DEFINE k == ks[Len(q)]
  <2>1. Open(d, L, k, t) /\ L[k] = L[t] - (Len(q) - Len(q)) /\ Remembers(d, L, s, q[Len(q)], k, t)
    BY <1>1, <1>2, <1>3
  <2>2. k \in 1..t /\ t \in 1..n /\ n \in Nat
    BY <1>2, <1>3, <1>1 DEF Depths
  <2> HIDE DEF k
  <2>3. L[t] \in Int /\ L[k] \in Int
    BY <2>2, LevelSteps
  <2>4. L[k] = L[t]
    BY <1>2, <2>1, <2>3
  <2>5. ASSUME NEW i \in 1..t, Open(d, L, i, t) PROVE i <= k
    <3>1. PICK j \in 1..Len(q) : ks[j] = i
      BY <1>1, <2>5
    <3>2. L[i] = L[t] - (Len(q) - j) /\ L[i] <= L[k]
      BY <1>1, <1>2, <2>3, <2>4, <3>1
    <3>3. k < i => L[k] < L[i]
      BY <2>1, <2>2, <2>5, Deeper
    <3>4. i \in 1..n
      BY <2>2
    <3>5. L[i] \in Int
      BY <3>4, LevelSteps
    <3> QED BY <2>2, <2>3, <3>2, <3>3, <3>5
  <2> QED BY <2>1, <2>4, <2>5 DEF k, Innermost
<1>4. ASSUME q = <<>> PROVE \A k \in 1..t : ~ Open(d, L, k, t)
  BY <1>1, <1>2, <1>4
<1> QED BY <1>3, <1>4

\* What a line does to the conditionals that are open, and to their #else lines.
LEMMA OpenNext ==
  ASSUME NEW n, NEW d, NEW L, Depths(d, L, n), NEW u \in 1..n
  PROVE  /\ d[u] \in {"none", "else"} => \A k : Open(d, L, k, u) <=> Open(d, L, k, u - 1)
         /\ d[u] = "if" => \A k : Open(d, L, k, u) <=> k = u \/ Open(d, L, k, u - 1)
         /\ d[u] = "endif" =>
              \A k : Open(d, L, k, u) <=> Open(d, L, k, u - 1) /\ L[k] < L[u - 1]
         /\ d[u] # "else" => \A k : ElsesTo(d, L, k, u) = ElsesTo(d, L, k, u - 1)
         /\ d[u] = "else" =>
              \A k : /\ L[k] # L[u - 1] => ElsesTo(d, L, k, u) = ElsesTo(d, L, k, u - 1)
                     /\ Open(d, L, k, u - 1) /\ L[k] = L[u - 1] =>
                          ElsesTo(d, L, k, u) = ElsesTo(d, L, k, u - 1) \cup {u}
<1>1. u \in Nat /\ n \in Nat /\ L[u] \in Int /\ L[u - 1] \in Int
  BY LevelSteps DEF Depths
<1>2. ASSUME NEW k PROVE Open(d, L, k, u) => k = u \/ Open(d, L, k, u - 1)
  BY <1>1 DEF Open
<1>3. ASSUME NEW k, Open(d, L, k, u - 1) PROVE k \in 1..(u - 1) /\ L[k] <= L[u - 1] /\ L[k] \in Int
  <2>1. k \in 1..n /\ u - 1 \in k..(u - 1) /\ k \in 1..(u - 1)
    BY <1>1, <1>3 DEF Open
  <2>2. L[u - 1] >= L[k]
    BY <1>3, <2>1 DEF Open
  <2>3. L[k] \in Int
    BY <2>1, LevelSteps
  <2> QED BY <1>1, <2>1, <2>2, <2>3
<1>4. ASSUME NEW k, Open(d, L, k, u - 1), L[u] >= L[k] PROVE Open(d, L, k, u)
  BY <1>1, <1>4 DEF Open
<1>5. ASSUME d[u] \in {"none", "else"}, NEW k PROVE Open(d, L, k, u) <=> Open(d, L, k, u - 1)
  <2>1. L[u] = L[u - 1]
    BY <1>5, LevelSteps
  <2>2. ASSUME Open(d, L, k, u - 1) PROVE Open(d, L, k, u)
    <3>1. L[u] >= L[k]
      BY <1>1, <1>3, <2>1, <2>2
    <3> QED BY <1>4, <2>2, <3>1
  <2>3. ~ Open(d, L, u, u)
    BY <1>5 DEF Open
  <2> QED BY <1>2, <2>2, <2>3
<1>6. ASSUME d[u] = "if", NEW k PROVE Open(d, L, k, u) <=> k = u \/ Open(d, L, k, u - 1)
  <2>1. L[u] = L[u - 1] + 1
    BY <1>6, LevelSteps
  <2>2. ASSUME Open(d, L, k, u - 1) PROVE Open(d, L, k, u)
    <3>1. L[u] >= L[k]
      BY <1>1, <1>3, <2>1, <2>2
    <3> QED BY <1>4, <2>2, <3>1
  <2>3. Open(d, L, u, u)
    BY <1>1, <1>6 DEF Open
  <2> QED BY <1>2, <2>2, <2>3
<1>7. ASSUME d[u] = "endif", NEW k
      PROVE Open(d, L, k, u) <=> Open(d, L, k, u - 1) /\ L[k] < L[u - 1]
  <2>1. L[u] = L[u - 1] - 1
    BY <1>7, LevelSteps
  <2>2. ASSUME Open(d, L, k, u - 1), L[k] < L[u - 1] PROVE Open(d, L, k, u)
    <3>1. L[u] >= L[k]
      BY <1>1, <1>3, <2>1, <2>2
    <3> QED BY <1>4, <2>2, <3>1
  <2>3. ~ Open(d, L, u, u)
    BY <1>7 DEF Open
  <2>4. ASSUME Open(d, L, k, u) PROVE L[k] < L[u - 1]
    <3>1. Open(d, L, k, u - 1) /\ L[u] >= L[k]
      BY <1>1, <1>2, <2>3, <2>4 DEF Open
    <3> QED BY <1>1, <1>3, <2>1, <3>1
  <2> QED BY <1>2, <2>2, <2>3, <2>4
<1>8. ASSUME NEW k, u \notin ElsesTo(d, L, k, u) PROVE ElsesTo(d, L, k, u) = ElsesTo(d, L, k, u - 1)
  BY <1>1, <1>8 DEF ElsesTo
<1>9. ASSUME NEW k, d[u] # "else" PROVE ElsesTo(d, L, k, u) = ElsesTo(d, L, k, u - 1)
  BY <1>8, <1>9 DEF ElsesTo
<1>10. ASSUME d[u] = "else", NEW k
       PROVE /\ L[k] # L[u - 1] => ElsesTo(d, L, k, u) = ElsesTo(d, L, k, u - 1)
             /\ Open(d, L, k, u - 1) /\ L[k] = L[u - 1] =>
                  ElsesTo(d, L, k, u) = ElsesTo(d, L, k, u - 1) \cup {u}
  <2>1. L[u] = L[u - 1]
    BY <1>10, LevelSteps
  <2>2. L[k] # L[u - 1] => ElsesTo(d, L, k, u) = ElsesTo(d, L, k, u - 1)
    BY <1>8, <2>1 DEF ElsesTo
  <2>3. ASSUME Open(d, L, k, u - 1), L[k] = L[u - 1]
        PROVE ElsesTo(d, L, k, u) = ElsesTo(d, L, k, u - 1) \cup {u}
    <3>1. u \in ElsesTo(d, L, k, u)
      BY <1>1, <1>3, <1>5, <1>10, <2>1, <2>3 DEF ElsesTo
    <3>2. ElsesTo(d, L, k, u) \ {u} = ElsesTo(d, L, k, u - 1)
      BY <1>1 DEF ElsesTo
    <3> QED BY <3>1, <3>2
  <2> QED BY <2>2, <2>3
<1> QED BY <1>5, <1>6, <1>7, <1>9, <1>10

LEMMA SavedBy ==
  ASSUME NEW d, NEW L, NEW s, NEW q, NEW t \in Nat, NEW m \in Nat, Len(q) = m, NEW ks \in [1..m -> 1..t],
         \A j \in 1..m : /\ Open(d, L, ks[j], t) /\ L[ks[j]] = L[t] - (m - j)
                         /\ Remembers(d, L, s, q[j], ks[j], t),
         \A k \in 1..t : Open(d, L, k, t) => \E j \in 1..m : ks[j] = k
  PROVE  SavedOpen(d, L, s, q, t)
BY DEF SavedOpen

\* UpdatePreprocessor saves the stacks of the conditionals that are open.
LEMMA SavedNext ==
  ASSUME NEW n, NEW d, NEW L, Depths(d, L, n), NEW u \in 1..n, NEW V, <<>> \in V,
         NEW s \in [0..n -> V], NEW q \in Seq(SavesOf(V)), SavedOpen(d, L, s, q, u - 1)
  PROVE  SavedOpen(d, L, s, Conditionals!UpdatePreprocessor(s[u - 1], q, d[u]).pp, u)
<1> DEFINE new == Conditionals!UpdatePreprocessor(s[u - 1], q, d[u]).pp
<1> SUFFICES SavedOpen(d, L, s, new, u)
  OBVIOUS
<1>1. u \in Nat /\ n \in Nat /\ L[u] \in Int /\ L[u - 1] \in Int /\ u - 1 \in 0..n
  BY LevelSteps DEF Depths
<1>2. Len(q) \in Nat /\ (q = <<>> <=> Len(q) = 0) /\ (\A j \in 1..Len(q) : q[j] \in SavesOf(V))
  OBVIOUS
<1>3. PICK ks \in [1..Len(q) -> 1..(u - 1)] :
        /\ \A j \in 1..Len(q) : /\ Open(d, L, ks[j], u - 1) /\ L[ks[j]] = L[u - 1] - (Len(q) - j)
                                /\ Remembers(d, L, s, q[j], ks[j], u - 1)
        /\ \A k \in 1..(u - 1) : Open(d, L, k, u - 1) => \E j \in 1..Len(q) : ks[j] = k
  BY DEF SavedOpen
<1>4. \A k : Open(d, L, k, u - 1) => k \in 1..(u - 1)
  BY DEF Open
<1>5. ks \in [1..Len(q) -> 1..u]
  BY <1>1, <1>3
<1>6. ASSUME NEW b, NEW k, Remembers(d, L, s, b, k, u - 1),
             ElsesTo(d, L, k, u) = ElsesTo(d, L, k, u - 1)
      PROVE Remembers(d, L, s, b, k, u)
  BY <1>6 DEF Remembers
<1>7. CASE d[u] = "none" \/ (d[u] \in {"else", "endif"} /\ q = <<>>)
  <2>1. new = q
    BY <1>7 DEF Conditionals!UpdatePreprocessor
  <2>2. CASE d[u] = "none"
    <3>1. /\ \A k : Open(d, L, k, u) <=> Open(d, L, k, u - 1)
          /\ \A k : ElsesTo(d, L, k, u) = ElsesTo(d, L, k, u - 1)
          /\ L[u] = L[u - 1]
      BY <2>2, OpenNext, LevelSteps
    <3>2. \A j \in 1..Len(q) : /\ Open(d, L, ks[j], u) /\ L[ks[j]] = L[u] - (Len(q) - j)
                               /\ Remembers(d, L, s, q[j], ks[j], u)
      BY <1>3, <1>6, <3>1
    <3>3. \A k \in 1..u : Open(d, L, k, u) => \E j \in 1..Len(q) : ks[j] = k
      BY <1>3, <1>4, <3>1
    <3> HIDE DEF new
    <3> QED BY <1>5, <2>1, <3>2, <3>3 DEF SavedOpen
  <2>3. CASE d[u] \in {"else", "endif"} /\ q = <<>>
    <3>1. \A k : ~ Open(d, L, k, u - 1)
      BY <1>2, <1>3, <1>4, <2>3
    <3>2. \A k : ~ Open(d, L, k, u)
      BY <2>3, <3>1, OpenNext
    <3>3. 1..Len(q) = {}
      BY <1>2, <2>3
    <3> QED BY <1>5, <2>1, <3>2, <3>3 DEF SavedOpen
  <2> QED BY <1>7, <2>2, <2>3
<1>8. CASE d[u] = "if"
  <2> DEFINE b == [beforeIf |-> s[u - 1], beforeElse |-> <<>>, seenElse |-> FALSE]
             more == [j \in 1..(Len(q) + 1) |-> IF j <= Len(q) THEN ks[j] ELSE u]
  <2>1. new = Append(q, b)
    BY <1>8 DEF Conditionals!UpdatePreprocessor
  <2>2. /\ \A k : Open(d, L, k, u) <=> k = u \/ Open(d, L, k, u - 1)
        /\ \A k : ElsesTo(d, L, k, u) = ElsesTo(d, L, k, u - 1)
        /\ L[u] = L[u - 1] + 1
    BY <1>8, OpenNext, LevelSteps
  <2>3. /\ Len(new) = Len(q) + 1 /\ new[Len(q) + 1] = b
        /\ \A j \in 1..Len(q) : new[j] = q[j]
    BY <1>2, <2>1
  <2>4. ElsesTo(d, L, u, u) = {}
    BY <1>1 DEF ElsesTo
  <2>5. Remembers(d, L, s, b, u, u)
    BY <2>4 DEF Remembers
  <2>6. more \in [1..(Len(q) + 1) -> 1..u]
    BY <1>1, <1>2, <1>5
  <2>7. /\ \A j \in 1..Len(q) : j \in 1..(Len(q) + 1) /\ more[j] = ks[j] /\ j \in Int
        /\ Len(q) + 1 \in 1..(Len(q) + 1) /\ more[Len(q) + 1] = u
        /\ \A j \in 1..(Len(q) + 1) : j \in 1..Len(q) \/ j = Len(q) + 1
    BY <1>2
  <2> HIDE DEF b, more
  <2>8. ASSUME NEW j \in 1..Len(q)
        PROVE /\ Open(d, L, more[j], u) /\ L[more[j]] = L[u] - (Len(q) + 1 - j)
              /\ Remembers(d, L, s, new[j], more[j], u)
    <3>1. /\ Open(d, L, ks[j], u - 1) /\ L[ks[j]] = L[u - 1] - (Len(q) - j)
          /\ Remembers(d, L, s, q[j], ks[j], u - 1)
      BY <1>3
    <3>2. L[ks[j]] = L[u] - (Len(q) + 1 - j)
      <4>1. j \in Int /\ Len(q) \in Int /\ L[u - 1] \in Int
        BY <1>1, <1>2
      <4>2. L[u] = L[u - 1] + 1 /\ L[ks[j]] = L[u - 1] - (Len(q) - j)
        BY <2>2, <3>1
      <4> QED BY ONLY <4>1, <4>2
    <3>3. Remembers(d, L, s, q[j], ks[j], u)
      BY <1>6, <2>2, <3>1
    <3> QED BY <2>2, <2>3, <2>7, <3>1, <3>2, <3>3
  <2>9. L[u] = L[u] - (Len(q) + 1 - (Len(q) + 1))
    BY <1>1, <1>2
  <2>10. \A j \in 1..(Len(q) + 1) :
           /\ Open(d, L, more[j], u) /\ L[more[j]] = L[u] - (Len(q) + 1 - j)
           /\ Remembers(d, L, s, new[j], more[j], u)
    BY <2>2, <2>3, <2>5, <2>7, <2>8, <2>9
  <2>11. ASSUME NEW k \in 1..u, Open(d, L, k, u) PROVE \E j \in 1..(Len(q) + 1) : more[j] = k
    BY <1>3, <1>4, <2>2, <2>7, <2>11
  <2>12. PICK m \in Nat : m = Len(q) + 1
    BY <1>2
  <2>13. /\ Len(new) = m /\ more \in [1..m -> 1..u]
         /\ \A j \in 1..m : /\ Open(d, L, more[j], u) /\ L[more[j]] = L[u] - (m - j)
                            /\ Remembers(d, L, s, new[j], more[j], u)
         /\ \A k \in 1..u : Open(d, L, k, u) => \E j \in 1..m : more[j] = k
    <3> HIDE DEF new
    <3> QED BY <2>3, <2>6, <2>10, <2>11, <2>12
  <2> HIDE DEF new
  <2> QED BY ONLY <1>1, <2>13, SavedBy
<1>9. CASE d[u] = "else" /\ q # <<>>
  <2> DEFINE m == Len(q)
             top == q[m]
             b == IF top.seenElse THEN top ELSE [top EXCEPT !.seenElse = TRUE, !.beforeElse = s[u - 1]]
  <2>1. new = [q EXCEPT ![m] = b]
    BY <1>9 DEF Conditionals!UpdatePreprocessor, Conditionals!SetTop, Conditionals!Last
  <2>2. /\ \A k : Open(d, L, k, u) <=> Open(d, L, k, u - 1)
        /\ \A k : L[k] # L[u - 1] => ElsesTo(d, L, k, u) = ElsesTo(d, L, k, u - 1)
        /\ \A k : Open(d, L, k, u - 1) /\ L[k] = L[u - 1] =>
                          ElsesTo(d, L, k, u) = ElsesTo(d, L, k, u - 1) \cup {u}
        /\ L[u] = L[u - 1]
    BY <1>9, OpenNext, LevelSteps
  <2>3. m \in 1..m /\ top \in SavesOf(V) /\ Len(q) = m
    BY <1>2, <1>9
  <2>4. Len(new) = m /\ new[m] = b /\ \A j \in 1..m : j # m => new[j] = q[j]
    <3>1. b \in SavesOf(V)
      BY <1>1, <2>3 DEF SavesOf
    <3> HIDE DEF b, top, new, m
    <3> QED BY <2>1, <2>3, <3>1, ExceptSeq
  <2>5. /\ Open(d, L, ks[m], u - 1) /\ L[ks[m]] = L[u - 1] - (m - m)
        /\ Remembers(d, L, s, top, ks[m], u - 1)
    BY <1>3, <2>3
  <2>6. L[ks[m]] = L[u - 1] /\ ElsesTo(d, L, ks[m], u) = ElsesTo(d, L, ks[m], u - 1) \cup {u}
    <3>1. L[ks[m]] = L[u - 1]
      BY <1>1, <2>3, <2>5
    <3> QED BY <2>2, <2>5, <3>1
  <2>7. Remembers(d, L, s, b, ks[m], u)
    <3>1. CASE top.seenElse
      <4>1. PICK f \in ElsesTo(d, L, ks[m], u - 1) :
              (\A e \in ElsesTo(d, L, ks[m], u - 1) : f <= e) /\ top.beforeElse = s[f - 1]
        BY <2>5, <3>1 DEF Remembers
      <4>2. f <= u
        BY <1>1 DEF ElsesTo
      <4>3. b = top
        BY <3>1
      <4> QED BY <2>5, <2>6, <3>1, <4>1, <4>2, <4>3 DEF Remembers
    <3>2. CASE ~ top.seenElse
      <4>1. ElsesTo(d, L, ks[m], u) = {u}
        BY <2>5, <2>6, <3>2 DEF Remembers
      <4>2. b.beforeIf = top.beforeIf /\ b.seenElse = TRUE /\ b.beforeElse = s[u - 1]
        BY <2>3, <3>2 DEF SavesOf
      <4>3. b.beforeIf = s[ks[m] - 1]
        BY <2>5, <4>2 DEF Remembers
      <4> HIDE DEF b
      <4>4. u <= u
        BY <1>1
      <4> QED BY <4>1, <4>2, <4>3, <4>4 DEF Remembers
    <3> QED BY <3>1, <3>2
  <2> HIDE DEF b
  <2>8. ASSUME NEW j \in 1..m
        PROVE /\ Open(d, L, ks[j], u) /\ L[ks[j]] = L[u] - (m - j)
              /\ Remembers(d, L, s, new[j], ks[j], u)
    <3>1. /\ Open(d, L, ks[j], u - 1) /\ L[ks[j]] = L[u - 1] - (m - j)
          /\ Remembers(d, L, s, q[j], ks[j], u - 1)
      BY <1>3
    <3>2. CASE j = m
      BY <2>2, <2>4, <2>7, <3>1, <3>2
    <3>3. CASE j # m
      <4>1. L[ks[j]] # L[u - 1]
        BY <1>1, <1>2, <3>1, <3>3
      <4>2. Remembers(d, L, s, q[j], ks[j], u)
        BY <1>6, <2>2, <3>1, <4>1
      <4> QED BY <2>2, <2>4, <3>1, <3>3, <4>2
    <3> QED BY <3>2, <3>3
  <2>9. ASSUME NEW k \in 1..u, Open(d, L, k, u) PROVE \E j \in 1..m : ks[j] = k
    BY <1>3, <1>4, <2>2, <2>9
  <2>10. m \in Nat /\ ks \in [1..m -> 1..u]
    BY <1>2, <1>5
  <2> HIDE DEF new, m
  <2> QED BY ONLY <1>1, <2>4, <2>8, <2>9, <2>10, SavedBy
<1>10. CASE d[u] = "endif" /\ q # <<>>
  <2> DEFINE m == Len(q) - 1
             fewer == [j \in 1..m |-> ks[j]]
  <2>1. new = SubSeq(q, 1, m)
    BY <1>10 DEF Conditionals!UpdatePreprocessor, Conditionals!Front
  <2>2. /\ \A k : Open(d, L, k, u) <=> Open(d, L, k, u - 1) /\ L[k] < L[u - 1]
        /\ \A k : ElsesTo(d, L, k, u) = ElsesTo(d, L, k, u - 1)
        /\ L[u] = L[u - 1] - 1
    BY <1>10, OpenNext, LevelSteps
  <2>3. m \in Nat /\ Len(q) = m + 1
    BY <1>2, <1>10
  <2>4. Len(new) = m /\ \A j \in 1..m : new[j] = q[j]
    BY <2>1, <2>3
  <2>5. fewer \in [1..m -> 1..u] /\ \A j \in 1..m : fewer[j] = ks[j] /\ j \in 1..Len(q) /\ j \in Int
    BY <1>5, <2>3
  <2> HIDE DEF fewer
  <2>6. ASSUME NEW j \in 1..m
        PROVE /\ Open(d, L, fewer[j], u) /\ L[fewer[j]] = L[u] - (m - j)
              /\ Remembers(d, L, s, new[j], fewer[j], u)
    <3>1. /\ Open(d, L, ks[j], u - 1) /\ L[ks[j]] = L[u - 1] - (Len(q) - j)
          /\ Remembers(d, L, s, q[j], ks[j], u - 1)
      BY <1>3, <2>5
    <3>2. L[ks[j]] = L[u] - (m - j) /\ L[ks[j]] < L[u - 1]
      BY <1>1, <2>2, <2>3, <2>5, <3>1
    <3>3. Remembers(d, L, s, q[j], ks[j], u)
      BY <1>6, <2>2, <3>1
    <3> QED BY <2>2, <2>4, <2>5, <3>1, <3>2, <3>3
  <2>7. ASSUME NEW k \in 1..u, Open(d, L, k, u) PROVE \E j \in 1..m : fewer[j] = k
    <3>1. Open(d, L, k, u - 1) /\ L[k] < L[u - 1]
      BY <2>2, <2>7
    <3>2. PICK j \in 1..Len(q) : ks[j] = k
      BY <1>3, <1>4, <3>1
    <3>3. L[k] = L[u - 1] - (Len(q) - j)
      BY <1>3, <3>2
    <3>4. j \in 1..m
      BY <1>1, <2>3, <3>1, <3>3
    <3> QED BY <2>5, <3>2, <3>4
  <2> HIDE DEF new, m
  <2> QED BY <2>4, <2>5, <2>6, <2>7 DEF SavedOpen
<1>11. d[u] \in {"none", "if", "else", "endif"}
  BY LevelSteps
<1> QED BY <1>7, <1>8, <1>9, <1>10, <1>11

-------------------------------------------------------------------------------
\* s and p are the stacks and what is saved of them, line after line; r are the
\* stacks when only the lines in C are read.
Replays(n, d, s, p, step) ==
  /\ s[0] = <<>> /\ p[0] = <<>>
  /\ \A i \in 1..n : LET pre == Conditionals!UpdatePreprocessor(s[i - 1], p[i - 1], d[i]) IN
                     s[i] = step[<<pre.stack, i>>] /\ p[i] = pre.pp

RunsOver(n, r, C, step) ==
  r[0] = <<>> /\ \A i \in 1..n : r[i] = IF i \in C THEN step[<<r[i - 1], i>>] ELSE r[i - 1]

AgreeTo(m, C, D) == \A i \in 1..m : i \in C <=> i \in D
NoneIn(a, b, C) == \A i \in (a + 1)..b : i \notin C

LEMMA RunExists ==
  ASSUME NEW n, n \in Nat, NEW V, <<>> \in V, NEW step \in [V \X (1..n) -> V], NEW C
  PROVE  \E r \in [0..n -> V] : RunsOver(n, r, C, step)
<1> DEFINE some == [x \in V \X (1..n) |-> IF x[2] \in C THEN step[x] ELSE x[1]]
<1>1. some \in [V \X (1..n) -> V]
  OBVIOUS
<1>2. \A v \in V, i \in 1..n : some[<<v, i>>] = IF i \in C THEN step[<<v, i>>] ELSE v
  OBVIOUS
<1> HIDE DEF some
<1>3. PICK r \in [0..n -> V] : GoesWith(r, <<>>, n, some)
  BY <1>1, StepsExist
<1>4. \A i \in 1..n : r[i - 1] \in V
  BY <1>3
<1> QED BY <1>2, <1>3, <1>4 DEF GoesWith, RunsOver

LEMMA RunsAgree ==
  ASSUME NEW n, n \in Nat, NEW step, NEW C, NEW D, NEW r, NEW z, RunsOver(n, r, C, step),
         RunsOver(n, z, D, step), NEW m, m \in 0..n, AgreeTo(m, C, D)
  PROVE  r[m] = z[m]
<1> DEFINE S == {k \in 0..m : r[k] = z[k]}
<1>1. 0 \in S
  BY DEF RunsOver
<1>2. ASSUME NEW k \in 1..m, k - 1 \in S PROVE k \in S
  <2>1. k \in 1..n /\ r[k - 1] = z[k - 1]
    BY <1>2
  <2>2. /\ r[k] = IF k \in C THEN step[<<r[k - 1], k>>] ELSE r[k - 1]
        /\ z[k] = IF k \in D THEN step[<<z[k - 1], k>>] ELSE z[k - 1]
    BY <2>1 DEF RunsOver
  <2> QED BY <2>1, <2>2 DEF AgreeTo
<1>3. \A k \in 0..m : k \in S
  <2> HIDE DEF S
  <2> QED BY <1>1, <1>2, Inductively
<1> QED BY <1>3

LEMMA RunsSkip ==
  ASSUME NEW n, n \in Nat, NEW step, NEW C, NEW r, RunsOver(n, r, C, step),
         NEW a, a \in 0..n, NEW b, b \in a..n, NoneIn(a, b, C)
  PROVE  r[b] = r[a]
<1> DEFINE S == {k \in 0..b : k >= a => r[k] = r[a]}
<1>1. 0 \in S
  OBVIOUS
<1>2. ASSUME NEW k \in 1..b, k - 1 \in S PROVE k \in S
  <2>1. k \in 1..n
    OBVIOUS
  <2>2. r[k] = IF k \in C THEN step[<<r[k - 1], k>>] ELSE r[k - 1]
    BY <2>1 DEF RunsOver
  <2> QED BY <1>2, <2>1, <2>2 DEF NoneIn
<1>3. \A k \in 0..b : k \in S
  <2>1. b \in Nat
    OBVIOUS
  <2> HIDE DEF S
  <2> QED BY <1>1, <1>2, <2>1, Inductively
<1> QED BY <1>3

LEMMA SavedAlways ==
  ASSUME NEW n, NEW d, NEW L, Depths(d, L, n), NEW V, <<>> \in V,
         NEW s \in [0..n -> V], NEW p \in [0..n -> Seq(SavesOf(V))], NEW step,
         Replays(n, d, s, p, step)
  PROVE  \A t \in 0..n : SavedOpen(d, L, s, p[t], t)
<1>0. n \in Nat
  BY DEF Depths
<1> DEFINE S == {t \in 0..n : SavedOpen(d, L, s, p[t], t)}
<1>1. 0 \in S
  <2>1. 1..Len(p[0]) = {} /\ 1..0 = {}
    BY DEF Replays
  <2>2. [x \in {} |-> 0] \in [{} -> {}]
    OBVIOUS
  <2>3. SavedOpen(d, L, s, p[0], 0)
    BY <2>1, <2>2 DEF SavedOpen
  <2> QED BY <1>0, <2>3
<1>2. ASSUME NEW u \in 1..n, u - 1 \in S PROVE u \in S
  <2>1. u - 1 \in 0..n /\ SavedOpen(d, L, s, p[u - 1], u - 1) /\ u \in 0..n
    BY <1>0, <1>2
  <2>2. PICK q \in Seq(SavesOf(V)) : q = p[u - 1]
    BY <2>1
  <2>3. SavedOpen(d, L, s, Conditionals!UpdatePreprocessor(s[u - 1], q, d[u]).pp, u)
    BY <2>1, <2>2, SavedNext
  <2>4. p[u] = Conditionals!UpdatePreprocessor(s[u - 1], q, d[u]).pp
    BY <2>2 DEF Replays
  <2> QED BY <2>1, <2>3, <2>4
<1> HIDE DEF S
<1>3. \A t \in 0..n : t \in S
  BY <1>0, <1>1, <1>2, Inductively
<1> QED BY <1>3 DEF S

\* The stack v that line u leaves, before its blocks, was there before the #if,
\* before the first #else, or before line u.
ComesFrom(d, L, s, u, v) ==
  \/ d[u] = "else" /\ \E k : Innermost(d, L, k, u - 1) /\ v = s[k - 1]
  \/ /\ d[u] = "endif"
     /\ \E k : /\ Innermost(d, L, k, u - 1)
               /\ \E f \in ElsesTo(d, L, k, u - 1) :
                    (\A e \in ElsesTo(d, L, k, u - 1) : f <= e) /\ v = s[f - 1]
  \/ /\ v = s[u - 1]
     /\ \/ d[u] \in {"none", "if"}
        \/ \A j \in 1..(u - 1) : ~ Open(d, L, j, u - 1)
        \/ /\ d[u] = "endif"
           /\ \E k : Innermost(d, L, k, u - 1) /\ ElsesTo(d, L, k, u - 1) = {}

LEMMA StackFrom ==
  ASSUME NEW n, NEW d, NEW L, Depths(d, L, n), NEW u \in 1..n, NEW V,
         NEW s, s \in [0..n -> V], NEW q, q \in Seq(SavesOf(V)), SavedOpen(d, L, s, q, u - 1)
  PROVE  ComesFrom(d, L, s, u, Conditionals!UpdatePreprocessor(s[u - 1], q, d[u]).stack)
<1>1. u - 1 \in 0..n /\ d[u] \in {"none", "if", "else", "endif"}
  <2>1. n \in Nat
    BY DEF Depths
  <2> QED BY <2>1, LevelSteps
<1>2. /\ q = <<>> => \A k \in 1..(u - 1) : ~ Open(d, L, k, u - 1)
      /\ q # <<>> => \E k : Innermost(d, L, k, u - 1) /\ Remembers(d, L, s, q[Len(q)], k, u - 1)
  BY <1>1, SavedLast
<1> DEFINE now == Conditionals!UpdatePreprocessor(s[u - 1], q, d[u]).stack
<1>3. CASE d[u] \in {"none", "if"} \/ q = <<>>
  <2>1. now = s[u - 1]
    BY <1>1, <1>3 DEF Conditionals!UpdatePreprocessor
  <2> HIDE DEF now
  <2> QED BY <1>2, <1>3, <2>1 DEF now, ComesFrom
<1>4. CASE d[u] \in {"else", "endif"} /\ q # <<>>
  <2>1. PICK k : Innermost(d, L, k, u - 1) /\ Remembers(d, L, s, q[Len(q)], k, u - 1)
    BY <1>2, <1>4
  <2>2. CASE d[u] = "else"
    <3>1. now = s[k - 1]
      BY <1>4, <2>1, <2>2 DEF Conditionals!UpdatePreprocessor, Conditionals!Last, Remembers
    <3> HIDE DEF now
    <3> QED BY <2>1, <2>2, <3>1 DEF now, ComesFrom
  <2>3. CASE d[u] = "endif"
    <3>1. now = IF q[Len(q)].seenElse THEN q[Len(q)].beforeElse ELSE s[u - 1]
      BY <1>4, <2>3 DEF Conditionals!UpdatePreprocessor, Conditionals!Last
    <3> HIDE DEF now
    <3>2. CASE q[Len(q)].seenElse
      <4>1. PICK f \in ElsesTo(d, L, k, u - 1) :
              (\A e \in ElsesTo(d, L, k, u - 1) : f <= e) /\ now = s[f - 1]
        BY <2>1, <3>1, <3>2 DEF Remembers
      <4> QED BY <2>1, <2>3, <4>1 DEF now, ComesFrom
    <3>3. CASE ~ q[Len(q)].seenElse
      <4>1. now = s[u - 1] /\ ElsesTo(d, L, k, u - 1) = {}
        BY <2>1, <3>1, <3>3 DEF Remembers
      <4> QED BY <2>1, <2>3, <4>1 DEF now, ComesFrom
    <3> QED BY <3>2, <3>3
  <2> QED BY <1>4, <2>2, <2>3
<1> QED BY <1>1, <1>3, <1>4

\* The lines that count in a file of n lines.
Counting(d, L, n) == {i \in 1..n : CountsTo(d, L, i, n)}

\* An #else takes back all that its #if does to the stack as a line of its own.
Absorbs(n, d, V, step) ==
  \A v \in V, i \in 1..n, j \in 1..n :
    d[i] = "if" /\ d[j] = "else" => step[<<step[<<v, i>>], j>>] = step[<<v, j>>]

\* The lines of a file, read as Update does and as only those that count.
Followed(n, d, L, V, step, s, p, r) ==
  /\ Depths(d, L, n) /\ <<>> \in V /\ step \in [V \X (1..n) -> V] /\ Absorbs(n, d, V, step)
  /\ s \in [0..n -> V] /\ p \in [0..n -> Seq(SavesOf(V))] /\ Replays(n, d, s, p, step)
  /\ r \in [0..n -> V] /\ RunsOver(n, r, Counting(d, L, n), step)

\* The stack after the lines is that of the lines that count.
LEMMA ReplayCounts ==
  ASSUME NEW n, NEW d, NEW L, NEW V, NEW step, NEW s, NEW p, NEW r,
         Followed(n, d, L, V, step, s, p, r)
  PROVE  r[n] = s[n]
<1> USE DEF Followed
<1> DEFINE CountedBy(t) == {i \in 1..t : CountsTo(d, L, i, t)}
           Same(t) == \A z \in [0..n -> V] : RunsOver(n, z, CountedBy(t), step) => z[t] = s[t]
           S == {t \in 0..n : \A u \in 0..t : Same(u)}
<1>0. n \in Nat
  BY DEF Depths
<1>1. 0 \in S
  <2>1. Same(0)
    BY DEF RunsOver, Replays
  <2> HIDE DEF Same
  <2>2. \A u \in 0..0 : u = 0
    OBVIOUS
  <2> QED BY <1>0, <2>1, <2>2
<1>2. ASSUME NEW u \in 1..n, u - 1 \in S PROVE u \in S
  <2>1. \A t \in 0..(u - 1) : Same(t)
    BY <1>2
  <2>2. Same(u)
    <3>1. SUFFICES ASSUME NEW z, z \in [0..n -> V], RunsOver(n, z, CountedBy(u), step) PROVE z[u] = s[u]
      OBVIOUS
    <3>2. PICK q : q \in Seq(SavesOf(V)) /\ q = p[u - 1]
      BY <1>0
    <3>3. SavedOpen(d, L, s, q, u - 1)
      <4>1. u - 1 \in 0..n
        BY <1>0
      <4> QED BY <3>2, <4>1, SavedAlways
    <3> DEFINE now == Conditionals!UpdatePreprocessor(s[u - 1], q, d[u]).stack
    <3>4. s[u] = step[<<now, u>>]
      BY <3>2 DEF Replays
    <3>5. z[u] = step[<<z[u - 1], u>>]
      <4>1. u \in CountedBy(u)
        BY <1>0, CountsItself
      <4> HIDE DEF CountedBy
      <4> QED BY <3>1, <4>1 DEF RunsOver
    <3>6. ASSUME NEW t \in 0..(u - 1), \A i \in 1..t : CountsTo(d, L, i, u) <=> CountsTo(d, L, i, t)
          PROVE z[t] = s[t]
      <4>1. PICK w : w \in [0..n -> V] /\ RunsOver(n, w, CountedBy(t), step)
        <5> HIDE DEF CountedBy
        <5> QED BY <1>0, RunExists
      <4>2. w[t] = s[t]
        <5> HIDE DEF CountedBy
        <5> QED BY <2>1, <4>1
      <4>3. \A i \in 1..t : i \in CountedBy(u) <=> i \in CountedBy(t)
        BY <3>6
      <4>4. z[t] = w[t]
        <5>1. t \in 0..n /\ AgreeTo(t, CountedBy(u), CountedBy(t))
          BY <1>0, <4>3 DEF AgreeTo
        <5>2. RunsOver(n, z, CountedBy(u), step) /\ RunsOver(n, w, CountedBy(t), step)
          BY <3>1, <4>1
        <5> HIDE DEF CountedBy
        <5> QED BY ONLY <1>0, <5>1, <5>2, RunsAgree
      <4> QED BY <4>2, <4>4
    <3>7. ASSUME NEW a \in 0..(u - 1), \A i \in (a + 1)..(u - 1) : ~ CountsTo(d, L, i, u)
          PROVE z[u - 1] = z[a]
      <4>1. PICK b : b = u - 1
        OBVIOUS
      <4>2. NoneIn(a, b, CountedBy(u))
        BY <3>7, <4>1 DEF NoneIn
      <4>3. a \in 0..n /\ b \in a..n
        BY <1>0, <4>1
      <4>4. RunsOver(n, z, CountedBy(u), step)
        BY <3>1
      <4>5. z[b] = z[a]
        <5> HIDE DEF CountedBy
        <5> QED BY ONLY <1>0, <4>2, <4>3, <4>4, RunsSkip
      <4> QED BY <4>1, <4>5
    <3> HIDE DEF CountedBy, Same, S
    <3>8. ComesFrom(d, L, s, u, now)
      BY <3>2, <3>3, StackFrom
    <3> HIDE DEF now
    <3>9. ASSUME d[u] = "else", NEW k, Innermost(d, L, k, u - 1), now = s[k - 1] PROVE z[u] = s[u]
      <4>1. /\ k \in 1..(u - 1)
            /\ \A i \in 1..(k - 1) : CountsTo(d, L, i, u) <=> CountsTo(d, L, i, k - 1)
            /\ CountsTo(d, L, k, u)
            /\ \A i \in (k + 1)..(u - 1) : ~ CountsTo(d, L, i, u)
        BY <3>9, CountsAtElse
      <4>2. k \in 1..n /\ k - 1 \in 0..(u - 1) /\ k \in 0..(u - 1) /\ k - 1 \in 0..n
        BY <1>0, <4>1
      <4>3. z[k - 1] = s[k - 1] /\ z[u - 1] = z[k]
        BY <3>6, <3>7, <4>1, <4>2
      <4>4. k \in CountedBy(u)
        BY <4>1 DEF CountedBy
      <4>5. z[k] = step[<<z[k - 1], k>>]
        BY <3>1, <4>2, <4>4 DEF RunsOver
      <4>6. d[k] = "if" /\ s[k - 1] \in V
        BY <3>9, <4>2 DEF Innermost, Open
      <4>7. step[<<step[<<s[k - 1], k>>], u>>] = step[<<s[k - 1], u>>]
        BY <3>9, <4>2, <4>6 DEF Absorbs
      <4> QED BY <3>4, <3>5, <3>9, <4>3, <4>5, <4>7
    <3>10. ASSUME d[u] = "endif", NEW k, Innermost(d, L, k, u - 1), NEW f \in ElsesTo(d, L, k, u - 1),
                  \A e \in ElsesTo(d, L, k, u - 1) : f <= e, now = s[f - 1]
           PROVE z[u] = s[u]
      <4>1. /\ f \in 1..(u - 1)
            /\ \A i \in 1..(f - 1) : CountsTo(d, L, i, u) <=> CountsTo(d, L, i, f - 1)
            /\ \A i \in f..(u - 1) : ~ CountsTo(d, L, i, u)
        BY <3>10, CountsAtEndif
      <4>2. f - 1 \in 0..(u - 1) /\ (f - 1) + 1 = f
        BY <1>0, <4>1
      <4>3. z[f - 1] = s[f - 1] /\ z[u - 1] = z[f - 1]
        BY <3>6, <3>7, <4>1, <4>2
      <4> QED BY <3>4, <3>5, <3>10, <4>3
    <3>11. ASSUME now = s[u - 1],
                  \/ d[u] \in {"none", "if"}
                  \/ \A j \in 1..(u - 1) : ~ Open(d, L, j, u - 1)
                  \/ /\ d[u] = "endif"
                     /\ \E k : Innermost(d, L, k, u - 1) /\ ElsesTo(d, L, k, u - 1) = {}
           PROVE z[u] = s[u]
      <4>1. \A i \in 1..(u - 1) : CountsTo(d, L, i, u) <=> CountsTo(d, L, i, u - 1)
        BY <3>11, CountsKept
      <4>0. u - 1 \in 0..(u - 1)
        BY <1>0
      <4>2. z[u - 1] = s[u - 1]
        BY <3>6, <4>0, <4>1
      <4> QED BY <3>4, <3>5, <3>11, <4>2
    <3> QED BY <3>8, <3>9, <3>10, <3>11 DEF ComesFrom
  <2> HIDE DEF Same
  <2>3. \A t \in 0..u : t \in 0..(u - 1) \/ t = u
    BY <1>0
  <2> QED BY <1>0, <2>1, <2>2, <2>3
<1>3. n \in S
  <2>1. n \in 0..n
    BY <1>0
  <2> HIDE DEF S, CountedBy, Same
  <2>2. \A k \in 0..n : k \in S
    BY <1>0, <1>1, <1>2, Inductively
  <2> QED BY <2>1, <2>2
<1>4. Same(n)
  <2> HIDE DEF Same
  <2> QED BY <1>0, <1>3
<1> QED BY <1>4 DEF Counting

-------------------------------------------------------------------------------
\* Blocks on the stack: an asm block is left with its last parenthesis.
Heads == {"class", "namespace", "block", "extern"}
Blocks ==
  {b \in [kind : Heads, line : Nat, seen : BOOLEAN, open : Nat \X Nat, parens : Int,
          asm : {"no", "inside", "end", "block"}] : b.asm = "inside" => b.parens # 0}
Marked ==
  [stack : Seq(Blocks), closed : SUBSET ((Nat \X Nat) \X (Nat \X Nat)), stray : BOOLEAN]

\* Nothing but a stack.
Bare(s) == [stack |-> s, closed |-> {}, stray |-> FALSE]

LEMMA BareMarked == ASSUME NEW s \in Seq(Blocks) PROVE Bare(s) \in Marked /\ Bare(s).stack = s
BY DEF Bare, Marked

LEMMA OpenedTyped ==
  ASSUME NEW b \in Blocks, NEW place \in Nat \X Nat PROVE Conditionals!Opened(b, place) \in Blocks
BY DEF Conditionals!Opened, Blocks

LEMMA BlockTyped ==
  ASSUME NEW kind \in Heads, NEW n \in Nat, NEW place \in Nat \X Nat
  PROVE  /\ Conditionals!Block(kind, n) \in Blocks
         /\ Conditionals!Opened(Conditionals!Block(kind, n), place) \in Blocks
         /\ [Conditionals!Opened(Conditionals!Block(kind, n), place) EXCEPT !.asm = "block"] \in Blocks
<1>1. <<0, 0>> \in Nat \X Nat
  OBVIOUS
<1>2. Conditionals!Block(kind, n) \in Blocks
  BY <1>1 DEF Conditionals!Block, Blocks
<1>3. Conditionals!Opened(Conditionals!Block(kind, n), place) \in Blocks
  BY <1>2, OpenedTyped
<1>4. \A b \in Blocks : [b EXCEPT !.asm = "block"] \in Blocks
  BY DEF Blocks
<1> QED BY <1>2, <1>3, <1>4

LEMMA TopOf ==
  ASSUME NEW s \in Seq(Blocks)
  PROVE  /\ s = <<>> => Conditionals!SeenOpenBrace(s)
         /\ s # <<>> => /\ Len(s) \in 1..Len(s) /\ Conditionals!Last(s) = s[Len(s)]
                        /\ s[Len(s)] \in Blocks /\ Conditionals!Front(s) \in Seq(Blocks)
                        /\ (Conditionals!SeenOpenBrace(s) <=> s[Len(s)].seen)
                        /\ \A b \in Blocks : Conditionals!SetTop(s, b) \in Seq(Blocks)
<1>1. ASSUME s # <<>> PROVE Len(s) \in 1..Len(s) /\ s[Len(s)] \in Blocks
  BY <1>1
<1>2. ASSUME s # <<>> PROVE Conditionals!Front(s) \in Seq(Blocks)
  BY <1>1, <1>2 DEF Conditionals!Front
<1>3. ASSUME s # <<>>, NEW b \in Blocks PROVE Conditionals!SetTop(s, b) \in Seq(Blocks)
  <2>1. Len(s) \in 1..Len(s)
    BY <1>1, <1>3
  <2> QED BY <2>1, ExceptSeq DEF Conditionals!SetTop
<1> QED BY <1>1, <1>2, <1>3 DEF Conditionals!SeenOpenBrace, Conditionals!Last

LEMMA PlaceTyped ==
  ASSUME NEW T, NEW tokens \in Seq(T), NEW i, i \in 1..Len(tokens), NEW heads \in Seq(BOOLEAN),
         NEW n \in Nat
  PROVE  tokens[i] \in T /\ <<n, Len(heads) + i>> \in Nat \X Nat
<1>1. Len(tokens) \in Nat /\ Len(heads) \in Nat /\ i \in Nat
  BY LenProperties
<1>2. tokens[i] \in T
  BY ElementOfSeq
<1> QED BY <1>1, <1>2

\* A brace, semicolon or closing parenthesis does the same whatever was closed before.
LEMMA TokenTaken ==
  ASSUME NEW m \in Marked, NEW l \in Conditionals!LinesSeen, NEW n \in Nat,
         NEW i, i \in 1..Len(l.tokens)
  PROVE  /\ Conditionals!TakeToken(m, l, n, i) \in Marked
         /\ Conditionals!TakeToken(m, l, n, i).stack =
              Conditionals!TakeToken(Bare(m.stack), l, n, i).stack
<1> DEFINE s == m.stack
           place == <<n, Len(l.namespaces) + i>>
<1>1. /\ s \in Seq(Blocks) /\ m.closed \in SUBSET ((Nat \X Nat) \X (Nat \X Nat))
      /\ m.stray \in BOOLEAN
  BY DEF Marked
<1>2. l.tokens \in Seq(Conditionals!Tokens) /\ l.namespaces \in Seq(BOOLEAN)
  BY DEF Conditionals!LinesSeen
<1>3. l.tokens[i] \in Conditionals!Tokens /\ place \in Nat \X Nat
  BY <1>2, PlaceTyped
<1>4. Bare(s) \in Marked /\ Bare(s).stack = s
  BY <1>1, BareMarked
<1>5. \A x, y \in Marked, v \in Seq(Blocks) :
        [x EXCEPT !.stack = v] \in Marked /\ [x EXCEPT !.stack = v].stack = v
  BY DEF Marked
<1>6. CASE l.tokens[i] = "{"
  <2>1. CASE ~ Conditionals!SeenOpenBrace(s)
    <3> DEFINE v == Conditionals!SetTop(s, Conditionals!Opened(Conditionals!Last(s), place))
    <3>1. v \in Seq(Blocks)
      BY <1>1, <1>3, <2>1, TopOf, OpenedTyped
    <3>2. /\ Conditionals!TakeToken(m, l, n, i) = [m EXCEPT !.stack = v]
          /\ Conditionals!TakeToken(Bare(s), l, n, i) = [Bare(s) EXCEPT !.stack = v]
      BY <1>4, <1>6, <2>1 DEF Conditionals!TakeToken
    <3> HIDE DEF v, s
    <3> QED BY <1>4, <1>5, <3>1, <3>2 DEF s
  <2>2. CASE Conditionals!SeenOpenBrace(s)
    <3> DEFINE kind == IF i = 1 /\ l.extern THEN "extern" ELSE "block"
               new == Conditionals!Opened(Conditionals!Block(kind, n), place)
               b == IF i = 1 /\ l.asm /\ kind = "block" THEN [new EXCEPT !.asm = "block"] ELSE new
               v == Append(s, b)
    <3>1. v \in Seq(Blocks)
      <4>1. b \in Blocks
        <5>1. kind \in Heads
          BY Zenon DEF Heads
        <5> HIDE DEF kind, place
        <5> QED BY <1>3, <5>1, BlockTyped
      <4> HIDE DEF b
      <4> QED BY <1>1, <4>1
    <3>2. /\ Conditionals!TakeToken(m, l, n, i) = [m EXCEPT !.stack = v]
          /\ Conditionals!TakeToken(Bare(s), l, n, i) = [Bare(s) EXCEPT !.stack = v]
      BY <1>4, <1>6, <2>2 DEF Conditionals!TakeToken
    <3> HIDE DEF v, s
    <3> QED BY <1>4, <1>5, <3>1, <3>2 DEF s
  <2> QED BY <2>1, <2>2
<1>7. CASE l.tokens[i] \in {";", ")"}
  <2> DEFINE v == IF Conditionals!SeenOpenBrace(s) THEN s ELSE Conditionals!Front(s)
  <2>1. v \in Seq(Blocks)
    BY <1>1, TopOf
  <2>2. CASE Conditionals!SeenOpenBrace(s)
    <3>1. Conditionals!TakeToken(m, l, n, i) = m /\ Conditionals!TakeToken(Bare(s), l, n, i) = Bare(s)
      BY <1>4, <1>7, <2>2 DEF Conditionals!TakeToken
    <3> QED BY <1>4, <3>1
  <2>3. CASE ~ Conditionals!SeenOpenBrace(s)
    <3>1. /\ Conditionals!TakeToken(m, l, n, i) = [m EXCEPT !.stack = v]
          /\ Conditionals!TakeToken(Bare(s), l, n, i) = [Bare(s) EXCEPT !.stack = v]
      BY <1>4, <1>7, <2>3 DEF Conditionals!TakeToken
    <3> HIDE DEF v, s
    <3> QED BY <1>4, <1>5, <2>1, <3>1 DEF s
  <2> QED BY <2>2, <2>3
<1>8. CASE l.tokens[i] = "}"
  <2>1. CASE s = <<>>
    <3>1. Conditionals!TakeToken(m, l, n, i) = m /\ Conditionals!TakeToken(Bare(s), l, n, i) = Bare(s)
      BY <1>4, <1>8, <2>1 DEF Conditionals!TakeToken
    <3> QED BY <1>4, <3>1
  <2>2. CASE s # <<>>
    <3> DEFINE v == Conditionals!Front(s)
               top == Conditionals!Last(s)
               more(x) == [x EXCEPT !.stack = v, !.stray = x.stray \/ ~top.seen,
                                    !.closed = x.closed \cup {<<top.open, place>>}]
    <3>1. v \in Seq(Blocks) /\ top \in Blocks
      BY <1>1, <2>2, TopOf
    <3>2. top.open \in Nat \X Nat /\ top.seen \in BOOLEAN
      BY <3>1 DEF Blocks
    <3>3. /\ Conditionals!TakeToken(m, l, n, i) = more(m)
          /\ Conditionals!TakeToken(Bare(s), l, n, i) = more(Bare(s))
      BY <1>4, <1>8, <2>2 DEF Conditionals!TakeToken
    <3> HIDE DEF v, top, s, place
    <3>4. <<top.open, place>> \in (Nat \X Nat) \X (Nat \X Nat)
      BY <1>3, <3>2
    <3>5. \A x \in Marked : more(x) \in Marked /\ more(x).stack = v
      BY <3>1, <3>2, <3>4 DEF Marked
    <3> HIDE DEF more
    <3> QED BY <1>4, <3>3, <3>5 DEF s
  <2> QED BY <2>1, <2>2
<1> QED BY <1>3, <1>6, <1>7, <1>8 DEF Conditionals!Tokens

\* The stack once the heads of the line are on it; and after the whole line.
HeadsOf(s, l, n) ==
  Conditionals!PushClass(Conditionals!PushNamespaces(Conditionals!CountParentheses(s, l), l, n), l, n)
StackOf(s, l, n) == Conditionals!UpdateBlocks(Bare(s), l, n).stack

LEMMA ParenthesesCounted ==
  ASSUME NEW s \in Seq(Blocks), NEW l \in Conditionals!LinesSeen
  PROVE  Conditionals!CountParentheses(s, l) \in Seq(Blocks)
<1>1. CASE s = <<>>
  BY <1>1 DEF Conditionals!CountParentheses
<1>2. CASE s # <<>>
  <2> DEFINE top == Conditionals!Last(s)
             total == top.parens + l.parens
             asm == IF top.asm \in {"no", "end"}
                    THEN IF l.parens # 0 /\ total = 1 /\ l.asm THEN "inside" ELSE "no"
                    ELSE IF top.asm = "inside" /\ total = 0 THEN "end" ELSE top.asm
             b == [top EXCEPT !.parens = total, !.asm = asm]
  <2>1. top \in Blocks /\ \A x \in Blocks : Conditionals!SetTop(s, x) \in Seq(Blocks)
    BY <1>2, TopOf
  <2>2. top.asm \in {"no", "inside", "end", "block"} /\ total \in Int
    <3>1. top.asm \in {"no", "inside", "end", "block"} /\ top.parens \in Int
      BY <2>1 DEF Blocks
    <3>2. l.parens \in Int
      BY DEF Conditionals!LinesSeen
    <3> QED BY <3>1, <3>2
  <2>3. asm \in {"no", "inside", "end", "block"} /\ (asm = "inside" => total # 0)
    <3> HIDE DEF top, total
    <3> QED BY <2>2
  <2>4. b \in Blocks
    <3> HIDE DEF top, total, asm
    <3> QED BY <2>1, <2>2, <2>3 DEF Blocks
  <2>5. Conditionals!CountParentheses(s, l) = Conditionals!SetTop(s, b)
    BY <1>2 DEF Conditionals!CountParentheses
  <2> HIDE DEF b
  <2> QED BY <2>1, <2>4, <2>5
<1> QED BY <1>1, <1>2

LEMMA HeadsTyped ==
  ASSUME NEW s \in Seq(Blocks), NEW l \in Conditionals!LinesSeen, NEW n \in Nat
  PROVE  HeadsOf(s, l, n) \in Seq(Blocks)
<1>1. PICK c \in Seq(Blocks) : c = Conditionals!CountParentheses(s, l)
  BY ParenthesesCounted
<1>2. \A k \in {"class", "namespace"} : Conditionals!Block(k, n) \in Blocks
  <2>1. <<0, 0>> \in Nat \X Nat
    OBVIOUS
  <2>2. \A k \in Heads : Conditionals!Block(k, n) \in Blocks
    BY <2>1, BlockTyped
  <2> QED BY <2>2 DEF Heads
<1>3. ASSUME NEW i \in Nat PROVE Conditionals!Opened(Conditionals!Block("namespace", n), <<n, i>>) \in Blocks
  BY BlockTyped DEF Heads
<1>4. PICK q : q = Conditionals!PushNamespaces(c, l, n)
  OBVIOUS
<1>5. q \in Seq(Blocks)
  <2> DEFINE of(i) == IF l.namespaces[i] THEN Conditionals!Opened(Conditionals!Block("namespace", n), <<n, i>>)
                      ELSE Conditionals!Block("namespace", n)
             more == [i \in DOMAIN l.namespaces |-> of(i)]
  <2>1. l.namespaces \in Seq(BOOLEAN)
    BY DEF Conditionals!LinesSeen
  <2>2. DOMAIN l.namespaces = 1..Len(l.namespaces) /\ Len(l.namespaces) \in Nat
    BY <2>1, LenProperties
  <2>3. \A i \in DOMAIN l.namespaces : of(i) \in Blocks
    BY <1>2, <1>3, <2>2
  <2>4. more \in Seq(Blocks)
    <3> HIDE DEF of
    <3> QED BY <2>2, <2>3
  <2>5. q = c \o more
    BY <1>4 DEF Conditionals!PushNamespaces
  <2> HIDE DEF more
  <2> QED BY <2>4, <2>5
<1>6. HeadsOf(s, l, n) \in {q, Append(q, Conditionals!Block("class", n))}
  BY <1>1, <1>4 DEF HeadsOf, Conditionals!PushClass
<1>7. Append(q, Conditionals!Block("class", n)) \in Seq(Blocks)
  BY <1>2, <1>5
<1> QED BY <1>5, <1>6, <1>7

LEMMA SameMax == \A s : Conditionals!Max(s) = Max(s)
BY DEF Conditionals!Max, Max

\* Update goes through the tokens of the line one after the other.
LEMMA BlocksSteps ==
  ASSUME NEW m \in Marked, NEW l \in Conditionals!LinesSeen, NEW n \in Nat
  PROVE  \E g \in [0..Len(l.tokens) -> Marked] :
           /\ g[0] = [m EXCEPT !.stack = HeadsOf(m.stack, l, n)]
           /\ \A k \in 1..Len(l.tokens) : g[k] = Conditionals!TakeToken(g[k - 1], l, n, k)
           /\ Conditionals!UpdateBlocks(m, l, n) = g[Len(l.tokens)]
<1> DEFINE N == Len(l.tokens)
           base == [m EXCEPT !.stack = HeadsOf(m.stack, l, n)]
           step == [p \in Marked \X (1..N) |-> Conditionals!TakeToken(p[1], l, n, p[2])]
           places == [i \in DOMAIN l.tokens |-> i]
           body(it) == [s \in SUBSET DOMAIN places |-> IF s = {} THEN base
              ELSE Conditionals!TakeToken(it[s \ {Conditionals!Max(s)}], l, n,
                                          places[Conditionals!Max(s)])]
           iter == CHOOSE it : it = body(it)
<1>1. N \in Nat /\ DOMAIN l.tokens = 1..N
  BY LenProperties DEF Conditionals!LinesSeen
<1>2. base \in Marked
  <2>1. m.stack \in Seq(Blocks)
    BY DEF Marked
  <2>2. PICK h \in Seq(Blocks) : h = HeadsOf(m.stack, l, n)
    BY <2>1, HeadsTyped
  <2>3. [m EXCEPT !.stack = h] \in Marked
    BY DEF Marked
  <2> QED BY <2>2, <2>3
<1> HIDE DEF base
<1>3. step \in [Marked \X (1..N) -> Marked]
  <2>1. ASSUME NEW p \in Marked \X (1..N) PROVE Conditionals!TakeToken(p[1], l, n, p[2]) \in Marked
    <3>1. p[1] \in Marked /\ p[2] \in 1..N
      OBVIOUS
    <3> QED BY <3>1, TokenTaken
  <2> QED BY <2>1
<1>4. PICK it \in [SUBSET (1..N) -> Marked] : FoldsWith(it, base, N, step)
  <2> HIDE DEF step, N
  <2> QED BY <1>1, <1>2, <1>3, FoldExists
<1>5. iter = body(iter)
  <2>1. ASSUME NEW s \in SUBSET (1..N), s # {}
        PROVE  step[<<it[s \ {Max(s)}], Max(s)>>] = Conditionals!TakeToken(it[s \ {Max(s)}], l, n, Max(s))
    <3>1. Max(s) \in s
      <4> HIDE DEF N
      <4> QED BY <1>1, <2>1, MaxIn
    <3>2. <<it[s \ {Max(s)}], Max(s)>> \in Marked \X (1..N)
      BY <3>1
    <3> QED BY <3>2
  <2>2. ASSUME NEW s \in SUBSET (1..N)
        PROVE  it[s] = IF s = {} THEN base
                       ELSE Conditionals!TakeToken(it[s \ {Conditionals!Max(s)}], l, n,
                                                   places[Conditionals!Max(s)])
    <3>1. CASE s = {}
      <4> HIDE DEF step, N
      <4> QED BY <1>4, <3>1 DEF FoldsWith
    <3>2. CASE s # {}
      <4>1. Max(s) \in s /\ Conditionals!Max(s) = Max(s)
        <5> HIDE DEF N
        <5> QED BY <1>1, <3>2, MaxIn, SameMax
      <4>2. places[Max(s)] = Max(s)
        BY <1>1, <4>1
      <4>3. it[s] = step[<<it[s \ {Max(s)}], Max(s)>>]
        <5> HIDE DEF step, N
        <5> QED BY <1>4, <3>2 DEF FoldsWith
      <4> HIDE DEF step, N, places
      <4> QED BY <2>1, <3>2, <4>1, <4>2, <4>3
    <3> QED BY <3>1, <3>2
  <2>3. it = body(it)
    <3>1. DOMAIN places = 1..N
      BY <1>1
    <3> HIDE DEF step, N, places
    <3> QED BY <1>4, <2>2, <3>1
  <2> HIDE DEF body
  <2> QED BY <2>3
<1>6. Conditionals!UpdateBlocks(m, l, n) = iter[DOMAIN places]
  BY DEF Conditionals!UpdateBlocks, Conditionals!FoldLeft, Conditionals!MapThenFoldSet, base, HeadsOf
<1> HIDE DEF iter
<1>7. \A s \in SUBSET (1..N) : iter[s] = IF s = {} THEN base
              ELSE Conditionals!TakeToken(iter[s \ {Max(s)}], l, n, Max(s))
  <2>1. DOMAIN places = 1..N /\ \A i \in 1..N : places[i] = i
    BY <1>1
  <2>2. \A s \in SUBSET (1..N) : s # {} => Max(s) \in s /\ Conditionals!Max(s) = Max(s)
    <3> HIDE DEF N
    <3> QED BY <1>1, MaxIn, SameMax
  <2>3. \A s \in SUBSET DOMAIN places : iter[s] = IF s = {} THEN base
          ELSE Conditionals!TakeToken(iter[s \ {Conditionals!Max(s)}], l, n,
                                      places[Conditionals!Max(s)])
    <3> HIDE DEF places
    <3> QED BY <1>5, Zenon
  <2> HIDE DEF places, N
  <2> QED BY <2>1, <2>2, <2>3
<1>12. DOMAIN places = 1..N
  BY <1>1
<1> HIDE DEF places
<1>8. PICK h \in [0..N -> Marked] : GoesWith(h, base, N, step)
  <2> HIDE DEF step, N
  <2> QED BY <1>1, <1>2, <1>3, StepsExist
<1>9. /\ h[0] = base
      /\ \A k \in 1..N : h[k] = Conditionals!TakeToken(h[k - 1], l, n, k)
  <2>1. ASSUME NEW k \in 1..N PROVE <<h[k - 1], k>> \in Marked \X (1..N)
    <3> HIDE DEF N
    <3>1. k - 1 \in 0..N
      BY <1>1
    <3> QED BY <3>1
  <2> QED BY <1>8, <2>1 DEF GoesWith
<1> DEFINE S == {k \in 0..N : iter[1..k] = h[k]}
<1>10. \A k \in 0..N : k \in S
  <2> HIDE DEF N, step
  <2>1. 0 \in S
    <3>1. 1..0 = {} /\ {} \in SUBSET (1..N)
      OBVIOUS
    <3>2. iter[{}] = base
      BY <1>7, <3>1
    <3> QED BY <1>1, <1>9, <3>1, <3>2
  <2>2. ASSUME NEW k \in 1..N, k - 1 \in S PROVE k \in S
    <3>1. /\ 1..k \in SUBSET (1..N) /\ 1..k # {} /\ Max(1..k) = k
          /\ (1..k) \ {k} = 1..(k - 1)
      BY <1>1, PrefixPlaces
    <3>2. iter[1..k] = Conditionals!TakeToken(iter[1..(k - 1)], l, n, k)
      BY <1>7, <3>1
    <3>3. h[k] = Conditionals!TakeToken(h[k - 1], l, n, k) /\ iter[1..(k - 1)] = h[k - 1]
      BY <1>9, <2>2
    <3> QED BY <1>1, <3>2, <3>3
  <2> HIDE DEF S
  <2> QED BY <1>1, <2>1, <2>2, Inductively
<1>11. Conditionals!UpdateBlocks(m, l, n) = h[N]
  <2> HIDE DEF N
  <2>1. N \in S
    BY <1>1, <1>10
  <2> QED BY <1>6, <1>12, <2>1
<1> QED BY <1>9, <1>11 DEF base

\* What was closed before the line makes no difference to the stack.
LEMMA OnlyStack ==
  ASSUME NEW m \in Marked, NEW l \in Conditionals!LinesSeen, NEW n \in Nat
  PROVE  /\ Conditionals!UpdateBlocks(m, l, n) \in Marked
         /\ Conditionals!UpdateBlocks(m, l, n).stack = StackOf(m.stack, l, n)
         /\ StackOf(m.stack, l, n) \in Seq(Blocks)
<1> DEFINE N == Len(l.tokens)
           b == Bare(m.stack)
<1>1. N \in Nat
  BY LenProperties DEF Conditionals!LinesSeen
<1>2. b \in Marked /\ b.stack = m.stack
  BY BareMarked DEF Marked
<1> HIDE DEF b
<1>3. PICK g \in [0..N -> Marked] :
        /\ g[0] = [m EXCEPT !.stack = HeadsOf(m.stack, l, n)]
        /\ \A k \in 1..N : g[k] = Conditionals!TakeToken(g[k - 1], l, n, k)
        /\ Conditionals!UpdateBlocks(m, l, n) = g[N]
  BY BlocksSteps
<1>4. PICK h \in [0..N -> Marked] :
        /\ h[0] = [b EXCEPT !.stack = HeadsOf(b.stack, l, n)]
        /\ \A k \in 1..N : h[k] = Conditionals!TakeToken(h[k - 1], l, n, k)
        /\ Conditionals!UpdateBlocks(b, l, n) = h[N]
  BY <1>2, BlocksSteps
<1> DEFINE S == {k \in 0..N : g[k].stack = h[k].stack}
<1>5. \A k \in 0..N : k \in S
  <2>1. 0 \in S
    <3>1. g[0].stack = HeadsOf(m.stack, l, n)
      BY <1>3 DEF Marked
    <3>2. h[0].stack = HeadsOf(m.stack, l, n)
      BY <1>2, <1>4 DEF Marked
    <3> HIDE DEF N
    <3> QED BY <1>1, <3>1, <3>2
  <2>2. ASSUME NEW k \in 1..N, k - 1 \in S PROVE k \in S
    <3>1. k - 1 \in 0..N /\ g[k - 1].stack = h[k - 1].stack
      BY <1>1, <2>2
    <3>2. g[k - 1] \in Marked /\ h[k - 1] \in Marked
      BY <3>1
    <3>5. ASSUME NEW x \in Marked
          PROVE  Conditionals!TakeToken(x, l, n, k).stack =
                   Conditionals!TakeToken(Bare(x.stack), l, n, k).stack
      BY TokenTaken
    <3>3. /\ Conditionals!TakeToken(g[k - 1], l, n, k).stack =
               Conditionals!TakeToken(Bare(g[k - 1].stack), l, n, k).stack
          /\ Conditionals!TakeToken(h[k - 1], l, n, k).stack =
               Conditionals!TakeToken(Bare(h[k - 1].stack), l, n, k).stack
      BY <3>2, <3>5
    <3>4. g[k].stack = h[k].stack
      BY <1>3, <1>4, <3>1, <3>3
    <3> HIDE DEF N
    <3> QED BY <1>1, <3>4
  <2> HIDE DEF S, N
  <2> QED BY <1>1, <2>1, <2>2, Inductively
<1>6. N \in 0..N /\ N \in S
  <2> HIDE DEF S, N
  <2> QED BY <1>1, <1>5
<1>7. Conditionals!UpdateBlocks(m, l, n).stack = StackOf(m.stack, l, n)
  BY <1>3, <1>4, <1>6 DEF StackOf, b
<1>8. Conditionals!UpdateBlocks(m, l, n) \in Marked
  <2> HIDE DEF N, S
  <2> QED BY <1>3, <1>6
<1>9. Conditionals!UpdateBlocks(m, l, n).stack \in Seq(Blocks)
  BY <1>8 DEF Marked
<1> QED BY <1>7, <1>8, <1>9

\* A directive leaves the stack as it is, but for an asm block whose
\* parentheses are closed: the next line is no longer in it.
Lone(l) ==
  /\ l \in Conditionals!LinesSeen /\ l.namespaces = <<>> /\ ~l.class /\ l.parens = 0
  /\ l.tokens = <<>>

LEMMA LoneCounts ==
  ASSUME NEW s \in Seq(Blocks), NEW l, Lone(l), NEW n \in Nat
  PROVE  StackOf(s, l, n) = Conditionals!CountParentheses(s, l)
<1>0. l \in Conditionals!LinesSeen
  BY DEF Lone
<1>1. PICK c \in Seq(Blocks) : c = Conditionals!CountParentheses(s, l)
  BY <1>0, ParenthesesCounted
<1>2. HeadsOf(s, l, n) = c
  <2>1. c \o <<>> = c
    OBVIOUS
  <2>2. [i \in DOMAIN l.namespaces |-> IF l.namespaces[i]
           THEN Conditionals!Opened(Conditionals!Block("namespace", n), <<n, i>>)
           ELSE Conditionals!Block("namespace", n)] = <<>>
    <3>1. l.namespaces = <<>>
      BY DEF Lone
    <3> QED BY <3>1
  <2>3. Conditionals!PushNamespaces(c, l, n) = c
    BY <2>1, <2>2 DEF Conditionals!PushNamespaces
  <2>4. Conditionals!PushClass(c, l, n) = c
    BY DEF Conditionals!PushClass, Lone
  <2> QED BY <1>1, <2>3, <2>4 DEF HeadsOf
<1>3. Bare(s) \in Marked /\ Bare(s).stack = s
  BY BareMarked
<1>4. PICK g \in [0..Len(l.tokens) -> Marked] :
        /\ g[0] = [Bare(s) EXCEPT !.stack = HeadsOf(Bare(s).stack, l, n)]
        /\ Conditionals!UpdateBlocks(Bare(s), l, n) = g[Len(l.tokens)]
  BY <1>0, <1>3, BlocksSteps
<1>5. Len(l.tokens) = 0
  BY DEF Lone
<1>6. [Bare(s) EXCEPT !.stack = c].stack = c
  BY DEF Bare
<1> QED BY <1>1, <1>2, <1>3, <1>4, <1>5, <1>6 DEF StackOf

LEMMA LoneTwice ==
  ASSUME NEW s \in Seq(Blocks), NEW l, Lone(l), NEW o, Lone(o), NEW n \in Nat, NEW k \in Nat
  PROVE  StackOf(StackOf(s, l, n), o, k) = StackOf(s, o, k)
<1>1. PICK c \in Seq(Blocks) : c = Conditionals!CountParentheses(s, l)
  BY ParenthesesCounted DEF Lone
<1>2. /\ StackOf(s, l, n) = c /\ StackOf(s, o, k) = Conditionals!CountParentheses(s, o)
      /\ StackOf(c, o, k) = Conditionals!CountParentheses(c, o)
  BY <1>1, LoneCounts
<1>3. CASE s = <<>>
  BY <1>1, <1>2, <1>3 DEF Conditionals!CountParentheses
<1>4. CASE s # <<>>
  <2> DEFINE top == s[Len(s)]
             b == [top EXCEPT !.asm = IF top.asm = "end" THEN "no" ELSE top.asm]
  <2>1. /\ Conditionals!Last(s) = top /\ top \in Blocks /\ Len(s) \in 1..Len(s)
    BY <1>4, TopOf
  <2>2. ASSUME NEW x \in Blocks
        PROVE  LET total == x.parens + 0
                   asm == IF x.asm \in {"no", "end"} THEN "no"
                          ELSE IF x.asm = "inside" /\ total = 0 THEN "end" ELSE x.asm
               IN [x EXCEPT !.parens = total, !.asm = asm] =
                    [x EXCEPT !.asm = IF x.asm = "end" THEN "no" ELSE x.asm]
    <3> DEFINE asm == IF x.asm \in {"no", "end"} THEN "no"
                      ELSE IF x.asm = "inside" /\ x.parens = 0 THEN "end" ELSE x.asm
    <3>1. x.parens + 0 = x.parens
      BY DEF Blocks
    <3>2. asm = IF x.asm = "end" THEN "no" ELSE x.asm
      BY DEF Blocks
    <3>3. \A a : [x EXCEPT !.parens = x.parens, !.asm = a] = [x EXCEPT !.asm = a]
      BY DEF Blocks
    <3>4. [x EXCEPT !.parens = x.parens, !.asm = asm] =
            [x EXCEPT !.asm = IF x.asm = "end" THEN "no" ELSE x.asm]
      <4> HIDE DEF asm
      <4> QED BY <3>2, <3>3
    <3> QED BY <3>1, <3>4, Zenon
  <2>3. ASSUME NEW q \in Seq(Blocks), q # <<>>, NEW x \in Blocks, x = Conditionals!Last(q), NEW r, Lone(r)
        PROVE  Conditionals!CountParentheses(q, r) =
                 Conditionals!SetTop(q, [x EXCEPT !.asm = IF x.asm = "end" THEN "no" ELSE x.asm])
    <3>1. r.parens = 0
      BY <2>3 DEF Lone
    <3> QED BY <2>2, <2>3, <3>1 DEF Conditionals!CountParentheses
  <2>4. c = Conditionals!SetTop(s, b) /\ Conditionals!CountParentheses(s, o) = Conditionals!SetTop(s, b)
    BY <1>1, <1>4, <2>1, <2>3
  <2>5. b \in Blocks /\ [b EXCEPT !.asm = IF b.asm = "end" THEN "no" ELSE b.asm] = b
    BY <2>1 DEF Blocks
  <2> HIDE DEF b, top
  <2>6. /\ Len(c) = Len(s) /\ c # <<>> /\ Conditionals!Last(c) = b
        /\ Conditionals!SetTop(c, b) = c
    <3>1. c = [s EXCEPT ![Len(s)] = b]
      BY <2>4 DEF Conditionals!SetTop
    <3>2. Len(c) = Len(s) /\ DOMAIN c = 1..Len(s) /\ c[Len(s)] = b
      BY <2>1, <3>1
    <3>3. [c EXCEPT ![Len(s)] = b] = c
      BY <3>1, <3>2
    <3> QED BY <2>1, <3>2, <3>3 DEF Conditionals!SetTop, Conditionals!Last
  <2>7. Conditionals!CountParentheses(c, o) = c
    BY <2>3, <2>5, <2>6
  <2> QED BY <1>2, <2>4, <2>7
<1> QED BY <1>3, <1>4

-------------------------------------------------------------------------------
\* How a directive changes the number of conditionals that are open.
Change(x) == CASE x = "if" -> 1 [] x = "endif" -> -1 [] OTHER -> 0

\* d holds the directives of the text.
Directs(d, n) == \A i \in 1..n : d[i] = Conditionals!Directive(i)

\* Balance counts the levels that are entered from line a to line b.
LEMMA BalanceIs ==
  ASSUME NEW n, NEW d, NEW L, Depths(d, L, n), Directs(d, n),
         NEW a \in Nat, a \in 1..n, NEW b \in Nat, b \in a..n
  PROVE  Conditionals!Balance(a, b) = L[b] - L[a - 1]
<1> DEFINE N == b - a + 1
           places == [i \in 1..(b - a + 1) |-> a + i - 1]
           step == [p \in Int \X (1..N) |-> p[1] + Change(Conditionals!Directive(a + p[2] - 1))]
           body(it) == [s \in SUBSET DOMAIN places |-> IF s = {} THEN 0
              ELSE it[s \ {Conditionals!Max(s)}] +
                   Change(Conditionals!Directive(places[Conditionals!Max(s)]))]
           iter == CHOOSE it : it = body(it)
<1>1. /\ n \in Nat /\ a \in Nat /\ b \in Nat /\ N \in Nat /\ DOMAIN places = 1..N
      /\ \A i \in 1..N : places[i] = a + i - 1
  BY DEF Depths
<1>2. \A x : Change(x) \in Int
  BY DEF Change
<1>3. step \in [Int \X (1..N) -> Int]
  <2> HIDE DEF N
  <2> QED BY <1>2
<1>4. PICK it \in [SUBSET (1..N) -> Int] : FoldsWith(it, 0, N, step)
  <2>1. 0 \in Int
    OBVIOUS
  <2> HIDE DEF step, N
  <2> QED BY <1>1, <1>3, <2>1, FoldExists
<1>5. ASSUME NEW s \in SUBSET (1..N), s # {}
      PROVE  Max(s) \in s /\ Conditionals!Max(s) = Max(s) /\ places[Max(s)] = a + Max(s) - 1
  <2>1. Max(s) \in s /\ Conditionals!Max(s) = Max(s)
    <3> HIDE DEF N
    <3> QED BY <1>1, <1>5, MaxIn, SameMax
  <2> HIDE DEF N, places
  <2> QED BY <1>1, <2>1
<1>6. ASSUME NEW s \in SUBSET (1..N)
      PROVE  it[s] = IF s = {} THEN 0
                     ELSE it[s \ {Conditionals!Max(s)}] +
                          Change(Conditionals!Directive(places[Conditionals!Max(s)]))
  <2>1. CASE s = {}
    <3> HIDE DEF step, N
    <3> QED BY <1>4, <2>1 DEF FoldsWith
  <2>2. CASE s # {}
    <3>1. it[s] = step[<<it[s \ {Max(s)}], Max(s)>>]
      <4> HIDE DEF step, N
      <4> QED BY <1>4, <2>2 DEF FoldsWith
    <3>2. <<it[s \ {Max(s)}], Max(s)>> \in Int \X (1..N)
      <4> HIDE DEF step, N, places
      <4> QED BY <1>5, <2>2
    <3>3. it[s] = it[s \ {Max(s)}] + Change(Conditionals!Directive(a + Max(s) - 1))
      <4> HIDE DEF N
      <4> QED BY <3>1, <3>2
    <3> HIDE DEF step, N, places
    <3> QED BY <1>5, <2>2, <3>3
  <2> QED BY <2>1, <2>2
<1> HIDE DEF step
<1>7. iter = body(iter)
  <2>1. it = body(it)
    <3> HIDE DEF N, places
    <3> QED BY <1>1, <1>4, <1>6
  <2> HIDE DEF body
  <2> QED BY <2>1
<1>8. Conditionals!Balance(a, b) = iter[DOMAIN places]
  BY DEF Conditionals!Balance, Conditionals!FoldLeft, Conditionals!MapThenFoldSet, Change
<1> HIDE DEF iter, places
<1>9. \A s \in SUBSET (1..N) : iter[s] = IF s = {} THEN 0
              ELSE iter[s \ {Max(s)}] + Change(Conditionals!Directive(a + Max(s) - 1))
  <2>1. \A s \in SUBSET DOMAIN places : iter[s] = IF s = {} THEN 0
              ELSE iter[s \ {Conditionals!Max(s)}] +
                   Change(Conditionals!Directive(places[Conditionals!Max(s)]))
    BY <1>7, Zenon
  <2> HIDE DEF N
  <2>2. \A s \in SUBSET (1..N) : iter[s] = IF s = {} THEN 0
              ELSE iter[s \ {Conditionals!Max(s)}] +
                   Change(Conditionals!Directive(places[Conditionals!Max(s)]))
    BY <1>1, <2>1, Zenon
  <2>3. SUFFICES ASSUME NEW s \in SUBSET (1..N)
                 PROVE  iter[s] = IF s = {} THEN 0
                          ELSE iter[s \ {Max(s)}] + Change(Conditionals!Directive(a + Max(s) - 1))
    OBVIOUS
  <2>4. CASE s = {}
    BY <2>2, <2>4
  <2>5. CASE s # {}
    <3>1. Conditionals!Max(s) = Max(s) /\ places[Max(s)] = a + Max(s) - 1
      BY <1>5, <2>5
    <3>2. iter[s] = iter[s \ {Conditionals!Max(s)}] +
                   Change(Conditionals!Directive(places[Conditionals!Max(s)]))
      BY <2>2, <2>5
    <3>3. iter[s] = iter[s \ {Max(s)}] + Change(Conditionals!Directive(a + Max(s) - 1))
      BY <3>1, <3>2
    <3> QED BY <2>5, <3>3
  <2> QED BY <2>4, <2>5
<1>10. ASSUME NEW k \in 1..N PROVE iter[1..k] = iter[1..(k - 1)] + Change(Conditionals!Directive(a + k - 1))
  <2> HIDE DEF N
  <2>1. /\ 1..k \in SUBSET (1..N) /\ 1..k # {} /\ Max(1..k) = k
        /\ (1..k) \ {k} = 1..(k - 1)
    BY <1>1, PrefixPlaces
  <2> QED BY <1>9, <2>1
<1> DEFINE S == {k \in 0..N : iter[1..k] = L[a + k - 1] - L[a - 1]}
<1>11. \A k \in 0..N : k \in S
  <2>1. 0 \in S
    <3>1. 1..0 = {} /\ {} \in SUBSET (1..N) /\ 0 \in 0..N /\ a + 0 - 1 = a - 1 /\ a - 1 \in 0..n
      BY <1>1
    <3>2. iter[{}] = 0 /\ L[a - 1] \in Int
      BY <1>9, <3>1 DEF Depths
    <3> HIDE DEF N
    <3> QED BY <3>1, <3>2
  <2>2. ASSUME NEW k \in 1..N, k - 1 \in S PROVE k \in S
    <3>1. PICK i : i = a + k - 1
      OBVIOUS
    <3>2. i \in 1..n /\ a + (k - 1) - 1 = i - 1 /\ a \in 1..n /\ k \in 0..N
      BY <1>1, <3>1
    <3>3. L[i] = L[i - 1] + Change(Conditionals!Directive(i)) /\ L[i - 1] \in Int
      BY <3>2, LevelSteps DEF Depths, Change, Directs
    <3>4. L[a - 1] \in Int /\ Change(Conditionals!Directive(i)) \in Int
      BY <1>2, <3>2, LevelSteps
    <3>5. iter[1..(k - 1)] = L[i - 1] - L[a - 1]
      BY <2>2, <3>2
    <3>6. iter[1..k] = iter[1..(k - 1)] + Change(Conditionals!Directive(i))
      <4> HIDE DEF N
      <4> QED BY <1>10, <3>1
    <3>7. iter[1..k] = L[i] - L[a - 1]
      BY <3>3, <3>4, <3>5, <3>6
    <3> HIDE DEF N
    <3> QED BY <3>1, <3>2, <3>7
  <2> HIDE DEF S, N
  <2> QED BY <1>1, <2>1, <2>2, Inductively
<1>12. N \in S /\ a + N - 1 = b
  <2>1. N \in 0..N /\ a + N - 1 = b
    BY <1>1
  <2> HIDE DEF S, N
  <2> QED BY <1>11, <2>1
<1> HIDE DEF N
<1> QED BY <1>1, <1>8, <1>12

\* The conditionals that Balance finds are those the levels show.
LEMMA EnclosesIs ==
  ASSUME NEW n, NEW d, NEW L, Depths(d, L, n), Directs(d, n),
         NEW i, i \in 1..n, NEW k, k \in 1..i
  PROVE  /\ k < i => (Conditionals!Encloses(k, i) <=> Open(d, L, k, i))
         /\ d[k] = "if" => (Conditionals!Balance(k, i) = 1 <=> L[i] = L[k])
         /\ d[k] = "if" => (Open(d, L, k, i) <=> \A m \in k..i : Conditionals!Balance(k, m) >= 1)
<1>1. n \in Nat /\ i \in Nat /\ k \in 1..n /\ k \in Nat /\ k - 1 \in 0..n /\ k \in k..i /\ i \in k..i
  BY DEF Depths
<1>2. L[k - 1] \in Int /\ L[k] \in Int /\ (d[k] = "if" => L[k] = L[k - 1] + 1)
  BY <1>1, LevelSteps
<1>3. ASSUME NEW m, m \in k..i
      PROVE  L[m] \in Int /\ Conditionals!Balance(k, m) = L[m] - L[k - 1]
  <2>1. m \in 1..n /\ m \in k..n /\ m \in Nat
    BY <1>1, <1>3
  <2>2. L[m] \in Int
    BY <2>1, LevelSteps
  <2>4. Conditionals!Balance(k, m) = L[m] - L[k - 1]
    BY <1>1, <2>1, BalanceIs
  <2> QED BY <2>2, <2>4
<1>4. ASSUME d[k] = "if", NEW m \in k..i
      PROVE  /\ Conditionals!Balance(k, m) >= 1 <=> L[m] >= L[k]
             /\ Conditionals!Balance(k, m) = 1 <=> L[m] = L[k]
  <2>1. L[m] \in Int /\ Conditionals!Balance(k, m) = L[m] - L[k - 1]
    BY <1>3
  <2> QED BY <1>2, <1>4, <2>1
<1>5. L[k] >= L[k]
  BY <1>2
<1>6. ASSUME k < i PROVE Conditionals!Encloses(k, i) <=> Open(d, L, k, i)
  <2>1. \A m \in (k + 1)..i : m \in k..i
    BY <1>1
  <2>2. \A m \in k..i : m = k \/ m \in (k + 1)..i
    BY <1>1
  <2>3. d[k] = Conditionals!Directive(k)
    BY <1>1 DEF Directs
  <2>4. CASE d[k] = "if"
    <3>1. (\A m \in (k + 1)..i : Conditionals!Balance(k, m) >= 1) <=> \A m \in k..i : L[m] >= L[k]
      BY <1>4, <1>5, <2>1, <2>2, <2>4
    <3> QED BY <1>6, <2>3, <2>4, <3>1 DEF Conditionals!Encloses, Open
  <2>5. CASE d[k] # "if"
    BY <2>3, <2>5 DEF Conditionals!Encloses, Open
  <2> QED BY <2>4, <2>5
<1>7. d[k] = "if" => (Open(d, L, k, i) <=> \A m \in k..i : Conditionals!Balance(k, m) >= 1)
  BY <1>4 DEF Open
<1>8. d[k] = "if" => (Conditionals!Balance(k, i) = 1 <=> L[i] = L[k])
  BY <1>1, <1>4
<1> QED BY <1>6, <1>7, <1>8

LEMMA CountsIs ==
  ASSUME NEW n, NEW d, NEW L, Depths(d, L, n), Directs(d, n),
         DOMAIN text = 1..n, Len(text) = n, NEW i, i \in 1..n
  PROVE  Conditionals!Counts(i) <=> CountsTo(d, L, i, n)
<1>1. n \in Nat /\ i \in Nat
  BY DEF Depths
<1>2. ASSUME NEW k, k \in 1..(i - 1)
      PROVE  /\ Conditionals!Encloses(k, i) <=> Open(d, L, k, i)
             /\ Open(d, L, k, i) =>
                  /\ Conditionals!StillOpen(k) <=> Open(d, L, k, n)
                  /\ Conditionals!Elses(k) = ElsesTo(d, L, k, n)
  <2>1. k \in 1..i /\ k < i /\ k \in 1..n /\ n \in 1..n
    BY <1>1, <1>2
  <2>2. Conditionals!Encloses(k, i) <=> Open(d, L, k, i)
    BY <2>1, EnclosesIs
  <2>3. ASSUME Open(d, L, k, i) PROVE Conditionals!StillOpen(k) <=> Open(d, L, k, n)
    <3>1. d[k] = "if"
      BY <2>3 DEF Open
    <3>2. Open(d, L, k, n) <=> \A m \in k..n : Conditionals!Balance(k, m) >= 1
      BY <2>1, <3>1, EnclosesIs
    <3> QED BY <3>2 DEF Conditionals!StillOpen
  <2>4. ASSUME Open(d, L, k, i) PROVE Conditionals!Elses(k) = ElsesTo(d, L, k, n)
    <3>1. d[k] = "if"
      BY <2>4 DEF Open
    <3>2. ASSUME NEW e, e \in 1..n, k < e
          PROVE  /\ Conditionals!Encloses(k, e) <=> Open(d, L, k, e)
                 /\ Conditionals!Balance(k, e) = 1 <=> L[e] = L[k]
      <4>1. k \in 1..e
        BY <1>1, <2>1, <3>2
      <4> QED BY <3>1, <3>2, <4>1, EnclosesIs
    <3>3. \A e : Conditionals!Encloses(k, e) => k < e
      BY DEF Conditionals!Encloses
    <3> QED BY <3>2, <3>3 DEF Conditionals!Elses, ElsesTo, Directs
  <2> QED BY <2>2, <2>3, <2>4
<1>3. Conditionals!Counts(i) <=>
        \A k \in 1..(i - 1) : Conditionals!Encloses(k, i) =>
          IF Conditionals!StillOpen(k) THEN \A e \in Conditionals!Elses(k) : e <= i
          ELSE \A e \in Conditionals!Elses(k) : e > i
  BY DEF Conditionals!Counts
<1> QED BY <1>2, <1>3 DEF CountsTo

-------------------------------------------------------------------------------
\* The lines of the text are among those of the menu.
Read(n) ==
  /\ n \in Nat /\ DOMAIN text = 1..n /\ Len(text) = n
  /\ \A i \in 1..n : BranchBlocks[text[i]] \in Conditionals!LinesSeen

\* The stack of the lines that count, one after the other.
LEMMA CountingSteps ==
  ASSUME NEW n, Read(n)
  PROVE  \E f \in [0..n -> Marked] :
           /\ f[0] = Bare(<<>>)
           /\ \A i \in 1..n : f[i] = IF Conditionals!Counts(i)
                THEN Conditionals!UpdateBlocks(f[i - 1], BranchBlocks[text[i]], i) ELSE f[i - 1]
           /\ Conditionals!PreprocessorTransparent <=> (ended => stack = f[n].stack)
<1> DEFINE base == [stack |-> <<>>, closed |-> {}, stray |-> FALSE]
           next(m, i) == IF Conditionals!Counts(i)
             THEN Conditionals!UpdateBlocks(m, BranchBlocks[text[i]], i) ELSE m
           places == [i \in DOMAIN text |-> i]
           step == [p \in Marked \X (1..n) |-> next(p[1], p[2])]
           body(it) == [s \in SUBSET DOMAIN places |-> IF s = {} THEN base
              ELSE next(it[s \ {Conditionals!Max(s)}], places[Conditionals!Max(s)])]
           iter == CHOOSE it : it = body(it)
<1>1. /\ n \in Nat /\ DOMAIN places = 1..n /\ \A i \in 1..n : places[i] = i
      /\ \A i \in 1..n : BranchBlocks[text[i]] \in Conditionals!LinesSeen
  BY DEF Read
<1>2. base \in Marked /\ base = Bare(<<>>)
  BY DEF Marked, Bare
<1>3. step \in [Marked \X (1..n) -> Marked]
  <2>1. ASSUME NEW m \in Marked, NEW i \in 1..n PROVE next(m, i) \in Marked
    <3>1. PICK l \in Conditionals!LinesSeen : l = BranchBlocks[text[i]]
      BY <1>1
    <3>2. i \in Nat
      BY <1>1
    <3>3. Conditionals!UpdateBlocks(m, l, i) \in Marked
      BY <3>2, OnlyStack
    <3> QED BY <3>1, <3>3
  <2> HIDE DEF next
  <2> QED BY <2>1
<1>4. PICK it \in [SUBSET (1..n) -> Marked] : FoldsWith(it, base, n, step)
  <2> HIDE DEF step, base
  <2> QED BY <1>1, <1>2, <1>3, FoldExists
<1>5. ASSUME NEW s \in SUBSET (1..n), s # {}
      PROVE  Max(s) \in s /\ Conditionals!Max(s) = Max(s) /\ places[Max(s)] = Max(s)
  <2>1. Max(s) \in s /\ Conditionals!Max(s) = Max(s)
    BY <1>1, <1>5, MaxIn, SameMax
  <2> HIDE DEF places
  <2> QED BY <1>1, <2>1
<1>6. ASSUME NEW s \in SUBSET (1..n)
      PROVE  it[s] = IF s = {} THEN base
                     ELSE next(it[s \ {Conditionals!Max(s)}], places[Conditionals!Max(s)])
  <2>1. CASE s = {}
    <3> HIDE DEF step
    <3> QED BY <1>4, <2>1 DEF FoldsWith
  <2>2. CASE s # {}
    <3> HIDE DEF next, places
    <3>1. it[s] = step[<<it[s \ {Max(s)}], Max(s)>>]
      <4> HIDE DEF step
      <4> QED BY <1>4, <2>2 DEF FoldsWith
    <3>2. <<it[s \ {Max(s)}], Max(s)>> \in Marked \X (1..n)
      <4> HIDE DEF step
      <4> QED BY <1>5, <2>2
    <3>3. it[s] = next(it[s \ {Max(s)}], Max(s))
      BY <3>1, <3>2
    <3> HIDE DEF step
    <3> QED BY <1>5, <2>2, <3>3
  <2> QED BY <2>1, <2>2
<1>7. iter = body(iter)
  <2>1. it = body(it)
    <3> HIDE DEF next, places, base
    <3> QED BY <1>1, <1>4, <1>6
  <2> HIDE DEF body
  <2> QED BY <2>1
<1>8. Conditionals!PreprocessorTransparent <=> (ended => stack = iter[DOMAIN places].stack)
  BY DEF Conditionals!PreprocessorTransparent, Conditionals!FoldLeft, Conditionals!MapThenFoldSet
<1> HIDE DEF iter, places, base, next
<1>9. \A s \in SUBSET (1..n) : iter[s] = IF s = {} THEN base
              ELSE next(iter[s \ {Max(s)}], Max(s))
  <2>1. \A s \in SUBSET DOMAIN places : iter[s] = IF s = {} THEN base
              ELSE next(iter[s \ {Conditionals!Max(s)}], places[Conditionals!Max(s)])
    BY <1>7, Zenon
  <2>2. \A s \in SUBSET (1..n) : iter[s] = IF s = {} THEN base
              ELSE next(iter[s \ {Conditionals!Max(s)}], places[Conditionals!Max(s)])
    BY <1>1, <2>1, Zenon
  <2>3. SUFFICES ASSUME NEW s \in SUBSET (1..n)
                 PROVE  iter[s] = IF s = {} THEN base ELSE next(iter[s \ {Max(s)}], Max(s))
    OBVIOUS
  <2>4. CASE s = {}
    BY <2>2, <2>4
  <2>5. CASE s # {}
    <3>1. Conditionals!Max(s) = Max(s) /\ places[Max(s)] = Max(s)
      BY <1>5, <2>5
    <3>2. iter[s] = next(iter[s \ {Conditionals!Max(s)}], places[Conditionals!Max(s)])
      BY <2>2, <2>5
    <3>3. iter[s] = next(iter[s \ {Max(s)}], Max(s))
      BY <3>1, <3>2
    <3> QED BY <2>5, <3>3
  <2> QED BY <2>4, <2>5
<1>10. PICK f \in [0..n -> Marked] : GoesWith(f, base, n, step)
  <2> HIDE DEF step
  <2> QED BY <1>1, <1>2, <1>3, StepsExist
<1>11. f[0] = base /\ \A k \in 1..n : f[k] = next(f[k - 1], k)
  <2>1. ASSUME NEW k \in 1..n PROVE <<f[k - 1], k>> \in Marked \X (1..n)
    <3>1. k - 1 \in 0..n
      BY <1>1
    <3> QED BY <3>1
  <2> QED BY <1>10, <2>1 DEF GoesWith
<1> DEFINE S == {k \in 0..n : iter[1..k] = f[k]}
<1>12. \A k \in 0..n : k \in S
  <2> HIDE DEF step
  <2>1. 0 \in S
    <3>1. 1..0 = {} /\ {} \in SUBSET (1..n)
      OBVIOUS
    <3>2. iter[{}] = base
      BY <1>9, <3>1
    <3> QED BY <1>1, <1>11, <3>1, <3>2
  <2>2. ASSUME NEW k \in 1..n, k - 1 \in S PROVE k \in S
    <3>1. /\ 1..k \in SUBSET (1..n) /\ 1..k # {} /\ Max(1..k) = k
          /\ (1..k) \ {k} = 1..(k - 1)
      BY <1>1, PrefixPlaces
    <3>2. iter[1..k] = next(iter[1..(k - 1)], k)
      BY <1>9, <3>1
    <3>3. f[k] = next(f[k - 1], k) /\ iter[1..(k - 1)] = f[k - 1]
      BY <1>11, <2>2
    <3> QED BY <1>1, <3>2, <3>3
  <2> HIDE DEF S
  <2> QED BY <1>1, <2>1, <2>2, Inductively
<1>13. iter[DOMAIN places] = f[n]
  <2>1. n \in S
    <3> HIDE DEF S
    <3> QED BY <1>1, <1>12
  <2> QED BY <1>1, <2>1
<1>14. \A i \in 1..n : f[i] = IF Conditionals!Counts(i)
          THEN Conditionals!UpdateBlocks(f[i - 1], BranchBlocks[text[i]], i) ELSE f[i - 1]
  BY <1>11 DEF next
<1> QED BY <1>2, <1>8, <1>11, <1>13, <1>14

\* What the lines do to a stack, and the directives on them.
LineStep(n) ==
  [p \in Seq(Blocks) \X (1..n) |-> StackOf(p[1], BranchBlocks[text[p[2]]], p[2])]
DirectivesTo(n) == [i \in 1..n |-> Conditionals!Directive(i)]
Alone(n) == \A i \in 1..n : Conditionals!Directive(i) # "none" => Lone(BranchBlocks[text[i]])

LEMMA LineStepTyped ==
  ASSUME NEW n, Read(n)
  PROVE  /\ LineStep(n) \in [Seq(Blocks) \X (1..n) -> Seq(Blocks)]
         /\ \A v \in Seq(Blocks), i \in 1..n :
              LineStep(n)[<<v, i>>] = StackOf(v, BranchBlocks[text[i]], i)
<1>1. ASSUME NEW v \in Seq(Blocks), NEW i \in 1..n
      PROVE  StackOf(v, BranchBlocks[text[i]], i) \in Seq(Blocks)
  <2>1. PICK l \in Conditionals!LinesSeen : l = BranchBlocks[text[i]]
    BY DEF Read
  <2>2. i \in Nat /\ Bare(v) \in Marked /\ Bare(v).stack = v
    BY BareMarked DEF Read
  <2>3. StackOf(Bare(v).stack, l, i) \in Seq(Blocks)
    BY <2>2, OnlyStack
  <2> QED BY <2>1, <2>2, <2>3
<1>2. LineStep(n) \in [Seq(Blocks) \X (1..n) -> Seq(Blocks)]
  BY <1>1 DEF LineStep
<1>3. \A v \in Seq(Blocks), i \in 1..n :
        LineStep(n)[<<v, i>>] = StackOf(v, BranchBlocks[text[i]], i)
  BY DEF LineStep
<1> QED BY <1>2, <1>3

LEMMA LevelsExist ==
  ASSUME NEW n, Read(n)
  PROVE  Directs(DirectivesTo(n), n) /\ \E L : Depths(DirectivesTo(n), L, n)
<1> DEFINE d == DirectivesTo(n)
           step == [p \in Int \X (1..n) |-> p[1] + Change(d[p[2]])]
<1>1. n \in Nat /\ \A i \in 1..n : d[i] = Conditionals!Directive(i)
  BY DEF Read, DirectivesTo
<1>2. d \in [1..n -> Conditionals!Directives]
  <2>1. \A i \in 1..n : BranchBlocks[text[i]].directive \in Conditionals!Directives
    BY DEF Read, Conditionals!LinesSeen
  <2> QED BY <2>1 DEF DirectivesTo, Conditionals!Directive
<1> HIDE DEF d
<1>3. step \in [Int \X (1..n) -> Int] /\ 0 \in Int
  BY DEF Change
<1>4. PICK L \in [0..n -> Int] : GoesWith(L, 0, n, step)
  <2> HIDE DEF step
  <2> QED BY <1>1, <1>3, StepsExist
<1>5. ASSUME NEW i \in 1..n PROVE L[i] = L[i - 1] + Change(d[i])
  <2>1. <<L[i - 1], i>> \in Int \X (1..n)
    <3>1. i - 1 \in 0..n
      BY <1>1
    <3> QED BY <3>1
  <2> QED BY <1>4, <2>1 DEF GoesWith
<1>6. Depths(d, L, n)
  BY <1>1, <1>2, <1>4, <1>5 DEF Depths, Change, GoesWith
<1>7. Directs(d, n)
  BY <1>1 DEF Directs
<1> QED BY <1>6, <1>7 DEF d

\* The stack of a file is that of the lines that count.
LEMMA ReplayTransparent ==
  ASSUME NEW n, Read(n), Alone(n), NEW s, s \in [0..n -> Seq(Blocks)],
         NEW p, p \in [0..n -> Seq(SavesOf(Seq(Blocks)))],
         Replays(n, DirectivesTo(n), s, p, LineStep(n)), stack = s[n]
  PROVE  Conditionals!PreprocessorTransparent
<1> DEFINE d == DirectivesTo(n)
           step == LineStep(n)
           V == Seq(Blocks)
<1>0. n \in Nat /\ n \in 0..n
  BY DEF Read
<1>1. PICK L : Depths(d, L, n)
  BY LevelsExist
<1>2. Directs(d, n)
  BY LevelsExist
<1>3. PICK f \in [0..n -> Marked] :
         /\ f[0] = Bare(<<>>)
         /\ \A i \in 1..n : f[i] = IF Conditionals!Counts(i)
              THEN Conditionals!UpdateBlocks(f[i - 1], BranchBlocks[text[i]], i) ELSE f[i - 1]
         /\ Conditionals!PreprocessorTransparent <=> (ended => stack = f[n].stack)
  BY CountingSteps
<1> DEFINE r == [i \in 0..n |-> f[i].stack]
           C == Counting(d, L, n)
<1>4. r \in [0..n -> V]
  BY DEF Marked
<1>5. \A v \in V, i \in 1..n : step[<<v, i>>] = StackOf(v, BranchBlocks[text[i]], i)
  BY LineStepTyped
<1>6. step \in [V \X (1..n) -> V]
  BY LineStepTyped
<1>11. <<>> \in V
  OBVIOUS
<1>7. RunsOver(n, r, C, step)
  <2>1. r[0] = <<>>
    BY <1>0, <1>3 DEF Bare
  <2>2. ASSUME NEW i \in 1..n PROVE r[i] = IF i \in C THEN step[<<r[i - 1], i>>] ELSE r[i - 1]
    <3>1. i - 1 \in 0..n /\ i \in 0..n /\ i \in Nat
      BY <1>0
    <3>2. Conditionals!Counts(i) <=> i \in C
      <4>1. DOMAIN text = 1..n /\ Len(text) = n
        BY DEF Read
      <4> HIDE DEF d
      <4> QED BY <1>1, <1>2, <4>1, CountsIs DEF Counting
    <3>3. r[i] = f[i].stack /\ r[i - 1] = f[i - 1].stack /\ f[i - 1] \in Marked
      BY <3>1
    <3>4. PICK l \in Conditionals!LinesSeen : l = BranchBlocks[text[i]]
      BY DEF Read
    <3>5. Conditionals!UpdateBlocks(f[i - 1], l, i).stack = StackOf(f[i - 1].stack, l, i)
      BY <3>1, <3>3, <3>4, OnlyStack
    <3>6. f[i - 1].stack \in V
      BY <3>3 DEF Marked
    <3> HIDE DEF C, r, step, V
    <3> QED BY <1>3, <1>5, <3>2, <3>3, <3>4, <3>5, <3>6
  <2> HIDE DEF C, r, step
  <2> QED BY <2>1, <2>2 DEF RunsOver
<1>8. ASSUME NEW v \in V, NEW i \in 1..n, NEW j \in 1..n, d[i] = "if", d[j] = "else"
      PROVE  step[<<step[<<v, i>>], j>>] = step[<<v, j>>]
  <2>1. Lone(BranchBlocks[text[i]]) /\ Lone(BranchBlocks[text[j]]) /\ i \in Nat /\ j \in Nat
    BY <1>0, <1>2, <1>8 DEF Alone, Directs
  <2>2. step[<<v, i>>] \in V
    <3> HIDE DEF step, V
    <3> QED BY <1>6
  <2>3. StackOf(StackOf(v, BranchBlocks[text[i]], i), BranchBlocks[text[j]], j) =
          StackOf(v, BranchBlocks[text[j]], j)
    BY <2>1, LoneTwice
  <2> HIDE DEF step, V
  <2> QED BY <1>5, <2>2, <2>3
<1>10. Absorbs(n, d, V, step)
  <2> HIDE DEF step, V, d
  <2> QED BY <1>8 DEF Absorbs
<1>9. r[n] = s[n]
  <2>1. s \in [0..n -> V] /\ p \in [0..n -> Seq(SavesOf(V))] /\ Replays(n, d, s, p, step)
    OBVIOUS
  <2>2. Followed(n, d, L, V, step, s, p, r)
    <3> HIDE DEF d, step, V, r
    <3> QED BY <1>1, <1>4, <1>6, <1>7, <1>10, <1>11, <2>1 DEF Followed
  <2> HIDE DEF d, step, V, r
  <2> QED BY <2>2, ReplayCounts
<1> QED BY <1>0, <1>3, <1>9

-------------------------------------------------------------------------------
LEMMA DirectiveTyped ==
  ASSUME NEW V, <<>> \in V, NEW v \in V, NEW q \in Seq(SavesOf(V)), NEW x
  PROVE  /\ Conditionals!UpdatePreprocessor(v, q, x).stack \in V
         /\ Conditionals!UpdatePreprocessor(v, q, x).pp \in Seq(SavesOf(V))
<1> DEFINE now == Conditionals!UpdatePreprocessor(v, q, x)
           new == [beforeIf |-> v, beforeElse |-> <<>>, seenElse |-> FALSE]
<1>1. new \in SavesOf(V)
  BY DEF SavesOf
<1>2. Append(q, new) \in Seq(SavesOf(V))
  <2> HIDE DEF new
  <2> QED BY <1>1
<1>3. CASE x = "if"
  <2>1. now = [stack |-> v, pp |-> Append(q, new)]
    BY <1>3 DEF Conditionals!UpdatePreprocessor
  <2> HIDE DEF now, new
  <2> QED BY <1>2, <2>1 DEF now
<1>4. CASE x = "else" /\ q # <<>>
  <2> DEFINE top == q[Len(q)]
             more == IF top.seenElse THEN top ELSE [top EXCEPT !.seenElse = TRUE, !.beforeElse = v]
  <2>1. Len(q) \in 1..Len(q) /\ top \in SavesOf(V)
    BY <1>4
  <2>2. more \in SavesOf(V) /\ top.beforeIf \in V
    BY <2>1 DEF SavesOf
  <2>3. now = [stack |-> top.beforeIf, pp |-> [q EXCEPT ![Len(q)] = more]]
    BY <1>4 DEF Conditionals!UpdatePreprocessor, Conditionals!Last, Conditionals!SetTop
  <2> HIDE DEF now, top, more
  <2>4. [q EXCEPT ![Len(q)] = more] \in Seq(SavesOf(V))
    BY <2>1, <2>2, ExceptSeq
  <2> QED BY <2>2, <2>3, <2>4 DEF now
<1>5. CASE x = "endif" /\ q # <<>>
  <2>1. Len(q) \in 1..Len(q) /\ q[Len(q)] \in SavesOf(V)
    BY <1>5
  <2>2. Conditionals!Front(q) \in Seq(SavesOf(V))
    BY <1>5, <2>1 DEF Conditionals!Front
  <2>3. now = [stack |-> IF q[Len(q)].seenElse THEN q[Len(q)].beforeElse ELSE v,
               pp |-> Conditionals!Front(q)]
    BY <1>5 DEF Conditionals!UpdatePreprocessor, Conditionals!Last
  <2>4. (IF q[Len(q)].seenElse THEN q[Len(q)].beforeElse ELSE v) \in V
    BY <2>1 DEF SavesOf
  <2> HIDE DEF now
  <2> QED BY <2>2, <2>3, <2>4 DEF now
<1>6. CASE ~(x = "if" \/ (x = "else" /\ q # <<>>) \/ (x = "endif" /\ q # <<>>))
  <2>1. now = [stack |-> v, pp |-> q]
    BY <1>6 DEF Conditionals!UpdatePreprocessor
  <2> HIDE DEF now
  <2> QED BY <2>1 DEF now
<1> QED BY <1>3, <1>4, <1>5, <1>6

\* The stacks after each line of the file f, and what is saved of them.
ReadAs(s, p, f) ==
  /\ s[0] = <<>> /\ p[0] = <<>>
  /\ \A i \in 1..Len(f) :
       LET pre == Conditionals!UpdatePreprocessor(s[i - 1], p[i - 1], BranchBlocks[f[i]].directive) IN
       s[i] = StackOf(pre.stack, BranchBlocks[f[i]], i) /\ p[i] = pre.pp

Saved == Seq(SavesOf(Seq(Blocks)))

\* The stack is what the lines read have made of it.
ReplayInv ==
  /\ text \in Seq(BranchMenu)
  /\ [stack |-> stack, closed |-> closed, stray |-> stray] \in Marked
  /\ \E s \in [0..Len(text) -> Seq(Blocks)], p \in [0..Len(text) -> Saved] :
       ReadAs(s, p, text) /\ stack = s[Len(text)] /\ ppStack = p[Len(text)]

LEMMA ReplayTyped ==
  ASSUME Conditionals!NestingAssumption, Conditionals!DirectivesAlone, text \in Seq(BranchMenu)
  PROVE  Read(Len(text)) /\ Alone(Len(text))
<1>1. Len(text) \in Nat /\ DOMAIN text = 1..Len(text) /\ \A i \in 1..Len(text) : text[i] \in BranchMenu
  BY LenProperties, ElementOfSeq
<1>2. Read(Len(text))
  BY <1>1 DEF Read, Conditionals!NestingAssumption
<1>3. Alone(Len(text))
  BY <1>1 DEF Alone, Lone, Conditionals!NestingAssumption, Conditionals!DirectivesAlone,
    Conditionals!Directive
<1> QED BY <1>2, <1>3

LEMMA ReplayShows ==
  ASSUME Conditionals!NestingAssumption, Conditionals!DirectivesAlone, ReplayInv
  PROVE  Conditionals!PreprocessorTransparent
<1> DEFINE n == Len(text)
<1>1. Read(n) /\ Alone(n) /\ n \in Nat
  BY ReplayTyped, LenProperties DEF ReplayInv
<1>2. PICK s \in [0..n -> Seq(Blocks)], p \in [0..n -> Saved] :
        ReadAs(s, p, text) /\ stack = s[n] /\ ppStack = p[n]
  BY DEF ReplayInv
<1> HIDE DEF n
<1>3. ASSUME NEW i \in 1..n
      PROVE  LET pre == Conditionals!UpdatePreprocessor(s[i - 1], p[i - 1], DirectivesTo(n)[i]) IN
             s[i] = LineStep(n)[<<pre.stack, i>>] /\ p[i] = pre.pp
  <2> DEFINE pre == Conditionals!UpdatePreprocessor(s[i - 1], p[i - 1], DirectivesTo(n)[i])
  <2>1. i - 1 \in 0..n /\ s[i - 1] \in Seq(Blocks) /\ p[i - 1] \in Saved /\ <<>> \in Seq(Blocks)
    <3>1. i - 1 \in 0..n
      BY <1>1
    <3> QED BY <1>2, <3>1
  <2>2. pre.stack \in Seq(Blocks)
    BY <2>1, DirectiveTyped DEF Saved
  <2>3. DirectivesTo(n)[i] = BranchBlocks[text[i]].directive
    BY DEF DirectivesTo, Conditionals!Directive
  <2>4. s[i] = StackOf(pre.stack, BranchBlocks[text[i]], i) /\ p[i] = pre.pp
    BY <1>2, <2>3 DEF ReadAs, n
  <2>5. LineStep(n)[<<pre.stack, i>>] = StackOf(pre.stack, BranchBlocks[text[i]], i)
    <3> HIDE DEF pre
    <3> QED BY <1>1, <2>2, LineStepTyped
  <2> QED BY <2>4, <2>5
<1>4. Replays(n, DirectivesTo(n), s, p, LineStep(n))
  BY <1>2, <1>3 DEF Replays, ReadAs
<1>5. s \in [0..n -> Seq(Blocks)] /\ p \in [0..n -> Seq(SavesOf(Seq(Blocks)))]
  BY DEF Saved
<1> QED BY <1>1, <1>2, <1>4, <1>5, ReplayTransparent

LEMMA ReplayInit == Conditionals!Init => ReplayInv
<1> SUFFICES ASSUME Conditionals!Init PROVE ReplayInv
  OBVIOUS
<1>1. text = <<>> /\ stack = <<>> /\ ppStack = <<>> /\ closed = {} /\ stray = FALSE
  BY DEF Conditionals!Init
<1> DEFINE s == [i \in 0..0 |-> <<>>]
<1>2. Len(text) = 0 /\ s \in [0..0 -> Seq(Blocks)] /\ s \in [0..0 -> Saved] /\ s[0] = <<>>
  BY <1>1 DEF Saved
<1>3. ReadAs(s, s, text)
  BY <1>2 DEF ReadAs
<1>4. [stack |-> stack, closed |-> closed, stray |-> stray] \in Marked
  <2>1. <<>> \in Seq(Blocks)
    OBVIOUS
  <2>2. Bare(<<>>) \in Marked
    BY <2>1, BareMarked
  <2> QED BY <1>1, <2>2 DEF Bare
<1> HIDE DEF s
<1> QED BY <1>1, <1>2, <1>3, <1>4 DEF ReplayInv

LEMMA ReplayRead ==
  ASSUME Conditionals!NestingAssumption, ReplayInv, NEW kind \in BranchMenu, Conditionals!ReadLine(kind)
  PROVE  ReplayInv'
<1> DEFINE n == Len(text)
           V == Seq(Blocks)
<1>1. PICK s \in [0..n -> V], p \in [0..n -> Saved] :
        ReadAs(s, p, text) /\ stack = s[n] /\ ppStack = p[n]
  BY DEF ReplayInv
<1>2. PICK l \in Conditionals!LinesSeen : l = BranchBlocks[kind]
  BY DEF Conditionals!NestingAssumption
<1>3. PICK pre : pre = Conditionals!UpdatePreprocessor(stack, ppStack, l.directive)
  OBVIOUS
<1> DEFINE m == [stack |-> pre.stack, closed |-> closed, stray |-> stray]
           now == Conditionals!UpdateBlocks(m, l, n + 1)
<1>4. /\ text' = Append(text, kind) /\ ppStack' = pre.pp
      /\ stack' = now.stack /\ closed' = now.closed /\ stray' = now.stray
  BY <1>2, <1>3 DEF Conditionals!ReadLine
<1>5. /\ text \in Seq(BranchMenu) /\ n \in Nat /\ n + 1 \in Nat /\ n \in 0..n /\ <<>> \in V
  BY LenProperties DEF ReplayInv
<1>6. /\ text' \in Seq(BranchMenu) /\ Len(text') = n + 1 /\ text'[n + 1] = kind
      /\ \A i \in 1..n : text'[i] = text[i]
  BY <1>4, <1>5
<1>7. pre.stack \in V /\ pre.pp \in Saved
  <2>1. stack \in V /\ ppStack \in Saved
    <3> HIDE DEF V, n
    <3> QED BY <1>1, <1>5
  <2> QED BY <1>3, <1>5, <2>1, DirectiveTyped DEF Saved
<1>8. m \in Marked /\ m.stack = pre.stack
  <2>1. closed \in SUBSET ((Nat \X Nat) \X (Nat \X Nat)) /\ stray \in BOOLEAN
    BY DEF ReplayInv, Marked
  <2> QED BY <1>7, <2>1 DEF Marked
<1> HIDE DEF m
<1>9. now \in Marked /\ now.stack = StackOf(pre.stack, l, n + 1)
  <2> HIDE DEF n
  <2> QED BY <1>5, <1>8, OnlyStack
<1> HIDE DEF now
<1>10. [stack |-> stack, closed |-> closed, stray |-> stray]' \in Marked /\ stack' \in V
  BY <1>4, <1>9 DEF Marked
<1> DEFINE s1 == [i \in 0..(n + 1) |-> IF i = n + 1 THEN stack' ELSE s[i]]
           p1 == [i \in 0..(n + 1) |-> IF i = n + 1 THEN ppStack' ELSE p[i]]
<1>11. s1 \in [0..(n + 1) -> V] /\ p1 \in [0..(n + 1) -> Saved]
  <2> HIDE DEF V, n
  <2> QED BY <1>4, <1>5, <1>7, <1>10
<1>12. /\ s1[n + 1] = stack' /\ p1[n + 1] = ppStack' /\ s1[0] = s[0] /\ p1[0] = p[0]
       /\ \A i \in 1..n : s1[i] = s[i] /\ p1[i] = p[i] /\ s1[i - 1] = s[i - 1] /\ p1[i - 1] = p[i - 1]
       /\ s1[n] = stack /\ p1[n] = ppStack
  <2> HIDE DEF n
  <2> QED BY <1>1, <1>5
<1> HIDE DEF s1, p1
<1>13. ASSUME NEW i \in 1..(n + 1)
       PROVE  LET was == Conditionals!UpdatePreprocessor(s1[i - 1], p1[i - 1],
                                                         BranchBlocks[text'[i]].directive) IN
              s1[i] = StackOf(was.stack, BranchBlocks[text'[i]], i) /\ p1[i] = was.pp
  <2>1. CASE i = n + 1
    <3>1. s1[i - 1] = stack /\ p1[i - 1] = ppStack /\ text'[i] = kind
      <4>1. i - 1 = n
        BY <1>5, <2>1
      <4> QED BY <1>6, <1>12, <2>1, <4>1
    <3>2. s1[i] = StackOf(pre.stack, l, i) /\ p1[i] = pre.pp
      BY <1>4, <1>9, <1>12, <2>1
    <3> QED BY <1>2, <1>3, <3>1, <3>2
  <2>2. CASE i \in 1..n
    <3>1. s1[i] = s[i] /\ p1[i] = p[i] /\ s1[i - 1] = s[i - 1] /\ p1[i - 1] = p[i - 1]
      BY <1>12, <2>2
    <3>2. text'[i] = text[i]
      BY <1>6, <2>2
    <3> QED BY <1>1, <2>2, <3>1, <3>2 DEF ReadAs
  <2> QED BY <1>5, <2>1, <2>2
<1>14. ReadAs(s1, p1, text')
  <2>1. s1[0] = <<>> /\ p1[0] = <<>>
    BY <1>1, <1>12 DEF ReadAs
  <2> HIDE DEF n
  <2> QED BY <1>6, <1>13, <2>1 DEF ReadAs
<1>15. \E s2 \in [0..(n + 1) -> V], p2 \in [0..(n + 1) -> Saved] :
         ReadAs(s2, p2, text') /\ stack' = s2[n + 1] /\ ppStack' = p2[n + 1]
  <2> HIDE DEF V, n
  <2> QED BY <1>11, <1>12, <1>14
<1> HIDE DEF n
<1> QED BY <1>6, <1>10, <1>15 DEF ReplayInv

LEMMA ReplayNext ==
  ASSUME Conditionals!NestingAssumption, ReplayInv, [Conditionals!Next]_(Conditionals!vars)
  PROVE  ReplayInv'
<1>1. ASSUME NEW kind \in BranchMenu, Conditionals!ReadLine(kind) PROVE ReplayInv'
  BY <1>1, ReplayRead
<1>2. ASSUME UNCHANGED <<text, stack, ppStack, closed, stray>> PROVE ReplayInv'
  BY <1>2 DEF ReplayInv
<1> QED
  BY <1>1, <1>2 DEF Conditionals!Next, Conditionals!CheckCompletedBlocks, Conditionals!vars,
    Conditionals!nesting

\* Whatever the conditionals of a file and however they are nested, the stack at
\* its end is the one the lines of the first branches alone would have produced
\* (UpdatePreprocessor's saved stacks, taken back at #else and at #endif).
THEOREM StackOfFirstBranches == TextSpec => []PreprocessorTransparent
<1>1. Conditionals!NestingAssumption /\ Conditionals!DirectivesAlone
  BY LintTextAssumption
<1>2. Conditionals!Init => ReplayInv
  BY ReplayInit
<1>3. ReplayInv => Conditionals!PreprocessorTransparent
  BY <1>1, ReplayShows
<1>4. ReplayInv /\ [Conditionals!Next]_(Conditionals!vars) => ReplayInv'
  BY <1>1, ReplayNext
<1>5. [TextNext]_textVars => (what = "conditionals" <=> (what = "conditionals")')
  BY OneCheck
<1>6. PreprocessorTransparent <=> (what = "conditionals" => Conditionals!PreprocessorTransparent)
  BY DEF PreprocessorTransparent
<1> QED BY <1>2, <1>3, <1>4, <1>5, <1>6, ConditionalsBehaviour, PTL DEF TextSpec
===============================================================================
