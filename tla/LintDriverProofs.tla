---------------------------- MODULE LintDriverProofs ----------------------------
(***************************************************************************)
(* The linter's driver: for every command line, every CPPLINT.cfg and      *)
(* whatever the checks find in the files, main's exit status, the total    *)
(* and the counts by category are those of the errors that were printed,   *)
(* and what is printed of a file depends on that file alone.               *)
(***************************************************************************)
EXTENDS LintDriver, FoldFacts, FiniteSetTheorems, SequenceTheorems, TLAPS

ReadPcs == {"noguard", "ifndef", "endif", "lines"}
InFile == {"config", "filters", "open"} \cup ReadPcs

\* The files to go, and the line of the file being processed.
Reading ==
  /\ todo \in Seq(DOMAIN FileOf) /\ (pc \in InFile => todo # <<>>)
  /\ at \in Nat /\ (pc \in ReadPcs => at >= 1)

\* The counters are those of what is printed; nothing is before the command
\* line has told how to count.
Tallied ==
  /\ \E S : report \in Seq(S)
  /\ IsFiniteSet(Printed) /\ errorCount = Cardinality(Printed)
  /\ counting # "total" =>
       /\ DOMAIN byCategory = {KeyAt(p) : p \in Printed}
       /\ \A k \in DOMAIN byCategory : byCategory[k] = Cardinality({p \in Printed : KeyAt(p) = k})
  /\ pc = "args" => Printed = {} /\ DOMAIN byCategory = {}

Status == pc \in {"exit0", "exit1"} => (pc = "exit1" <=> Printed # {})

CountsInv == Reading /\ Tallied /\ Status

-------------------------------------------------------------------------------
\* Every step finds a finite number of errors.
LEMMA Concatenated ==
  ASSUME NEW s \in Seq(Findings), NEW t \in Seq(Findings)
  PROVE  s \o t \in Seq(Findings)
BY ConcatProperties

LEMMA FiniteErrors ==
  ASSUME NEW s \in Seq(Findings) PROVE IsFiniteSet(DOMAIN s)
<1>1. Len(s) \in Nat /\ DOMAIN s = 1..Len(s)
  BY LenProperties
<1> QED BY <1>1, FS_Interval

LEMMA OneError ==
  ASSUME NEW n \in Nat, NEW c \in Known, NEW lvl \in 0..5
  PROVE  <<Err(n, c, lvl)>> \in Seq(Findings) /\ <<>> \in Seq(Findings)
<1>1. Err(n, c, lvl) \in Findings
  BY DEF Err, Findings
<1> QED BY <1>1, EmptySeq

LEMMA FileTyped ==
  ASSUME Reading, pc \in InFile
  PROVE  /\ Cur.opencomment \in Nat /\ Cur.guard.ifndef \in Nat /\ Cur.guard.endif \in Nat
         /\ Cur.after \in Seq(Findings) /\ Cur.crlf \in Seq(Nat)
         /\ \A n \in 1..Len(Cur.lines) : Cur.lines[n].finds \in Seq(Findings)
<1>1. Head(todo) \in DOMAIN FileOf
  BY HeadTailProperties DEF Reading
<1>2. Cur \in Range(FileOf)
  BY <1>1 DEF Cur, Range
<1>3. Cur.lines \in Seq(Range(Cur.lines))
  BY <1>2, LintAssumption
<1>4. \A n \in 1..Len(Cur.lines) : Cur.lines[n] \in Range(Cur.lines)
  BY <1>3, ElementOfSeq
<1> QED BY <1>2, <1>4, LintAssumption

LEMMA UnknownTyped ==
  ASSUME NEW f, NEW n \in Nat PROVE UnknownNolint(f, n) \in Seq(Findings)
<1>1. <<"readability", "/nolint">> \in Known
  BY LintAssumption
<1> QED BY <1>1, OneError DEF UnknownNolint

LEMMA StyleTyped ==
  ASSUME NEW n \in Nat, NEW style PROVE StyleErrors(n, style) \in Seq(Findings)
<1>1. <<"build", "/header_guard">> \in Known
  BY LintAssumption
<1>2. \A lvl \in 0..5 : <<Err(n, <<"build", "/header_guard">>, lvl)>> \in Seq(Findings)
  BY <1>1, OneError
<1>3. <<>> \in Seq(Findings)
  BY EmptySeq
<1> QED BY <1>2, <1>3 DEF StyleErrors

LEMMA FirstTyped ==
  ASSUME Reading, pc \in InFile PROVE FirstErrors(Cur) \in Seq(Findings)
<1>1. <<"legal", "/copyright">> \in Known /\ <<"readability", "/multiline_comment">> \in Known
  BY LintAssumption
<1> DEFINE copyright == IF Cur.copyright THEN <<>> ELSE <<Err(0, <<"legal", "/copyright">>, 5)>>
           comment == IF Cur.opencomment = 0 THEN <<>>
                      ELSE <<Err(Cur.opencomment, <<"readability", "/multiline_comment">>, 5)>>
<1>2. copyright \in Seq(Findings) /\ comment \in Seq(Findings)
  BY <1>1, FileTyped, OneError
<1>3. FirstErrors(Cur) = copyright \o comment
  BY DEF FirstErrors
<1> HIDE DEF copyright, comment
<1> QED BY <1>2, <1>3, Concatenated

LEMMA GuardTyped ==
  ASSUME Reading, pc \in InFile
  PROVE  /\ NoGuardErrors \in Seq(Findings)
         /\ IfndefErrors(Cur) \in Seq(Findings) /\ EndifErrors(Cur) \in Seq(Findings)
<1>1. NoGuardErrors \in Seq(Findings)
  BY StyleTyped DEF NoGuardErrors
<1>2. ASSUME NEW n \in Nat, NEW style
      PROVE  UnknownNolint(Cur, n) \o StyleErrors(n, style) \in Seq(Findings)
  BY UnknownTyped, StyleTyped, Concatenated
<1>3. Cur.guard.ifndef \in Nat /\ Cur.guard.endif \in Nat
  BY FileTyped
<1>4. IfndefErrors(Cur) \in Seq(Findings)
  BY <1>2, <1>3, Zenon DEF IfndefErrors
<1>5. EndifErrors(Cur) \in Seq(Findings)
  BY <1>2, <1>3, Zenon DEF EndifErrors
<1> QED BY <1>1, <1>4, <1>5

LEMMA LineTyped ==
  ASSUME Reading, pc \in InFile, NEW n \in Nat, n >= 1, n <= Len(Cur.lines)
  PROVE  LineErrors(Cur, n) \in Seq(Findings)
<1>1. <<"whitespace", "/line_length">> \in Known
  BY LintAssumption
<1>2. n \in 1..Len(Cur.lines)
  <2>1. Head(todo) \in DOMAIN FileOf
    BY HeadTailProperties DEF Reading
  <2>2. Len(Cur.lines) \in Nat
    BY <2>1, LintAssumption, LenProperties DEF Cur, Range
  <2> QED BY <2>2
<1> DEFINE finds == Cur.lines[n].finds
           long == IF ~Cur.lines[n].asm /\ Cur.lines[n].width > settings.linelength
                   THEN <<Err(n, <<"whitespace", "/line_length">>, 2)>> ELSE <<>>
<1>3. finds \in Seq(Findings)
  BY <1>2, FileTyped
<1>4. long \in Seq(Findings)
  BY <1>1, OneError
<1>5. UnknownNolint(Cur, n) \in Seq(Findings)
  BY UnknownTyped
<1>6. LineErrors(Cur, n) = (UnknownNolint(Cur, n) \o finds) \o long
  BY DEF LineErrors
<1> HIDE DEF finds, long
<1> QED BY <1>3, <1>4, <1>5, <1>6, Concatenated

LEMMA LastTyped ==
  ASSUME Reading, pc \in InFile PROVE LastErrors(Cur) \in Seq(Findings)
<1>1. Cur.after \in Seq(Findings) /\ Cur.crlf \in Seq(Nat)
  BY FileTyped
<1>2. CrlfErrors(Cur) \in Seq(Findings)
  <2>1. <<>> \in Seq(Findings)
    BY EmptySeq
  <2>2. <<"whitespace", "/newline">> \in Known
    BY LintAssumption
  <2>3. /\ Len(Cur.crlf) \in Nat /\ DOMAIN Cur.crlf = 1..Len(Cur.crlf)
        /\ \A i \in DOMAIN Cur.crlf : Cur.crlf[i] \in Nat
    BY <1>1, LenProperties, ElementOfSeq
  <2>4. \A i \in DOMAIN Cur.crlf : Err(Cur.crlf[i], <<"whitespace", "/newline">>, 1) \in Findings
    BY <2>2, <2>3 DEF Err, Findings
  <2>5. [i \in DOMAIN Cur.crlf |-> Err(Cur.crlf[i], <<"whitespace", "/newline">>, 1)]
          \in Seq(Findings)
    BY <2>3, <2>4
  <2> QED BY <2>1, <2>5 DEF CrlfErrors
<1> QED BY <1>1, <1>2, Concatenated DEF LastErrors

-------------------------------------------------------------------------------
\* Places of one more step's errors, and how many of them there are.
LEMMA PlacesCounted ==
  ASSUME NEW n, NEW D, IsFiniteSet(D)
  PROVE  IsFiniteSet({n} \X D) /\ Cardinality({n} \X D) = Cardinality(D)
<1>1. IsFiniteSet({n}) /\ Cardinality({n}) = 1
  BY FS_Singleton
<1>2. IsFiniteSet({n} \X D) /\ Cardinality({n} \X D) = 1 * Cardinality(D)
  BY <1>1, FS_Product
<1>3. Cardinality(D) \in Nat
  BY FS_CardinalityType
<1> QED BY <1>2, <1>3

LEMMA DisjointCounted ==
  ASSUME NEW S, NEW T, IsFiniteSet(S), IsFiniteSet(T), S \cap T = {}
  PROVE  /\ IsFiniteSet(S \cup T) /\ Cardinality(S \cup T) = Cardinality(S) + Cardinality(T)
         /\ Cardinality(S) \in Nat /\ Cardinality(T) \in Nat
<1>1. Cardinality(S \cap T) = 0
  BY FS_EmptySet
<1>2. /\ IsFiniteSet(S \cup T)
      /\ Cardinality(S \cup T) = Cardinality(S) + Cardinality(T) - Cardinality(S \cap T)
  BY FS_Union
<1>3. Cardinality(S) \in Nat /\ Cardinality(T) \in Nat
  BY FS_CardinalityType
<1> QED BY <1>1, <1>2, <1>3

\* Error keeps the counters those of the report.
LEMMA ErrorTallied ==
  ASSUME Tallied, NEW errs, NEW s, NEW g, IsFiniteSet(DOMAIN errs), Error(errs, s, g),
         counting' = counting, pc # "args", pc' # "args"
  PROVE  Tallied'
<1> DEFINE shown == Shown(errs, s, g)
           n == Len(report) + 1
           new == {n} \X DOMAIN shown
<1>1. PICK S : report \in Seq(S)
  BY DEF Tallied
<1>2. /\ report' = Append(report, [file |-> Head(todo), errors |-> shown])
      /\ errorCount' = errorCount + Cardinality(DOMAIN shown)
      /\ byCategory' = IF counting = "total" THEN byCategory ELSE Bump(byCategory, shown)
  BY DEF Error
<1>3. IsFiniteSet(DOMAIN shown)
  <2>1. DOMAIN shown \subseteq DOMAIN errs
    BY DEF Shown
  <2> QED BY <2>1, FS_Subset
<1> HIDE DEF shown
<1>4. /\ Len(report) \in Nat /\ DOMAIN report = 1..Len(report)
      /\ DOMAIN report' = DOMAIN report \cup {n} /\ n \notin DOMAIN report
      /\ \A b \in DOMAIN report : report'[b] = report[b]
      /\ report'[n].errors = shown
      /\ \E T : report' \in Seq(T)
  <2> DEFINE r == [file |-> Head(todo), errors |-> shown]
             T == S \cup {r}
  <2>1. report \in Seq(T) /\ r \in T
    BY <1>1, SeqMonotonic
  <2>2. r.errors = shown
    OBVIOUS
  <2> HIDE DEF r, T
  <2>3. /\ Append(report, r) \in Seq(T) /\ Len(Append(report, r)) = Len(report) + 1
        /\ \A b \in 1..Len(report) : Append(report, r)[b] = report[b]
        /\ Append(report, r)[Len(report) + 1] = r
    BY <2>1, AppendProperties
  <2>4. /\ Len(report) \in Nat /\ DOMAIN report = 1..Len(report)
        /\ DOMAIN Append(report, r) = 1..(Len(report) + 1)
    BY <2>1, <2>3, LenProperties
  <2>5. report' = Append(report, r)
    BY <1>2 DEF r
  <2> QED BY <2>2, <2>3, <2>4, <2>5
<1>5. Printed' = Printed \cup new /\ Printed \cap new = {}
  BY <1>4 DEF Printed
<1>6. \A p \in Printed : KeyAt(p)' = KeyAt(p)
  <2>1. ASSUME NEW p \in Printed PROVE report'[p[1]] = report[p[1]]
    BY <1>4 DEF Printed
  <2> QED BY <2>1 DEF KeyAt, Key
<1>7. ASSUME NEW i \in DOMAIN shown, NEW p, p = <<n, i>> PROVE KeyAt(p)' = Key(shown[i].cat)
  BY <1>4, <1>7 DEF KeyAt, Key
<1>8. \A p \in new : \E i \in DOMAIN shown : p = <<n, i>>
  OBVIOUS
<1>9. IsFiniteSet(Printed') /\ errorCount' = Cardinality(Printed')
  <2>1. IsFiniteSet(new) /\ Cardinality(new) = Cardinality(DOMAIN shown)
    BY <1>3, PlacesCounted
  <2>2. IsFiniteSet(Printed) /\ errorCount = Cardinality(Printed)
    BY DEF Tallied
  <2> HIDE DEF new
  <2> QED BY <1>2, <1>5, <2>1, <2>2, DisjointCounted
<1>10. ASSUME counting # "total" PROVE DOMAIN byCategory' = {KeyAt(p)' : p \in Printed'}
  <2>1. DOMAIN byCategory' = {KeyAt(p) : p \in Printed} \cup Keys(shown)
    BY <1>2, <1>10 DEF Tallied, Bump
  <2>2. {KeyAt(p)' : p \in Printed} = {KeyAt(p) : p \in Printed}
    BY <1>6
  <2>3. {KeyAt(p)' : p \in new} = Keys(shown)
    <3>1. \A p \in new : KeyAt(p)' \in Keys(shown)
      BY <1>7, <1>8 DEF Keys
    <3>2. ASSUME NEW i \in DOMAIN shown PROVE \E p \in new : KeyAt(p)' = Key(shown[i].cat)
      <4>1. <<n, i>> \in new
        BY <3>2
      <4> QED BY <1>7, <4>1
    <3> HIDE DEF new
    <3> QED BY <3>1, <3>2 DEF Keys
  <2> HIDE DEF new
  <2> QED BY <1>5, <2>1, <2>2, <2>3
<1>11. ASSUME counting # "total", NEW k \in DOMAIN byCategory'
       PROVE  byCategory'[k] = Cardinality({p \in Printed' : KeyAt(p)' = k})
  <2> DEFINE those == {p \in Printed : KeyAt(p) = k}
             here == {i \in DOMAIN shown : Key(shown[i].cat) = k}
  <2>1. {p \in Printed' : KeyAt(p)' = k} = those \cup ({n} \X here)
    <3>1. {p \in Printed : KeyAt(p)' = k} = those
      BY <1>6
    <3>2. {p \in new : KeyAt(p)' = k} = {n} \X here
      BY <1>7, <1>8
    <3> HIDE DEF new, those, here
    <3> QED BY <1>5, <3>1, <3>2
  <2>2. those \cap ({n} \X here) = {}
    <3>1. {n} \X here \subseteq new
      OBVIOUS
    <3> HIDE DEF new
    <3> QED BY <1>5, <3>1
  <2>3. IsFiniteSet(those) /\ IsFiniteSet(here)
    BY <1>3, FS_Subset DEF Tallied
  <2>4. Cardinality({p \in Printed' : KeyAt(p)' = k}) = Cardinality(those) + Cardinality(here)
    <3> DEFINE added == {n} \X here
    <3> HIDE DEF those, here
    <3>1. IsFiniteSet(added) /\ Cardinality(added) = Cardinality(here)
      BY <2>3, PlacesCounted
    <3>2. those \cap added = {} /\ {p \in Printed' : KeyAt(p)' = k} = those \cup added
      BY <2>1, <2>2
    <3> HIDE DEF added
    <3>3. Cardinality(those \cup added) = Cardinality(those) + Cardinality(added)
      BY <2>3, <3>1, <3>2, DisjointCounted
    <3> QED BY <3>1, <3>2, <3>3
  <2>5. Share(shown, k) = Cardinality(here)
    BY DEF Share
  <2>6. byCategory'[k] = (IF k \in DOMAIN byCategory THEN byCategory[k] ELSE 0) + Share(shown, k)
    BY <1>2, <1>11 DEF Bump
  <2>7. CASE k \in DOMAIN byCategory
    <3>1. byCategory[k] = Cardinality(those)
      BY <1>11, <2>7 DEF Tallied
    <3> HIDE DEF those, here
    <3> QED BY <2>4, <2>5, <2>6, <2>7, <3>1
  <2>8. CASE k \notin DOMAIN byCategory
    <3>1. those = {}
      BY <1>11, <2>8 DEF Tallied
    <3>2. Cardinality(those) = 0
      BY <3>1, FS_EmptySet
    <3> HIDE DEF those, here
    <3> QED BY <2>4, <2>5, <2>6, <2>8, <3>2
  <2> QED BY <2>7, <2>8
<1> HIDE DEF new
<1> QED BY <1>4, <1>9, <1>10, <1>11 DEF Tallied

-------------------------------------------------------------------------------
LEMMA NothingPrinted ==
  ASSUME report = <<>> PROVE Printed = {} /\ IsFiniteSet(Printed) /\ Cardinality(Printed) = 0
<1>1. Printed = {}
  BY DEF Printed
<1> QED BY <1>1, FS_EmptySet

LEMMA InitCounts == ASSUME Init PROVE CountsInv
<1>1. names \in Orders /\ todo = names /\ pc = "args" /\ at = 0
  BY DEF Init
<1>2. Reading
  BY <1>1, LintAssumption DEF Reading, InFile, ReadPcs
<1>3. Tallied
  <2>1. report = <<>> /\ errorCount = 0 /\ byCategory = [k \in {} |-> 0] /\ counting = "total"
    BY DEF Init
  <2>2. \E S : report \in Seq(S)
    BY <2>1, EmptySeq
  <2> QED BY <2>1, <2>2, NothingPrinted DEF Tallied
<1> QED BY <1>1, <1>2, <1>3 DEF CountsInv, Status

\* A step that prints nothing leaves the counters what they were.
LEMMA Unprinted ==
  ASSUME Tallied, UNCHANGED <<report, errorCount, byCategory, counting>>,
         pc' = "args" => pc = "args"
  PROVE  Tallied' /\ Printed' = Printed
<1>1. Printed' = Printed
  BY DEF Printed
<1>2. \A p : KeyAt(p)' = KeyAt(p)
  BY DEF KeyAt, Key
<1>3. {KeyAt(p)' : p \in Printed'} = {KeyAt(p) : p \in Printed}
  BY <1>1, <1>2
<1>4. \A k : {p \in Printed' : KeyAt(p)' = k} = {p \in Printed : KeyAt(p) = k}
  BY <1>1, <1>2
<1> QED BY <1>1, <1>3, <1>4 DEF Tallied

LEMMA FileLeft ==
  ASSUME Reading, pc \in InFile, RestoreFilters, at' = at PROVE Reading' /\ pc' = "next"
<1>1. todo' \in Seq(DOMAIN FileOf)
  BY HeadTailProperties DEF Reading, RestoreFilters
<1> QED BY <1>1 DEF Reading, RestoreFilters, Goto, InFile, ReadPcs

LEMMA NextCounts == ASSUME CountsInv, [Next]_vars PROVE CountsInv'
<1> USE DEF CountsInv
<1>1. CASE ParseArguments
  <2>1. Reading'
    BY <1>1 DEF ParseArguments, Reading, Goto, InFile, ReadPcs
  <2>2. /\ Printed = {} /\ DOMAIN byCategory = {} /\ pc' \in {"next", "crash"}
        /\ UNCHANGED <<report, errorCount, byCategory>>
    BY <1>1 DEF ParseArguments, Tallied, Goto, counts
  <2>3. Printed' = {}
    BY <2>2 DEF Printed
  <2>4. Tallied'
    <3>1. {KeyAt(p)' : p \in Printed'} = {}
      BY <2>3
    <3>2. Cardinality(Printed') = Cardinality(Printed) /\ IsFiniteSet(Printed')
      BY <2>2, <2>3, FS_EmptySet
    <3> QED BY <2>2, <2>3, <3>1, <3>2 DEF Tallied
  <2> QED BY <2>1, <2>2, <2>4 DEF Status
<1>2. CASE ProcessFile
  <2>1. Reading' /\ pc' = "config"
    BY <1>2 DEF ProcessFile, Reading, Goto, InFile, ReadPcs
  <2>2. Tallied'
    BY <1>2, <2>1, Unprinted DEF ProcessFile, counts
  <2> QED BY <2>1, <2>2 DEF Status
<1>3. CASE ProcessConfigOverrides
  <2>1. pc = "config" /\ UNCHANGED <<at, counting, counts>>
    BY <1>3 DEF ProcessConfigOverrides
  <2>2. \/ RestoreFilters
        \/ pc' \in {"config", "filters"} /\ UNCHANGED <<fvars, todo>>
    BY <1>3 DEF ProcessConfigOverrides, Goto
  <2>3. Reading' /\ pc' \in {"next", "config", "filters"}
    BY <2>1, <2>2, FileLeft DEF Reading, InFile, ReadPcs
  <2>4. Tallied'
    BY <2>1, <2>3, Unprinted DEF counts
  <2> QED BY <2>3, <2>4 DEF Status
<1>4. CASE AddFilters
  <2>1. Reading' /\ pc' \in {"open", "crash"}
    BY <1>4 DEF AddFilters, Reading, Goto, InFile, ReadPcs
  <2>2. Tallied'
    BY <1>4, <2>1, Unprinted DEF AddFilters, counts
  <2> QED BY <2>1, <2>2 DEF Status
<1>5. CASE Skip
  <2>1. Reading' /\ pc' = "next"
    BY <1>5, FileLeft DEF Skip, InFile, ReadPcs
  <2>2. Tallied'
    BY <1>5, <2>1, Unprinted DEF Skip, counts
  <2> QED BY <2>1, <2>2 DEF Status
<1>6. CASE ProcessFileData
  <2>1. /\ pc = "open" /\ pc' = GuardStart(Cur) /\ at' = 1 /\ counting' = counting /\ todo' = todo
        /\ Error(FirstErrors(Cur), sup', globalSup')
    BY <1>6 DEF ProcessFileData, Goto
  <2>2. pc' \in {"noguard", "ifndef", "endif", "lines"}
    BY <2>1 DEF GuardStart
  <2>3. IsFiniteSet(DOMAIN FirstErrors(Cur))
    BY <2>1, FirstTyped, FiniteErrors DEF InFile, ReadPcs
  <2>4. Tallied'
    BY <2>1, <2>2, <2>3, ErrorTallied
  <2>5. Reading'
    BY <2>1, <2>2 DEF Reading, InFile, ReadPcs
  <2> QED BY <2>2, <2>4, <2>5 DEF Status
<1>7. CASE MissingGuard \/ CheckIfndef \/ CheckEndif
  <2>1. /\ pc \in {"noguard", "ifndef", "endif"} /\ pc' \in {"endif", "lines"}
        /\ UNCHANGED <<at, counting, todo>>
    BY <1>7 DEF MissingGuard, CheckIfndef, CheckEndif, ReadLine, Goto
  <2>2. /\ IsFiniteSet(DOMAIN NoGuardErrors) /\ IsFiniteSet(DOMAIN IfndefErrors(Cur))
        /\ IsFiniteSet(DOMAIN EndifErrors(Cur))
    BY <2>1, GuardTyped, FiniteErrors DEF InFile, ReadPcs
  <2>3. Tallied'
    <3>1. CASE MissingGuard
      <4>1. Error(NoGuardErrors, sup, globalSup)
        BY <3>1 DEF MissingGuard
      <4> QED BY <2>1, <2>2, <4>1, ErrorTallied
    <3>2. CASE CheckIfndef
      <4>1. Error(IfndefErrors(Cur), sup', globalSup)
        BY <3>2 DEF CheckIfndef, ReadLine
      <4> QED BY <2>1, <2>2, <4>1, ErrorTallied
    <3>3. CASE CheckEndif
      <4>1. Error(EndifErrors(Cur), sup', globalSup)
        BY <3>3 DEF CheckEndif, ReadLine
      <4> QED BY <2>1, <2>2, <4>1, ErrorTallied
    <3> QED BY <1>7, <3>1, <3>2, <3>3
  <2>4. at >= 1 /\ Reading'
    BY <2>1 DEF Reading, InFile, ReadPcs
  <2> QED BY <2>1, <2>3, <2>4 DEF Status
<1>8. CASE ProcessLine
  <2>1. /\ pc = "lines" /\ pc' = pc /\ at' = at + 1 /\ counting' = counting /\ todo' = todo
        /\ at <= Len(Cur.lines) /\ Error(LineErrors(Cur, at), sup', globalSup)
    BY <1>8 DEF ProcessLine, ReadLine
  <2>2. IsFiniteSet(DOMAIN LineErrors(Cur, at))
    BY <2>1, LineTyped, FiniteErrors DEF InFile, ReadPcs, Reading
  <2>3. Tallied'
    BY <2>1, <2>2, ErrorTallied
  <2>4. Reading'
    BY <2>1 DEF Reading, InFile, ReadPcs
  <2> QED BY <2>1, <2>3, <2>4 DEF Status
<1>9. CASE FinishFile
  <2>1. /\ pc = "lines" /\ at' = at /\ counting' = counting /\ RestoreFilters
        /\ Error(LastErrors(Cur), sup, globalSup)
    BY <1>9 DEF FinishFile
  <2>2. IsFiniteSet(DOMAIN LastErrors(Cur))
    BY <2>1, LastTyped, FiniteErrors DEF InFile, ReadPcs
  <2>3. Reading' /\ pc' = "next"
    BY <2>1, FileLeft DEF InFile, ReadPcs
  <2>4. Tallied'
    BY <2>1, <2>2, <2>3, ErrorTallied
  <2> QED BY <2>3, <2>4 DEF Status
<1>10. CASE Exit
  <2>1. /\ pc' = IF errorCount > 0 THEN "exit1" ELSE "exit0"
        /\ UNCHANGED <<todo, at, counting, counts>>
    BY <1>10 DEF Exit, Goto
  <2>2. Reading'
    BY <2>1 DEF Reading, InFile, ReadPcs
  <2>3. Tallied' /\ Printed' = Printed
    BY <2>1, Unprinted DEF counts
  <2>4. Cardinality(Printed) \in Nat /\ (Cardinality(Printed) = 0 <=> Printed = {})
    BY FS_CardinalityType, FS_EmptySet DEF Tallied
  <2>5. pc' = "exit1" <=> Printed # {}
    BY <2>1, <2>4 DEF Tallied
  <2> QED BY <2>2, <2>3, <2>5 DEF Status
<1>11. CASE UNCHANGED vars
  <2>1. UNCHANGED <<pc, todo, at, counting, report, errorCount, byCategory>>
    BY <1>11 DEF vars, counts
  <2>2. Reading'
    BY <2>1 DEF Reading
  <2>3. Tallied' /\ Printed' = Printed
    BY <2>1, Unprinted
  <2> QED BY <2>1, <2>2, <2>3 DEF Status
<1> QED BY <1>1, <1>2, <1>3, <1>4, <1>5, <1>6, <1>7, <1>8, <1>9, <1>10, <1>11 DEF Next

\* main's exit status says whether anything was printed, and the total and the
\* counts by category are those of the printed errors, at every step: no error
\* is counted twice, counted under another category or printed uncounted.
THEOREM CountersOfPrinted == Spec => []CountsAgree
<1>1. CountsInv => CountsAgree
  BY DEF CountsInv, Tallied, Status, CountsAgree
<1> QED BY <1>1, InitCounts, NextCounts, PTL DEF Spec

-------------------------------------------------------------------------------
(***************************************************************************)
(* What is printed of a file is what the documentation promises of that    *)
(* file alone.  First the folds: the last filter that matches decides,     *)
(* the last --filter counts, and a CPPLINT.cfg is read to its end.         *)
(***************************************************************************)

\* Whether a category is filtered, one filter after the other.
LEMMA FilteredSteps ==
  ASSUME NEW fs \in Seq(Rules), NEW cat
  PROVE  \E g : /\ ~g[0] /\ (Filtered(fs, cat) <=> g[Len(fs)])
                /\ \A k \in 1..Len(fs) :
                     g[k] <=> IF IsPrefix(fs[k].of, cat) THEN fs[k].sign = "-" ELSE g[k - 1]
<1> DEFINE step == [p \in BOOLEAN \X (1..Len(fs)) |->
                      IF IsPrefix(fs[p[2]].of, cat) THEN fs[p[2]].sign = "-" ELSE p[1]]
           body(it) == [s \in SUBSET DOMAIN fs |-> IF s = {} THEN FALSE
              ELSE IF IsPrefix(fs[Max(s)].of, cat) THEN fs[Max(s)].sign = "-" ELSE it[s \ {Max(s)}]]
           iter == CHOOSE it : it = body(it)
<1>1. Len(fs) \in Nat /\ DOMAIN fs = 1..Len(fs)
  BY LenProperties
<1>2. \E it : it = body(it)
  <2>1. step \in [BOOLEAN \X (1..Len(fs)) -> BOOLEAN]
    OBVIOUS
  <2>2. PICK it \in [SUBSET (1..Len(fs)) -> BOOLEAN] : FoldsWith(it, FALSE, Len(fs), step)
    <3>1. FALSE \in BOOLEAN
      OBVIOUS
    <3> HIDE DEF step
    <3> QED BY <1>1, <2>1, <3>1, FoldExists
  <2>3. ASSUME NEW s \in SUBSET (1..Len(fs)), s # {}
        PROVE  <<it[s \ {Max(s)}], Max(s)>> \in BOOLEAN \X (1..Len(fs))
    <3>1. Max(s) \in s
      BY <1>1, <2>3, MaxIn
    <3> QED BY <3>1
  <2>4. it = body(it)
    BY <1>1, <2>2, <2>3 DEF FoldsWith
  <2> HIDE DEF body
  <2> QED BY <2>4
<1>3. iter = body(iter)
  <2> HIDE DEF body
  <2> QED BY <1>2
<1>4. Filtered(fs, cat) = iter[DOMAIN fs]
  BY DEF Filtered, FoldLeft, MapThenFoldSet
<1> DEFINE g == [k \in 0..Len(fs) |-> iter[1..k]]
<1>5. \A s \in SUBSET DOMAIN fs : iter[s] = IF s = {} THEN FALSE
              ELSE IF IsPrefix(fs[Max(s)].of, cat) THEN fs[Max(s)].sign = "-" ELSE iter[s \ {Max(s)}]
  <2> HIDE DEF iter
  <2> QED BY <1>3, Zenon
<1> HIDE DEF iter
<1>6. ~g[0] /\ (Filtered(fs, cat) <=> g[Len(fs)])
  <2>1. iter[1..0] = FALSE
    <3>1. 1..0 = {} /\ {} \in SUBSET DOMAIN fs
      BY <1>1
    <3> QED BY <1>5, <3>1, Zenon
  <2>2. g[0] = iter[1..0] /\ g[Len(fs)] = iter[1..Len(fs)]
    BY <1>1
  <2> HIDE DEF g
  <2> QED BY <1>1, <1>4, <2>1, <2>2, Zenon
<1>7. ASSUME NEW k \in 1..Len(fs)
      PROVE  g[k] <=> IF IsPrefix(fs[k].of, cat) THEN fs[k].sign = "-" ELSE g[k - 1]
  <2>1. g[k] = iter[1..k] /\ g[k - 1] = iter[1..(k - 1)]
    BY <1>1
  <2> QED BY <1>1, <1>5, <2>1, PrefixPlaces
<1> HIDE DEF g
<1> QED BY <1>6, <1>7

\* A category is filtered by the last of the filters that it matches.
LEMMA FilteredByLast ==
  ASSUME NEW fs \in Seq(Rules), NEW cat
  PROVE  Filtered(fs, cat) <=> LastMatch(fs, cat) = "-"
<1> DEFINE hits(k) == {i \in 1..k : IsPrefix(fs[i].of, cat)}
           off(k) == IF hits(k) = {} THEN FALSE ELSE fs[Max(hits(k))].sign = "-"
<1>1. Len(fs) \in Nat /\ DOMAIN fs = 1..Len(fs)
  BY LenProperties
<1>2. PICK g : /\ ~g[0] /\ (Filtered(fs, cat) <=> g[Len(fs)])
               /\ \A k \in 1..Len(fs) :
                    g[k] <=> IF IsPrefix(fs[k].of, cat) THEN fs[k].sign = "-" ELSE g[k - 1]
  BY FilteredSteps
<1>3. ~off(0)
  OBVIOUS
<1>4. ASSUME NEW k \in 1..Len(fs)
      PROVE  off(k) <=> IF IsPrefix(fs[k].of, cat) THEN fs[k].sign = "-" ELSE off(k - 1)
  <2>1. CASE IsPrefix(fs[k].of, cat)
    <3>1. k \in hits(k) /\ \A i \in hits(k) : i <= k
      BY <2>1
    <3>2. Max(hits(k)) = k
      <4>1. hits(k) \in SUBSET Int /\ k \in Int
        OBVIOUS
      <4> HIDE DEF hits
      <4> QED BY <3>1, <4>1, MaxIs
    <3> HIDE DEF hits
    <3> QED BY <2>1, <3>1, <3>2
  <2>2. CASE ~IsPrefix(fs[k].of, cat)
    <3>1. hits(k) = hits(k - 1)
      BY <2>2
    <3> HIDE DEF hits
    <3> QED BY <2>2, <3>1
  <2> QED BY <2>1, <2>2
<1> DEFINE S == {k \in 0..Len(fs) : g[k] <=> off(k)}
<1>5. \A k \in 0..Len(fs) : k \in S
  <2>1. 0 \in S
    BY <1>1, <1>2, <1>3
  <2>2. ASSUME NEW k \in 1..Len(fs), k - 1 \in S PROVE k \in S
    <3>1. k \in 0..Len(fs) /\ (g[k - 1] <=> off(k - 1))
      <4> HIDE DEF off
      <4> QED BY <1>1, <2>2
    <3> HIDE DEF off
    <3> QED BY <1>2, <1>4, <3>1
  <2> HIDE DEF S
  <2> QED BY <1>1, <2>1, <2>2, Inductively
<1>6. Filtered(fs, cat) <=> off(Len(fs))
  <2>1. Len(fs) \in S
    <3> HIDE DEF S
    <3> QED BY <1>1, <1>5
  <2> HIDE DEF off
  <2> QED BY <1>2, <2>1
<1>7. LastMatch(fs, cat) = IF hits(Len(fs)) = {} THEN "+" ELSE fs[Max(hits(Len(fs)))].sign
  BY <1>1, Zenon DEF LastMatch
<1> HIDE DEF hits
<1> QED BY <1>6, <1>7

-------------------------------------------------------------------------------
\* The filters of the command line.
LEMMA GivenTyped == ASSUME flags \in DOMAIN Flags PROVE Given("filter", <<>>) \in Seq(Rules)
<1> DEFINE options == Flags[flags]
           N == Len(options)
           V == Seq(Rules)
           step == [p \in V \X (1..N) |->
                      IF options[p[2]].name = "filter" THEN options[p[2]].val ELSE p[1]]
           body(it) == [s \in SUBSET DOMAIN options |-> IF s = {} THEN <<>>
              ELSE IF options[Max(s)].name = "filter" THEN options[Max(s)].val
                   ELSE it[s \ {Max(s)}]]
           iter == CHOOSE it : it = body(it)
<1>1. /\ N \in Nat /\ DOMAIN options = 1..N /\ <<>> \in V
      /\ \A i \in 1..N : options[i].name = "filter" => options[i].val \in V
  <2>1. options \in Range(Flags)
    BY DEF Range
  <2>2. options \in Seq(Range(options))
    BY <2>1, LintAssumption
  <2>3. N \in Nat /\ DOMAIN options = 1..N
    BY <2>2, LenProperties
  <2>4. \A i \in 1..N : options[i] \in Range(options)
    BY <2>3 DEF Range
  <2> HIDE DEF options, N
  <2> QED BY <2>1, <2>3, <2>4, LintAssumption, EmptySeq
<1> HIDE DEF V, options
<1>2. \E it : it = body(it)
  <2>1. step \in [V \X (1..N) -> V]
    BY <1>1
  <2>2. PICK it \in [SUBSET (1..N) -> V] : FoldsWith(it, <<>>, N, step)
    <3> HIDE DEF step, N
    <3> QED BY <1>1, <2>1, FoldExists
  <2>3. ASSUME NEW s \in SUBSET (1..N), s # {}
        PROVE  <<it[s \ {Max(s)}], Max(s)>> \in V \X (1..N)
    <3>1. Max(s) \in s
      BY <1>1, <2>3, MaxIn
    <3> QED BY <3>1
  <2>4. it = body(it)
    BY <1>1, <2>2, <2>3 DEF FoldsWith
  <2> HIDE DEF body
  <2> QED BY <2>4
<1>3. iter = body(iter)
  <2> HIDE DEF body
  <2> QED BY <1>2
<1>4. Given("filter", <<>>) = iter[DOMAIN options]
  BY DEF Given, LastOf, FoldLeft, MapThenFoldSet, options
<1>5. \A s \in SUBSET DOMAIN options : iter[s] = IF s = {} THEN <<>>
              ELSE IF options[Max(s)].name = "filter" THEN options[Max(s)].val
                   ELSE iter[s \ {Max(s)}]
  <2> HIDE DEF iter
  <2> QED BY <1>3, Zenon
<1> HIDE DEF iter
<1> DEFINE S == {k \in 0..N : iter[1..k] \in V}
<1>6. \A k \in 0..N : k \in S
  <2>1. 0 \in S
    <3>1. iter[1..0] = <<>>
      BY <1>1, <1>5, PrefixPlaces
    <3> QED BY <1>1, <3>1
  <2>2. ASSUME NEW k \in 1..N, k - 1 \in S PROVE k \in S
    <3>1. iter[1..k] = IF options[k].name = "filter" THEN options[k].val ELSE iter[1..(k - 1)]
      BY <1>1, <1>5, PrefixPlaces
    <3>2. iter[1..k] \in V
      BY <1>1, <2>2, <3>1
    <3> QED BY <3>2
  <2> HIDE DEF S
  <2> QED BY <1>1, <2>1, <2>2, Inductively
<1> QED BY <1>1, <1>4, <1>6 DEF V

\* The filter lines of a config, one option after the other.
LEMMA FilterLinesSteps ==
  ASSUME NEW options \in Range(Configs)
  PROVE  \E h \in [0..Len(options) -> Seq(Seq(Rules))] :
           /\ h[0] = <<>> /\ FilterLines(options) = h[Len(options)]
           /\ \A k \in 1..Len(options) :
                h[k] = IF options[k].name = "filter" THEN Append(h[k - 1], options[k].val)
                       ELSE h[k - 1]
<1> DEFINE N == Len(options)
           V == Seq(Seq(Rules))
           step == [p \in V \X (1..N) |->
                      IF options[p[2]].name = "filter" THEN Append(p[1], options[p[2]].val) ELSE p[1]]
           body(it) == [s \in SUBSET DOMAIN options |-> IF s = {} THEN <<>>
              ELSE IF options[Max(s)].name = "filter"
                   THEN Append(it[s \ {Max(s)}], options[Max(s)].val) ELSE it[s \ {Max(s)}]]
           iter == CHOOSE it : it = body(it)
<1>1. /\ N \in Nat /\ DOMAIN options = 1..N /\ <<>> \in V
      /\ \A i \in 1..N : options[i].name = "filter" => options[i].val \in Seq(Rules)
  <2>1. options \in Seq(Range(options))
    BY LintAssumption
  <2>2. N \in Nat /\ DOMAIN options = 1..N
    BY <2>1, LenProperties
  <2>3. \A i \in 1..N : options[i] \in Range(options)
    BY <2>2 DEF Range
  <2> HIDE DEF N
  <2> QED BY <2>2, <2>3, LintAssumption, EmptySeq
<1>2. ASSUME NEW v \in V, NEW k \in 1..N, options[k].name = "filter"
      PROVE  Append(v, options[k].val) \in V
  BY <1>1, <1>2, AppendProperties
<1> HIDE DEF V
<1>3. \E it : it = body(it)
  <2>1. step \in [V \X (1..N) -> V]
    BY <1>2
  <2>2. PICK it \in [SUBSET (1..N) -> V] : FoldsWith(it, <<>>, N, step)
    <3> HIDE DEF step, N
    <3> QED BY <1>1, <2>1, FoldExists
  <2>3. ASSUME NEW s \in SUBSET (1..N), s # {}
        PROVE  <<it[s \ {Max(s)}], Max(s)>> \in V \X (1..N)
    <3>1. Max(s) \in s
      BY <1>1, <2>3, MaxIn
    <3> QED BY <3>1
  <2>4. it = body(it)
    BY <1>1, <2>2, <2>3 DEF FoldsWith
  <2> HIDE DEF body
  <2> QED BY <2>4
<1>4. iter = body(iter)
  <2> HIDE DEF body
  <2> QED BY <1>3
<1>5. FilterLines(options) = iter[DOMAIN options]
  BY DEF FilterLines, FoldLeft, MapThenFoldSet
<1>6. \A s \in SUBSET DOMAIN options : iter[s] = IF s = {} THEN <<>>
              ELSE IF options[Max(s)].name = "filter"
                   THEN Append(iter[s \ {Max(s)}], options[Max(s)].val) ELSE iter[s \ {Max(s)}]
  <2> HIDE DEF iter
  <2> QED BY <1>4, Zenon
<1> HIDE DEF iter
<1> DEFINE h == [k \in 0..N |-> iter[1..k]]
           S == {k \in 0..N : h[k] \in V}
<1>7. h[0] = <<>>
  <2>1. h[0] = iter[{}] /\ {} \in SUBSET DOMAIN options
    BY <1>1
  <2> QED BY <1>6, <2>1
<1>8. ASSUME NEW k \in 1..N
      PROVE  h[k] = IF options[k].name = "filter" THEN Append(h[k - 1], options[k].val) ELSE h[k - 1]
  <2>1. h[k] = iter[1..k] /\ h[k - 1] = iter[1..(k - 1)]
    BY <1>1
  <2>2. /\ 1..k \in SUBSET DOMAIN options /\ 1..k # {} /\ Max(1..k) = k
        /\ (1..k) \ {k} = 1..(k - 1)
    BY <1>1, PrefixPlaces
  <2>3. iter[1..k] = IF options[k].name = "filter"
                     THEN Append(iter[(1..k) \ {k}], options[k].val) ELSE iter[(1..k) \ {k}]
    BY <1>6, <2>2
  <2> HIDE DEF h
  <2> QED BY <2>1, <2>2, <2>3
<1>9. \A k \in 0..N : k \in S
  <2>1. 0 \in S
    BY <1>1, <1>7
  <2>2. ASSUME NEW k \in 1..N, k - 1 \in S PROVE k \in S
    <3>1. h[k - 1] \in V /\ k \in 0..N
      BY <1>1, <2>2
    <3> HIDE DEF h
    <3> QED BY <1>2, <1>8, <3>1
  <2> HIDE DEF S
  <2> QED BY <1>1, <2>1, <2>2, Inductively
<1>10. h \in [0..N -> V] /\ FilterLines(options) = h[N]
  BY <1>1, <1>5, <1>9
<1> HIDE DEF h
<1> QED BY <1>7, <1>8, <1>10 DEF V

\* ReadConfig of a config that only filters and excludes.
LEMMA ConfigRead ==
  ASSUME FilteringConfigs, NEW options \in Range(Configs), cfgFilters \in Seq(Seq(Rules)),
         NEW got, got = ReadConfig(options)
  PROVE  /\ got.settings = settings
         /\ got.excluded <=> \E j \in DOMAIN options :
                 options[j].name = "exclude_files" /\ BaseName \in options[j].val
         /\ ~got.excluded => /\ got.look <=> ~Has(options, "noparent")
                             /\ got.filters = cfgFilters \o FilterLines(options)
         /\ FilterLines(options) \in Seq(Seq(Rules))
<1> DEFINE N == Len(options)
           V == [look : BOOLEAN, excluded : BOOLEAN, filters : Seq(Seq(Rules)), settings : {settings}]
           base == [look |-> TRUE, excluded |-> FALSE, filters |-> cfgFilters, settings |-> settings]
           step == [p \in V \X (1..N) |-> ReadOption(p[1], options[p[2]])]
           body(it) == [s \in SUBSET DOMAIN options |-> IF s = {} THEN base
                          ELSE ReadOption(it[s \ {Max(s)}], options[Max(s)])]
           iter == CHOOSE it : it = body(it)
<1>1. /\ N \in Nat /\ DOMAIN options = 1..N /\ base \in V
      /\ \A i \in 1..N : /\ options[i].name = "filter" => options[i].val \in Seq(Rules)
                         /\ options[i].name \notin {"linelength", "root", "headers"}
  <2>1. options \in Seq(Range(options))
    BY LintAssumption
  <2>2. N \in Nat /\ DOMAIN options = 1..N
    BY <2>1, LenProperties
  <2>3. \A i \in 1..N : options[i] \in Range(options)
    BY <2>2 DEF Range
  <2>4. base \in V
    OBVIOUS
  <2> HIDE DEF N, base, V
  <2> QED BY <2>2, <2>3, <2>4, LintAssumption DEF FilteringConfigs
<1> HIDE DEF base
<1>2. ASSUME NEW v \in V, NEW k \in 1..N
      PROVE  /\ ReadOption(v, options[k]) \in V
             /\ v.excluded => ReadOption(v, options[k]).excluded
             /\ ~v.excluded =>
                  /\ ReadOption(v, options[k]).excluded <=>
                       options[k].name = "exclude_files" /\ BaseName \in options[k].val
                  /\ ReadOption(v, options[k]).look <=> v.look /\ options[k].name # "noparent"
                  /\ ReadOption(v, options[k]).filters =
                       IF options[k].name = "filter" THEN Append(v.filters, options[k].val)
                       ELSE v.filters
  <2>1. options[k].name = "filter" => Append(v.filters, options[k].val) \in Seq(Seq(Rules))
    BY <1>1, AppendProperties
  <2>2. options[k].name \notin {"linelength", "root", "headers"}
    BY <1>1
  <2> HIDE DEF N
  <2>3. CASE v.excluded
    BY <2>3 DEF ReadOption
  <2>4. CASE ~v.excluded /\ options[k].name = "noparent"
    BY <2>4 DEF ReadOption
  <2>5. CASE ~v.excluded /\ options[k].name = "filter"
    BY <2>1, <2>5 DEF ReadOption
  <2>6. CASE ~v.excluded /\ options[k].name = "exclude_files"
    <3> DEFINE here == BaseName \in options[k].val
    <3>1. here \in BOOLEAN
      OBVIOUS
    <3>2. ReadOption(v, options[k]) = [v EXCEPT !.excluded = here]
      BY <2>6, Zenon DEF ReadOption
    <3> HIDE DEF here
    <3>3. [v EXCEPT !.excluded = here] \in V
      BY <3>1
    <3>4. /\ [v EXCEPT !.excluded = here].excluded = here /\ [v EXCEPT !.excluded = here].look = v.look
          /\ [v EXCEPT !.excluded = here].filters = v.filters
      BY <3>1
    <3> HIDE DEF V
    <3> QED BY <2>6, <3>2, <3>3, <3>4 DEF here
  <2>7. CASE ~v.excluded /\ options[k].name \notin {"noparent", "filter", "exclude_files"}
    BY <2>2, <2>7 DEF ReadOption
  <2> QED BY <2>3, <2>4, <2>5, <2>6, <2>7
<1> HIDE DEF V
<1>3. \E it : it = body(it)
  <2>1. step \in [V \X (1..N) -> V]
    BY <1>2
  <2>2. PICK it \in [SUBSET (1..N) -> V] : FoldsWith(it, base, N, step)
    <3> HIDE DEF step, N
    <3> QED BY <1>1, <2>1, FoldExists
  <2>3. ASSUME NEW s \in SUBSET (1..N), s # {}
        PROVE  <<it[s \ {Max(s)}], Max(s)>> \in V \X (1..N)
    <3>1. Max(s) \in s
      BY <1>1, <2>3, MaxIn
    <3> QED BY <3>1
  <2>4. it = body(it)
    BY <1>1, <2>2, <2>3 DEF FoldsWith
  <2> HIDE DEF body
  <2> QED BY <2>4
<1>4. iter = body(iter)
  <2> HIDE DEF body
  <2> QED BY <1>3
<1>5. got = iter[DOMAIN options]
  BY DEF ReadConfig, FoldLeft, MapThenFoldSet, base
<1>6. \A s \in SUBSET DOMAIN options : iter[s] = IF s = {} THEN base
              ELSE ReadOption(iter[s \ {Max(s)}], options[Max(s)])
  <2> HIDE DEF iter
  <2> QED BY <1>4, Zenon
<1> HIDE DEF iter
<1> DEFINE g == [k \in 0..N |-> iter[1..k]]
<1>7. g[0] = base
  <2>1. g[0] = iter[{}] /\ {} \in SUBSET DOMAIN options
    BY <1>1
  <2> QED BY <1>6, <2>1
<1>8. ASSUME NEW k \in 1..N PROVE g[k] = ReadOption(g[k - 1], options[k])
  <2>1. g[k] = iter[1..k] /\ g[k - 1] = iter[1..(k - 1)]
    BY <1>1
  <2>2. /\ 1..k \in SUBSET DOMAIN options /\ 1..k # {} /\ Max(1..k) = k
        /\ (1..k) \ {k} = 1..(k - 1)
    BY <1>1, PrefixPlaces
  <2>3. iter[1..k] = ReadOption(iter[(1..k) \ {k}], options[k])
    BY <1>6, <2>2
  <2> HIDE DEF g
  <2> QED BY <2>1, <2>2, <2>3
<1>9. got = g[N]
  BY <1>1, <1>5
<1> HIDE DEF g
<1>10. PICK h \in [0..N -> Seq(Seq(Rules))] :
         /\ h[0] = <<>> /\ FilterLines(options) = h[N]
         /\ \A k \in 1..N :
              h[k] = IF options[k].name = "filter" THEN Append(h[k - 1], options[k].val)
                     ELSE h[k - 1]
  BY FilterLinesSteps
<1> DEFINE excludedBy(j) == options[j].name = "exclude_files" /\ BaseName \in options[j].val
           Good(k) == /\ g[k] \in V
                      /\ g[k].excluded <=> \E j \in 1..k : excludedBy(j)
                      /\ ~g[k].excluded =>
                           /\ g[k].look <=> \A j \in 1..k : options[j].name # "noparent"
                           /\ g[k].filters = cfgFilters \o h[k]
           S == {k \in 0..N : Good(k)}
<1>11. \A k \in 0..N : k \in S
  <2>1. 0 \in S
    <3>1. cfgFilters \o <<>> = cfgFilters
      BY ConcatEmptySeq
    <3>2. 1..0 = {}
      OBVIOUS
    <3>3. base.look /\ ~base.excluded /\ base.filters = cfgFilters
      BY DEF base
    <3>4. 0 \in 0..N
      BY <1>1
    <3> HIDE DEF N, excludedBy
    <3>5. g[0] \in V /\ ~g[0].excluded /\ g[0].look /\ g[0].filters = cfgFilters \o h[0]
      BY <1>1, <1>7, <1>10, <3>1, <3>3
    <3>6. Good(0)
      BY <3>2, <3>5
    <3> QED BY <3>4, <3>6
  <2>2. ASSUME NEW k \in 1..N, k - 1 \in S PROVE k \in S
    <3>1. Good(k - 1) /\ k \in 0..N /\ k - 1 \in 0..N
      BY <1>1, <2>2
    <3>2. 1..k = 1..(k - 1) \cup {k}
      OBVIOUS
    <3>3. g[k] = ReadOption(g[k - 1], options[k]) /\ g[k - 1] \in V
      BY <1>8, <3>1
    <3> HIDE DEF N, excludedBy
    <3>4. g[k] \in V
      BY <1>2, <3>3
    <3>5. g[k].excluded <=> g[k - 1].excluded \/ excludedBy(k)
      BY <1>2, <3>3 DEF excludedBy
    <3>6. g[k].excluded <=> \E j \in 1..k : excludedBy(j)
      BY <3>1, <3>2, <3>5
    <3>7. ASSUME ~g[k].excluded
          PROVE  /\ g[k].look <=> \A j \in 1..k : options[j].name # "noparent"
                 /\ g[k].filters = cfgFilters \o h[k]
      <4>1. ~g[k - 1].excluded
        BY <3>5, <3>7
      <4>2. /\ g[k].look <=> g[k - 1].look /\ options[k].name # "noparent"
            /\ g[k].filters = IF options[k].name = "filter"
                              THEN Append(g[k - 1].filters, options[k].val) ELSE g[k - 1].filters
        BY <1>2, <3>3, <4>1
      <4>3. g[k].look <=> \A j \in 1..k : options[j].name # "noparent"
        BY <3>1, <3>2, <4>1, <4>2
      <4>4. g[k - 1].filters = cfgFilters \o h[k - 1]
        BY <3>1, <4>1
      <4>5. h[k] = IF options[k].name = "filter" THEN Append(h[k - 1], options[k].val)
                   ELSE h[k - 1]
        BY <1>10
      <4>6. ASSUME options[k].name = "filter"
            PROVE  Append(cfgFilters \o h[k - 1], options[k].val) =
                     cfgFilters \o Append(h[k - 1], options[k].val)
        <5> DEFINE U == Seq(Rules)
                   a == cfgFilters
                   b == h[k - 1]
                   e == options[k].val
        <5>1. a \in Seq(U) /\ b \in Seq(U) /\ e \in U
          BY <1>1, <1>10, <3>1, <4>6
        <5> HIDE DEF U, a, b, e
        <5>2. a \o b \in Seq(U) /\ <<e>> \in Seq(U)
          BY <5>1, ConcatProperties
        <5>3. Append(b, e) = b \o <<e>> /\ Append(a \o b, e) = (a \o b) \o <<e>>
          BY <5>1, <5>2, AppendIsConcat
        <5> DEFINE c == <<e>>
        <5> HIDE DEF c
        <5>4. (a \o b) \o c = a \o (b \o c)
          BY <5>1, <5>2, ConcatAssociative DEF c
        <5>5. Append(a \o b, e) = a \o Append(b, e)
          BY <5>3, <5>4 DEF c
        <5> QED BY <5>5 DEF a, b, e
      <4> QED BY <4>2, <4>3, <4>4, <4>5, <4>6
    <3> QED BY <3>1, <3>4, <3>6, <3>7
  <2> HIDE DEF S
  <2> QED BY <1>1, <2>1, <2>2, Inductively
<1>12. Good(N) /\ N \in 0..N
  <2>1. N \in 0..N
    <3> HIDE DEF N
    <3> QED BY <1>1
  <2>2. N \in S
    BY <1>11, <2>1
  <2> HIDE DEF N, Good
  <2> QED BY <2>1, <2>2
<1>13. FilterLines(options) \in Seq(Seq(Rules)) /\ FilterLines(options) = h[N]
  BY <1>10, <1>12
<1> HIDE DEF N
<1>14. got.settings = settings
  BY <1>9, <1>12 DEF V
<1>15. got.excluded <=> \E j \in DOMAIN options : excludedBy(j)
  BY <1>1, <1>9, <1>12
<1>16. ~got.excluded => /\ got.look <=> ~Has(options, "noparent")
                        /\ got.filters = cfgFilters \o FilterLines(options)
  BY <1>1, <1>9, <1>12, <1>13 DEF Has
<1> QED BY <1>13, <1>14, <1>15, <1>16

\* The filters of the command line, and those of the CPPLINT.cfg files from the
\* nearest up to the n-th.
Base == DefaultFilters \o Given("filter", <<>>)
Above(n) == FlattenSeq([i \in 1..n |-> FilterLines(ConfigOf(Cur, i))])

\* The parts of Raised, in the order in which ProcessFileData comes to them.
After(read, errs) == {<<read, e>> : e \in ToSet(errs)}
IfndefRead(f) == IF GuardStart(f) = "ifndef" THEN {f.guard.ifndef} ELSE {}
GuardRead(f) ==
  IF GuardStart(f) \in {"ifndef", "endif"} THEN IfndefRead(f) \cup {f.guard.endif} ELSE {}
First(f) == After({}, FirstErrors(f))
Missing(f) == IF GuardStart(f) = "noguard" THEN After({}, NoGuardErrors) ELSE {}
Ifndef(f) == IF GuardStart(f) = "ifndef" THEN After(IfndefRead(f), IfndefErrors(f)) ELSE {}
Endif(f) ==
  IF GuardStart(f) \in {"ifndef", "endif"} THEN After(GuardRead(f), EndifErrors(f)) ELSE {}
OfLine(f, n) == After(GuardRead(f) \cup 1..n, LineErrors(f, n))
LinesTo(f, n) == UNION {OfLine(f, k) : k \in 1..n}

\* What has been raised of the file at hand, and the lines whose comments count.
SoFar ==
  CASE pc \in {"noguard", "ifndef"} -> First(Cur)
    [] pc = "endif" -> First(Cur) \cup Ifndef(Cur)
    [] OTHER -> First(Cur) \cup Missing(Cur) \cup Ifndef(Cur) \cup Endif(Cur) \cup LinesTo(Cur, at - 1)
Heeded ==
  CASE pc \in {"noguard", "ifndef"} -> {}
    [] pc = "endif" -> IfndefRead(Cur)
    [] OTHER -> GuardRead(Cur) \cup 1..(at - 1)

\* Which of the errors raised are to be printed.
Printable(f, x) ==
  /\ x[2].conf >= verbose
  /\ LastMatch(FiltersFor(f), x[2].cat) # "-"
  /\ ~IsErrorSuppressedByNolint(x[2], NolintBy(f, x[1]), ProcessGlobalSuppressions(f))
Shows(f, raised) == {r[2] : r \in {x \in raised : Printable(f, x)}}

\* The files to go are the last of the given ones.
Queue ==
  /\ flags \in DOMAIN Flags /\ names \in Orders /\ cfg \in CfgChoices
  /\ pc = "args" => todo = names
  /\ Len(todo) <= Len(names)
  /\ \A i \in 1..Len(todo) : todo[i] = names[Len(names) - Len(todo) + i]

\* Which filters are in force, and that the backup brings back those of the command line.
InForce ==
  /\ pc \in {"next", "config", "filters"} => filters = Base
  /\ pc \in InFile => filtersBackup = Base
  /\ pc \in ReadPcs \cup {"open"} => filters = FiltersFor(Cur)

\* How far the search for CPPLINT.cfg files has come, and what it has found.
Climb ==
  /\ pc = "config" =>
       /\ level \in 1..Len(Cur.dirs)
       /\ \A j \in 1..(level - 1) : ~Has(ConfigOf(Cur, j), "noparent")
  /\ pc \in InFile \ {"config"} =>
       level \in 2..(Len(Cur.dirs) + 1) /\ Levels(Cur) = 1..(level - 1)
  /\ pc \in InFile => \A j \in 1..(level - 1) : ~ExcludedAt(Head(todo), j)
  /\ pc \in {"config", "filters"} => cfgFilters = Above(level - 1)

\* The suppressions are those of the lines that have been read of this file.
Heeding ==
  /\ pc \in ReadPcs =>
       /\ Cur.readable /\ Cur.ext \in settings.extensions
       /\ sup = NolintBy(Cur, Heeded) /\ globalSup = ProcessGlobalSuppressions(Cur)
  /\ pc \in ReadPcs \ {"lines"} => at = 1
  /\ pc \in {"noguard", "ifndef"} => GuardStart(Cur) = pc
  /\ pc = "endif" => GuardStart(Cur) \in {"ifndef", "endif"}
  /\ pc = "lines" => at - 1 <= Len(Cur.lines)

\* What has been printed is what is expected of the files that are done, and of
\* the file at hand what is to be printed of the errors raised so far.
Output ==
  \A name \in DOMAIN FileOf :
    PrintedOf(name) =
      (IF name \in Done THEN Expected(name) ELSE {}) \cup
      (IF pc \in ReadPcs /\ name = Head(todo) THEN Shows(Cur, SoFar) ELSE {})

AloneInv == CountsInv /\ Queue /\ InForce /\ Climb /\ Heeding /\ Output

-------------------------------------------------------------------------------
LEMMA ShowsMore ==
  ASSUME NEW f, NEW a, NEW b
  PROVE  Shows(f, a \cup b) = Shows(f, a) \cup Shows(f, b) /\ Shows(f, {}) = {}
<1> DEFINE P(x) == Printable(f, x)
<1>1. /\ Shows(f, a \cup b) = {r[2] : r \in {x \in a \cup b : P(x)}}
      /\ Shows(f, a) = {r[2] : r \in {x \in a : P(x)}} /\ Shows(f, b) = {r[2] : r \in {x \in b : P(x)}}
      /\ Shows(f, {}) = {r[2] : r \in {x \in {} : P(x)}}
  BY Zenon DEF Shows
<1> HIDE DEF P
<1> QED BY <1>1

LEMMA NolintMore ==
  ASSUME NEW f, NEW read, NEW n
  PROVE  /\ NolintBy(f, read \cup {n}) = NolintBy(f, read) \cup ParseNolintSuppressions(f, n)
         /\ NolintBy(f, {}) = {}
<1> DEFINE P(x) == ParseNolintSuppressions(f, x)
<1>1. /\ NolintBy(f, read \cup {n}) = UNION {P(x) : x \in read \cup {n}}
      /\ NolintBy(f, read) = UNION {P(x) : x \in read} /\ NolintBy(f, {}) = UNION {P(x) : x \in {}}
  BY Zenon DEF NolintBy
<1>2. ParseNolintSuppressions(f, n) = P(n)
  OBVIOUS
<1> HIDE DEF P
<1> QED BY <1>1, <1>2

\* Error prints what Shows has of the errors it is called for.
LEMMA ErrorShows ==
  ASSUME NEW errs, NEW s, NEW g, NEW read, Error(errs, s, g),
         \E S : report \in Seq(S),
         FiltersFor(Cur) \in Seq(Rules), filters = FiltersFor(Cur),
         s = NolintBy(Cur, read), g = ProcessGlobalSuppressions(Cur)
  PROVE  /\ \E S : report' \in Seq(S)
         /\ \A name : PrintedOf(name)' = PrintedOf(name) \cup
              (IF name = Head(todo) THEN Shows(Cur, After(read, errs)) ELSE {})
<1> DEFINE shown == Shown(errs, s, g)
           r == [file |-> Head(todo), errors |-> shown]
<1>1. report' = Append(report, r)
  BY DEF Error
<1>2. Range(shown) = Shows(Cur, After(read, errs))
  <2>1. Range(shown) = {errs[i] : i \in {j \in DOMAIN errs : ShouldPrintError(errs[j], s, g)}}
    BY DEF Shown, Range
  <2>2. ASSUME NEW e PROVE ShouldPrintError(e, s, g) <=> Printable(Cur, <<read, e>>)
    <3>1. Filtered(filters, e.cat) <=> LastMatch(FiltersFor(Cur), e.cat) = "-"
      BY FilteredByLast
    <3> QED BY <3>1 DEF ShouldPrintError, Printable
  <2>3. Shows(Cur, After(read, errs)) = {e \in ToSet(errs) : Printable(Cur, <<read, e>>)}
    <3> DEFINE P(x) == Printable(Cur, x)
    <3>1. Shows(Cur, After(read, errs)) = {x[2] : x \in {y \in {<<read, e>> : e \in ToSet(errs)} : P(y)}}
      BY Zenon DEF Shows, After
    <3>2. {e \in ToSet(errs) : Printable(Cur, <<read, e>>)} = {e \in ToSet(errs) : P(<<read, e>>)}
      OBVIOUS
    <3> HIDE DEF P
    <3> QED BY <3>1, <3>2
  <2> QED BY <2>1, <2>2, <2>3 DEF ToSet
<1> HIDE DEF shown
<1>3. (\E S : report' \in Seq(S)) /\ ToSet(report') = ToSet(report) \cup {r}
  <2>1. PICK S : report \in Seq(S)
    OBVIOUS
  <2> DEFINE T == S \cup {r}
  <2>2. report \in Seq(T) /\ r \in T
    BY <2>1, SeqMonotonic
  <2> HIDE DEF r, T
  <2>3. /\ Append(report, r) \in Seq(T) /\ Len(Append(report, r)) = Len(report) + 1
        /\ \A b \in 1..Len(report) : Append(report, r)[b] = report[b]
        /\ Append(report, r)[Len(report) + 1] = r
    BY <2>2, AppendProperties
  <2>4. /\ Len(report) \in Nat /\ DOMAIN report = 1..Len(report)
        /\ DOMAIN Append(report, r) = 1..(Len(report) + 1)
    BY <2>2, <2>3, LenProperties
  <2>5. ToSet(Append(report, r)) = ToSet(report) \cup {r}
    BY <2>3, <2>4 DEF ToSet
  <2> QED BY <1>1, <2>3, <2>5
<1>4. ASSUME NEW name
      PROVE PrintedOf(name)' = PrintedOf(name) \cup (IF name = Head(todo) THEN Range(shown) ELSE {})
  <2>1. r.file = Head(todo) /\ r.errors = shown
    OBVIOUS
  <2> HIDE DEF r
  <2>2. PrintedOf(name)' = UNION {Range(x.errors) : x \in {y \in ToSet(report) \cup {r} : y.file = name}}
    BY <1>3 DEF PrintedOf
  <2>3. PrintedOf(name) = UNION {Range(x.errors) : x \in {y \in ToSet(report) : y.file = name}}
    BY DEF PrintedOf
  <2> QED BY <2>1, <2>2, <2>3
<1> QED BY <1>2, <1>3, <1>4

\* With the settings and the configs what they were, so is what is expected.
LEMMA SameExpected ==
  ASSUME UNCHANGED <<flags, cfg, settings, verbose>>
  PROVE  /\ Base' = Base
         /\ \A name : Expected(name)' = Expected(name)
<1>1. Base' = Base
  BY DEF Base, Given
<1>2. ASSUME NEW f
      PROVE  /\ FiltersFor(f)' = FiltersFor(f) /\ Levels(f)' = Levels(f)
             /\ \A x : Printable(f, x)' = Printable(f, x)
  <2>1. \A i : ConfigOf(f, i)' = ConfigOf(f, i)
    BY DEF ConfigOf
  <2>2. Levels(f)' = Levels(f)
    BY <2>1, Zenon DEF Levels
  <2>3. Given("filter", <<>>)' = Given("filter", <<>>)
    BY DEF Given
  <2>4. FiltersFor(f)' = FiltersFor(f)
    BY <2>1, <2>2, <2>3, Zenon DEF FiltersFor
  <2>5. \A x : Printable(f, x)' = Printable(f, x)
    BY <2>4, Zenon DEF Printable
  <2> QED BY <2>2, <2>4, <2>5
<1>3. ASSUME NEW f PROVE Raised(f)' = Raised(f)
  <2>1. GuardStart(f)' = GuardStart(f)
    BY DEF GuardStart, IsHeaderExtension
  <2>2. IfndefErrors(f)' = IfndefErrors(f) /\ EndifErrors(f)' = EndifErrors(f)
    BY DEF IfndefErrors, EndifErrors
  <2>3. \A n : LineErrors(f, n)' = LineErrors(f, n)
    BY DEF LineErrors
  <2>4. (UNION {After(GuardRead(f) \cup 1..n, LineErrors(f, n)) : n \in DOMAIN f.lines})' =
          UNION {After(GuardRead(f) \cup 1..n, LineErrors(f, n)) : n \in DOMAIN f.lines}
    BY <2>1, <2>3, Zenon DEF GuardRead, IfndefRead
  <2>5. /\ GuardRead(f)' = GuardRead(f) /\ First(f)' = First(f) /\ Missing(f)' = Missing(f)
        /\ Ifndef(f)' = Ifndef(f) /\ Endif(f)' = Endif(f)
    BY <2>1, <2>2, Zenon DEF GuardRead, IfndefRead, First, Missing, Ifndef, Endif
  <2>6. /\ Raised(f) = First(f) \cup Missing(f) \cup Ifndef(f) \cup Endif(f) \cup
           (UNION {After(GuardRead(f) \cup 1..n, LineErrors(f, n)) : n \in DOMAIN f.lines}) \cup
           After(GuardRead(f) \cup DOMAIN f.lines, LastErrors(f))
        /\ Raised(f)' = First(f)' \cup Missing(f)' \cup Ifndef(f)' \cup Endif(f)' \cup
           (UNION {After(GuardRead(f) \cup 1..n, LineErrors(f, n)) : n \in DOMAIN f.lines})' \cup
           After(GuardRead(f)' \cup DOMAIN f.lines, LastErrors(f))
    BY DEF Raised, First, Missing, Ifndef, Endif, GuardRead, IfndefRead, After
  <2> QED BY <2>4, <2>5, <2>6, Zenon
<1>4. ASSUME NEW name PROVE Linted(name)' = Linted(name)
  <2>1. \A i : ExcludedAt(name, i)' = ExcludedAt(name, i)
    BY DEF ExcludedAt, ConfigOf
  <2>2. Levels(FileOf[name])' = Levels(FileOf[name])
    BY <1>2
  <2> QED BY <2>1, <2>2, Zenon DEF Linted
<1>5. ASSUME NEW name PROVE Expected(name)' = Expected(name)
  <2>1. Linted(name)' = Linted(name) /\ Raised(FileOf[name])' = Raised(FileOf[name])
    BY <1>3, <1>4
  <2>2. FiltersFor(FileOf[name])' = FiltersFor(FileOf[name])
    BY <1>2
  <2>3. verbose' = verbose
    OBVIOUS
  <2> QED BY <2>1, <2>2, <2>3, Zenon DEF Expected
<1> QED BY <1>1, <1>5

\* So is, of the same file, what the invariant speaks about.
LEMMA SameFile ==
  ASSUME UNCHANGED <<flags, cfg, settings, verbose, todo>>
  PROVE  /\ Cur' = Cur /\ Head(todo)' = Head(todo) /\ GuardStart(Cur)' = GuardStart(Cur)
         /\ IfndefRead(Cur)' = IfndefRead(Cur) /\ GuardRead(Cur)' = GuardRead(Cur)
         /\ First(Cur)' = First(Cur) /\ Missing(Cur)' = Missing(Cur)
         /\ Ifndef(Cur)' = Ifndef(Cur) /\ Endif(Cur)' = Endif(Cur)
         /\ \A n : OfLine(Cur, n)' = OfLine(Cur, n)
         /\ \A x : Shows(Cur, x)' = Shows(Cur, x)
         /\ FiltersFor(Cur)' = FiltersFor(Cur) /\ Levels(Cur)' = Levels(Cur)
         /\ \A i : ConfigOf(Cur, i)' = ConfigOf(Cur, i)
         /\ \A n : Above(n)' = Above(n)
         /\ \A i : ExcludedAt(Head(todo), i)' = ExcludedAt(Head(todo), i)
         /\ \A s : NolintBy(Cur, s)' = NolintBy(Cur, s)
         /\ ProcessGlobalSuppressions(Cur)' = ProcessGlobalSuppressions(Cur)
<1>1. Cur' = Cur /\ Head(todo)' = Head(todo)
  BY DEF Cur
<1>2. GuardStart(Cur)' = GuardStart(Cur)
  BY <1>1 DEF GuardStart, IsHeaderExtension
<1>3. IfndefRead(Cur)' = IfndefRead(Cur)
  BY <1>1, <1>2, Zenon DEF IfndefRead
<1>4. GuardRead(Cur)' = GuardRead(Cur)
  BY <1>1, <1>2, <1>3, Zenon DEF GuardRead
<1>5. FirstErrors(Cur)' = FirstErrors(Cur)
  BY <1>1 DEF FirstErrors
<1>6. IfndefErrors(Cur)' = IfndefErrors(Cur)
  BY <1>1, Zenon DEF IfndefErrors, UnknownNolint, Marks
<1>7. EndifErrors(Cur)' = EndifErrors(Cur)
  BY <1>1, Zenon DEF EndifErrors, UnknownNolint, Marks
<1>8. \A n : LineErrors(Cur, n)' = LineErrors(Cur, n)
  BY <1>1, Zenon DEF LineErrors, UnknownNolint, Marks
<1>9. First(Cur)' = First(Cur)
  BY <1>5, Zenon DEF First
<1>10. Missing(Cur)' = Missing(Cur)
  BY <1>2, Zenon DEF Missing
<1>11. Ifndef(Cur)' = Ifndef(Cur)
  BY <1>2, <1>3, <1>6, Zenon DEF Ifndef
<1>12. Endif(Cur)' = Endif(Cur)
  BY <1>2, <1>4, <1>7, Zenon DEF Endif
<1>13. \A n : OfLine(Cur, n)' = OfLine(Cur, n)
  BY <1>4, <1>8 DEF OfLine
<1>14. \A i : ConfigOf(Cur, i)' = ConfigOf(Cur, i)
  BY <1>1 DEF ConfigOf
<1>15. Levels(Cur)' = Levels(Cur)
  BY <1>1, <1>14, Zenon DEF Levels
<1>16. Given("filter", <<>>)' = Given("filter", <<>>)
  BY DEF Given
<1>17. FiltersFor(Cur)' = FiltersFor(Cur)
  BY <1>14, <1>15, <1>16, Zenon DEF FiltersFor
<1>18. \A n : Above(n)' = Above(n)
  BY <1>14, Zenon DEF Above
<1>19. \A i : ExcludedAt(Head(todo), i)' = ExcludedAt(Head(todo), i)
  BY <1>1, Zenon DEF ExcludedAt, ConfigOf
<1>20. \A s : NolintBy(Cur, s)' = NolintBy(Cur, s)
  BY <1>1
<1>21. ProcessGlobalSuppressions(Cur)' = ProcessGlobalSuppressions(Cur)
  BY <1>1
<1>22. \A x : Printable(Cur, x)' <=> Printable(Cur, x)
  BY <1>17, <1>20, <1>21 DEF Printable
<1>23. \A x : Shows(Cur, x)' = Shows(Cur, x)
  BY <1>22, Zenon DEF Shows
<1> QED BY <1>1, <1>2, <1>3, <1>4, <1>9, <1>10, <1>11, <1>12, <1>13, <1>14, <1>15, <1>17, <1>18,
     <1>19, <1>20, <1>21, <1>23

\* The file at hand, its lines and the configs above it.
LEMMA CurTyped ==
  ASSUME Reading, Queue, todo # <<>>
  PROVE  /\ Head(todo) \in DOMAIN FileOf
         /\ Len(Cur.dirs) \in Nat \ {0} /\ DOMAIN Cur.dirs = 1..Len(Cur.dirs)
         /\ \A i \in 1..Len(Cur.dirs) : ConfigOf(Cur, i) \in Range(Configs)
         /\ Len(Cur.lines) \in Nat /\ DOMAIN Cur.lines = 1..Len(Cur.lines)
<1>1. Head(todo) \in DOMAIN FileOf
  BY HeadTailProperties DEF Reading
<1>2. Cur \in Range(FileOf)
  BY <1>1 DEF Cur, Range
<1>3. Cur.dirs \in Seq(Dirs) /\ Cur.dirs # <<>> /\ Cur.lines \in Seq(Range(Cur.lines))
  BY <1>2, LintAssumption
<1>4. /\ Len(Cur.dirs) \in Nat \ {0} /\ DOMAIN Cur.dirs = 1..Len(Cur.dirs)
      /\ \A i \in 1..Len(Cur.dirs) : Cur.dirs[i] \in Dirs
  BY <1>3, LenProperties, EmptySeq
<1>5. Len(Cur.lines) \in Nat /\ DOMAIN Cur.lines = 1..Len(Cur.lines)
  BY <1>3, LenProperties
<1>6. \A d \in Dirs : cfg[d] \in DOMAIN Configs
  <2>1. DOMAIN cfg = Dirs /\ Range(cfg) \subseteq DOMAIN Configs
    BY LintAssumption DEF Queue
  <2> QED BY <2>1 DEF Range
<1>7. \A i \in 1..Len(Cur.dirs) : ConfigOf(Cur, i) \in Range(Configs)
  BY <1>4, <1>6 DEF ConfigOf, Range
<1> QED BY <1>1, <1>4, <1>5, <1>7

\* The filters of the CPPLINT.cfg files, one more directory up.
LEMMA AboveMore ==
  ASSUME Reading, Queue, todo # <<>>
  PROVE  /\ Above(0) = <<>>
         /\ \A n \in 0..Len(Cur.dirs) : Above(n) \in Seq(Seq(Rules))
         /\ \A n \in 1..Len(Cur.dirs) : Above(n) = Above(n - 1) \o FilterLines(ConfigOf(Cur, n))
<1> DEFINE V == Seq(Rules)
           N == Len(Cur.dirs)
           f == [i \in 1..N |-> FilterLines(ConfigOf(Cur, i))]
<1>1. N \in Nat \ {0} /\ \A i \in 1..N : ConfigOf(Cur, i) \in Range(Configs)
  BY CurTyped
<1>2. \A i \in 1..N : f[i] \in Seq(V)
  <2>1. ASSUME NEW options \in Range(Configs) PROVE FilterLines(options) \in Seq(Seq(Rules))
    <3>1. options \in Seq(Range(options))
      BY LintAssumption
    <3>2. Len(options) \in 0..Len(options)
      BY <3>1, LenProperties
    <3> QED BY <3>2, FilterLinesSteps
  <2> HIDE DEF N
  <2> QED BY <1>1, <2>1
<1> HIDE DEF V
<1>3. Above(0) = <<>>
  <2>1. [i \in 1..0 |-> FilterLines(ConfigOf(Cur, i))] = <<>>
    OBVIOUS
  <2>2. <<>> \in Seq(Seq(V)) /\ Len(<<>>) = 0
    BY EmptySeq
  <2>3. FlattenSeq(<<>>) = <<>>
    BY <2>2 DEF FlattenSeq
  <2> QED BY <2>1, <2>3 DEF Above
<1>4. ASSUME NEW n \in 0..N PROVE Above(n) = FlattenSeq([i \in 1..n |-> f[i]])
  <2>1. [i \in 1..n |-> FilterLines(ConfigOf(Cur, i))] = [i \in 1..n |-> f[i]]
    BY <1>1
  <2> HIDE DEF f
  <2> QED BY <2>1 DEF Above
<1> HIDE DEF f, N
<1>5. ASSUME NEW n \in 1..N
      PROVE  Above(n - 1) \in Seq(V) /\ Above(n) = Above(n - 1) \o f[n]
  <2> DEFINE m == n - 1
  <2>1. m \in Nat /\ m + 1 = n /\ m \in 0..N /\ n \in 0..N /\ \A i \in 1..(m + 1) : f[i] \in Seq(V)
    BY <1>1, <1>2
  <2> HIDE DEF m
  <2>2. /\ FlattenSeq([i \in 1..m |-> f[i]]) \in Seq(V)
        /\ FlattenSeq([i \in 1..(m + 1) |-> f[i]]) = FlattenSeq([i \in 1..m |-> f[i]]) \o f[m + 1]
    BY <2>1, FlattenMore
  <2>3. Above(m) \in Seq(V) /\ Above(n) = Above(m) \o f[n]
    BY <1>4, <2>1, <2>2
  <2> QED BY <2>3 DEF m
<1>6. \A n \in 0..N : Above(n) \in Seq(V)
  <2>1. Above(N) \in Seq(V)
    <3>1. N \in 1..N
      BY <1>1
    <3>2. Above(N - 1) \in Seq(V) /\ f[N] \in Seq(V) /\ Above(N) = Above(N - 1) \o f[N]
      BY <1>2, <1>5, <3>1
    <3> QED BY <3>2, ConcatProperties
  <2>2. ASSUME NEW n \in 0..N, n # N PROVE Above(n) \in Seq(V)
    <3> DEFINE k == n + 1
    <3>1. k \in 1..N /\ k - 1 = n
      BY <1>1, <2>2
    <3> HIDE DEF k
    <3>2. Above(k - 1) \in Seq(V)
      BY <1>5, <3>1
    <3> QED BY <3>1, <3>2
  <2> QED BY <2>1, <2>2
<1>7. \A n \in 1..N : f[n] = FilterLines(ConfigOf(Cur, n))
  BY DEF f
<1> QED BY <1>3, <1>5, <1>6, <1>7 DEF V, N

\* The search ends at the root or where a config says so, and AddFilters then
\* appends what it has found.
LEMMA ClimbedTo ==
  ASSUME Reading, Queue, todo # <<>>, NEW m \in 1..Len(Cur.dirs),
         \A j \in 1..(m - 1) : ~Has(ConfigOf(Cur, j), "noparent"),
         m = Len(Cur.dirs) \/ Has(ConfigOf(Cur, m), "noparent")
  PROVE  Levels(Cur) = 1..m
<1> DEFINE has(j) == Has(ConfigOf(Cur, j), "noparent")
<1>1. Len(Cur.dirs) \in Nat /\ DOMAIN Cur.dirs = 1..Len(Cur.dirs)
  BY CurTyped
<1>2. Levels(Cur) = {i \in 1..Len(Cur.dirs) : \A j \in 1..(i - 1) : ~has(j)}
  BY <1>1, Zenon DEF Levels
<1>3. (\A j \in 1..(m - 1) : ~has(j)) /\ (m = Len(Cur.dirs) \/ has(m))
  OBVIOUS
<1> HIDE DEF has
<1> QED BY <1>1, <1>2, <1>3

LEMMA BaseTyped == ASSUME Queue PROVE Base \in Seq(Rules)
<1>1. DefaultFilters \in Seq(Rules) /\ Given("filter", <<>>) \in Seq(Rules)
  BY LintAssumption, GivenTyped DEF Queue
<1> QED BY <1>1, ConcatProperties DEF Base

LEMMA FiltersAre ==
  ASSUME Reading, Queue, todo # <<>>, NEW m \in 1..Len(Cur.dirs), Levels(Cur) = 1..m
  PROVE  /\ FiltersFor(Cur) = Base \o FlattenSeq(Reverse(Above(m)))
         /\ FiltersFor(Cur) \in Seq(Rules)
<1>1. m \in Nat /\ Len(Cur.dirs) \in Nat /\ m \in 0..Len(Cur.dirs)
  BY CurTyped
<1>2. Cardinality(Levels(Cur)) = m
  <2>1. Cardinality(1..m) = m
    BY <1>1, FS_Interval
  <2> QED BY <2>1
<1>3. FiltersFor(Cur) = Base \o FlattenSeq(Reverse(Above(m)))
  BY <1>2, Zenon DEF FiltersFor, Base, Above
<1>4. Base \in Seq(Rules)
  BY BaseTyped
<1>5. FlattenSeq(Reverse(Above(m))) \in Seq(Rules)
  <2> DEFINE s == Above(m)
             V == Rules
  <2>1. s \in Seq(Seq(V))
    BY <1>1, AboveMore
  <2> HIDE DEF s, V
  <2>2. Reverse(s) \in Seq(Seq(V))
    BY <2>1 DEF Reverse
  <2>3. FlattenSeq(Reverse(s)) \in Seq(V)
    BY <2>2, FlattenTyped
  <2> QED BY <2>3 DEF s, V
<1> QED BY <1>3, <1>4, <1>5, ConcatProperties

\* The next file is the next of the given ones.
LEMMA FileDone ==
  ASSUME Reading, Queue, todo # <<>>, todo' = Tail(todo), pc' = "next", UNCHANGED input
  PROVE  Queue' /\ Done' = Done \cup {Head(todo)}
<1>1. names \in Seq(DOMAIN FileOf) /\ Len(names) \in Nat
  BY LintAssumption, LenProperties DEF Queue
<1>2. /\ Len(todo) \in Nat \ {0} /\ Head(todo) = todo[1] /\ Len(Tail(todo)) = Len(todo) - 1
      /\ \A i \in 1..Len(Tail(todo)) : Tail(todo)[i] = todo[i + 1]
  BY HeadTailProperties, LenProperties, EmptySeq DEF Reading
<1>3. UNCHANGED <<flags, names, cfg>>
  BY DEF input
<1>4. Queue'
  <2>1. ASSUME NEW i \in 1..Len(todo') PROVE todo'[i] = names[Len(names) - Len(todo') + i]
    <3>1. i + 1 \in 1..Len(todo) /\ Len(names) - Len(todo) + (i + 1) = Len(names) - Len(todo') + i
      BY <1>1, <1>2
    <3>2. todo[i + 1] = names[Len(names) - Len(todo) + (i + 1)]
      BY <3>1 DEF Queue
    <3> QED BY <1>2, <3>1, <3>2
  <2>2. Len(todo') <= Len(names)
    BY <1>1, <1>2 DEF Queue
  <2> QED BY <1>3, <2>1, <2>2 DEF Queue
<1>5. Done' = Done \cup {Head(todo)}
  <2> DEFINE n == Len(names) - Len(todo)
  <2>1. n \in Nat /\ Len(names) - Len(todo') = n + 1
    BY <1>1, <1>2 DEF Queue
  <2>2. Head(todo) = names[n + 1]
    <3>1. 1 \in 1..Len(todo)
      BY <1>2
    <3> QED BY <1>2, <3>1 DEF Queue
  <2>3. Done = {names[i] : i \in 1..n}
    BY DEF Done
  <2>4. Done' = {names[i] : i \in 1..(n + 1)}
    BY <1>3, <2>1, Zenon DEF Done
  <2> HIDE DEF n
  <2>5. 1..(n + 1) = 1..n \cup {n + 1}
    BY <2>1
  <2> QED BY <2>2, <2>3, <2>4, <2>5
<1> QED BY <1>4, <1>5

\* A step that prints nothing, with the same file at hand.
LEMMA NothingRaised ==
  ASSUME Output, UNCHANGED <<report, todo, names, flags, cfg, settings, verbose>>,
         pc \notin ReadPcs, pc' \notin ReadPcs
  PROVE  Output'
<1>1. Done' = Done /\ \A name : Expected(name)' = Expected(name)
  BY SameExpected, Zenon DEF Done
<1>2. \A name : PrintedOf(name)' = PrintedOf(name)
  BY DEF PrintedOf
<1> QED BY <1>1, <1>2 DEF Output

\* The end of a file of which nothing is printed.
LEMMA NothingExpected ==
  ASSUME Output, Reading, Queue, todo # <<>>, todo' = Tail(todo), pc' = "next",
         UNCHANGED <<report, input, settings, verbose>>, pc \notin ReadPcs,
         Expected(Head(todo)) = {}
  PROVE  Output'
<1>1. Done' = Done \cup {Head(todo)}
  BY FileDone
<1>2. \A name : Expected(name)' = Expected(name)
  BY SameExpected DEF input
<1>3. \A name : PrintedOf(name)' = PrintedOf(name)
  BY DEF PrintedOf
<1>4. pc' \notin ReadPcs
  BY DEF ReadPcs
<1> QED BY <1>1, <1>2, <1>3, <1>4 DEF Output

\* A step that raises errors of the file at hand.
LEMMA ErrorsRaised ==
  ASSUME AloneInv, pc \in InFile, NEW errs, NEW s, NEW g, NEW read, Error(errs, s, g),
         s = NolintBy(Cur, read), g = ProcessGlobalSuppressions(Cur), filters = FiltersFor(Cur),
         FiltersFor(Cur) \in Seq(Rules),
         UNCHANGED <<todo, input, settings, verbose>>, pc' \in ReadPcs,
         SoFar' = (IF pc \in ReadPcs THEN SoFar ELSE {}) \cup After(read, errs)
  PROVE  Output'
<1>1. Done' = Done /\ \A name : Expected(name)' = Expected(name)
  BY SameExpected, Zenon DEF Done, input
<1>2. \A name : PrintedOf(name)' = PrintedOf(name) \cup
              (IF name = Head(todo) THEN Shows(Cur, After(read, errs)) ELSE {})
  BY ErrorShows DEF AloneInv, CountsInv, Tallied
<1>3. \A x : Shows(Cur, x)' = Shows(Cur, x)
  BY SameFile DEF input
<1>4. Shows(Cur, SoFar') = (IF pc \in ReadPcs THEN Shows(Cur, SoFar) ELSE {})
                             \cup Shows(Cur, After(read, errs))
  BY ShowsMore
<1>5. Shows(Cur, SoFar)' = Shows(Cur, SoFar')
  <2>1. UNCHANGED <<flags, cfg, verbose, todo>>
    BY DEF input
  <2>2. FiltersFor(Cur)' = FiltersFor(Cur) /\ Cur' = Cur
    BY SameFile DEF input
  <2>3. \A x : Printable(Cur, x)' <=> Printable(Cur, x)
    BY <2>1, <2>2 DEF Printable
  <2> QED BY <2>1, <2>2, <2>3, Zenon DEF Shows
<1>6. ASSUME NEW name \in DOMAIN FileOf
      PROVE  PrintedOf(name)' = (IF name \in Done THEN Expected(name) ELSE {}) \cup
               (IF name = Head(todo) THEN Shows(Cur, SoFar)' ELSE {})
  <2>1. PrintedOf(name) = (IF name \in Done THEN Expected(name) ELSE {}) \cup
               (IF pc \in ReadPcs /\ name = Head(todo) THEN Shows(Cur, SoFar) ELSE {})
    BY DEF AloneInv, Output
  <2> QED BY <1>2, <1>4, <1>5, <2>1
<1>7. Head(todo)' = Head(todo)
  OBVIOUS
<1> QED BY <1>1, <1>6, <1>7, Zenon DEF Output

LEMMA AloneArguments == ASSUME AloneInv, ParseArguments PROVE (Queue /\ InForce /\ Climb /\ Heeding /\ Output)'
<1>1. /\ pc = "args" /\ pc' \in {"next", "crash"} /\ filters' = Base
      /\ UNCHANGED <<flags, names, cfg, todo, report>>
  BY DEF ParseArguments, Goto, input, counts, Base
<1>2. pc' \notin InFile /\ pc' \notin ReadPcs /\ pc \notin ReadPcs
  BY <1>1 DEF InFile, ReadPcs
<1>3. Queue'
  BY <1>1 DEF AloneInv, Queue
<1>4. Base' = Base
  BY <1>1 DEF Base, Given
<1>5. InForce' /\ Climb' /\ Heeding'
  BY <1>1, <1>2, <1>4 DEF InForce, Climb, Heeding, InFile, ReadPcs
<1>6. Output'
  <2>1. Done = {} /\ Done' = {}
    <3>1. names \in Seq(DOMAIN FileOf) /\ Len(names) \in Nat /\ todo = names
      BY <1>1, LintAssumption, LenProperties DEF AloneInv, Queue
    <3> QED BY <1>1, <3>1 DEF Done
  <2>2. \A name : PrintedOf(name)' = PrintedOf(name)
    BY <1>1 DEF PrintedOf
  <2> QED BY <1>2, <2>1, <2>2 DEF Output, AloneInv
<1> QED BY <1>3, <1>5, <1>6

LEMMA AloneBegun == ASSUME AloneInv, ProcessFile PROVE (Queue /\ InForce /\ Climb /\ Heeding /\ Output)'
<1>1. /\ pc = "next" /\ pc' = "config" /\ todo # <<>> /\ level' = 1 /\ cfgFilters' = <<>>
      /\ filters = Base /\ filtersBackup' = filters
      /\ UNCHANGED <<flags, names, cfg, todo, filters, report, settings, verbose>>
  BY DEF ProcessFile, Goto, BackupFilters, input, counts, AloneInv, InForce
<1>2. Base' = Base /\ Cur' = Cur /\ Above(0)' = Above(0)
  BY <1>1, SameExpected, SameFile
<1>3. Len(Cur.dirs) \in Nat \ {0} /\ Above(0) = <<>>
  BY <1>1, CurTyped, AboveMore DEF AloneInv, CountsInv
<1>4. Queue' /\ InForce' /\ Heeding'
  BY <1>1, <1>2 DEF AloneInv, Queue, InForce, Heeding, InFile, ReadPcs
<1>5. Climb'
  <2>1. level' - 1 = 0 /\ 1..(level' - 1) = {}
    BY <1>1
  <2>2. cfgFilters' = Above(0)'
    BY <1>1, <1>2, <1>3
  <2>3. (cfgFilters = Above(level - 1))'
    BY <2>1, <2>2, Zenon DEF Above
  <2> QED BY <1>1, <1>2, <1>3, <2>1, <2>3 DEF Climb, InFile, ReadPcs
<1>6. Output'
  BY <1>1, NothingRaised DEF AloneInv, ReadPcs
<1> QED BY <1>4, <1>5, <1>6

LEMMA AloneConfig ==
  ASSUME FilteringConfigs, AloneInv, ProcessConfigOverrides
  PROVE  (Queue /\ InForce /\ Climb /\ Heeding /\ Output)'
<1> DEFINE options == ConfigOf(Cur, level)
           got == ReadConfig(options)
           N == Len(Cur.dirs)
<1>1. /\ pc = "config" /\ settings' = got.settings /\ cfgFilters' = got.filters /\ level' = level + 1
      /\ UNCHANGED <<flags, names, cfg, verbose, report>>
      /\ \/ got.excluded /\ filters' = filtersBackup /\ todo' = Tail(todo) /\ pc' = "next"
         \/ /\ ~got.excluded /\ UNCHANGED <<filters, filtersBackup, todo>>
            /\ pc' = IF got.look /\ level < N THEN "config" ELSE "filters"
  BY DEF ProcessConfigOverrides, ConfigOf, RestoreFilters, Goto, input, counts, fvars
<1>2. /\ Reading /\ Queue /\ todo # <<>> /\ level \in 1..N /\ N \in Nat \ {0}
      /\ options \in Range(Configs)
      /\ \A j \in 1..(level - 1) : ~Has(ConfigOf(Cur, j), "noparent")
      /\ \A j \in 1..(level - 1) : ~ExcludedAt(Head(todo), j)
      /\ cfgFilters = Above(level - 1) /\ filters = Base /\ filtersBackup = Base
  <2>1. Reading /\ Queue /\ todo # <<>> /\ level \in 1..N
    BY <1>1 DEF AloneInv, CountsInv, Reading, Climb, InFile
  <2>2. N \in Nat \ {0} /\ options \in Range(Configs)
    BY <2>1, CurTyped
  <2> HIDE DEF N, options
  <2> QED BY <1>1, <2>1, <2>2 DEF AloneInv, Climb, InForce, InFile
<1>3. cfgFilters \in Seq(Seq(Rules)) /\ Above(level) = cfgFilters \o FilterLines(options)
  <2>1. level - 1 \in 0..N
    BY <1>2
  <2> HIDE DEF N
  <2> QED BY <1>2, <2>1, AboveMore DEF N
<1>4. /\ got.settings = settings
      /\ got.excluded <=> ExcludedAt(Head(todo), level)
      /\ ~got.excluded => /\ got.look <=> ~Has(options, "noparent")
                          /\ got.filters = cfgFilters \o FilterLines(options)
  <2>1. /\ got.settings = settings
        /\ got.excluded <=> \E j \in DOMAIN options :
                 options[j].name = "exclude_files" /\ BaseName \in options[j].val
        /\ ~got.excluded => /\ got.look <=> ~Has(options, "noparent")
                            /\ got.filters = cfgFilters \o FilterLines(options)
    <3> HIDE DEF options
    <3> QED BY <1>2, <1>3, ConfigRead
  <2>2. ExcludedAt(Head(todo), level) <=> \E j \in DOMAIN options :
                 options[j].name = "exclude_files" /\ BaseName \in options[j].val
    BY Zenon DEF ExcludedAt, BaseName, Cur
  <2> QED BY <2>1, <2>2
<1> HIDE DEF got
<1>5. UNCHANGED settings /\ Base' = Base
  BY <1>1, <1>4, SameExpected
<1>6. CASE got.excluded
  <2>1. filters' = filtersBackup /\ todo' = Tail(todo) /\ pc' = "next"
    BY <1>1, <1>6
  <2>2. Queue'
    BY <1>1, <1>2, <2>1, FileDone DEF input
  <2>3. InForce' /\ Climb' /\ Heeding'
    BY <1>2, <1>5, <2>1 DEF InForce, Climb, Heeding, InFile, ReadPcs
  <2>4. Expected(Head(todo)) = {}
    <3>1. level \in Levels(Cur)
      <4>1. DOMAIN Cur.dirs = 1..Len(Cur.dirs)
        BY <1>2, CurTyped
      <4> QED BY <1>2, <4>1, Zenon DEF Levels
    <3>2. ~Linted(Head(todo))
      BY <1>4, <1>6, <3>1, Zenon DEF Linted, Cur
    <3> QED BY <3>2 DEF Expected
  <2>5. Output'
    BY <1>1, <1>2, <1>5, <2>1, <2>4, NothingExpected DEF AloneInv, input, ReadPcs
  <2> QED BY <2>2, <2>3, <2>5
<1>7. CASE ~got.excluded
  <2>1. /\ UNCHANGED <<filters, filtersBackup, todo>>
        /\ pc' = IF got.look /\ level < N THEN "config" ELSE "filters"
    BY <1>1, <1>7
  <2>2. Queue' /\ InForce' /\ Heeding'
    BY <1>1, <1>2, <1>5, <2>1 DEF Queue, InForce, Heeding, InFile, ReadPcs
  <2>3. Output'
    BY <1>1, <1>5, <2>1, NothingRaised DEF AloneInv, ReadPcs
  <2>4. /\ Cur' = Cur /\ \A j : ConfigOf(Cur, j)' = ConfigOf(Cur, j)
        /\ \A j : ExcludedAt(Head(todo), j)' = ExcludedAt(Head(todo), j)
        /\ Levels(Cur)' = Levels(Cur)
    BY <1>1, <1>5, <2>1, SameFile
  <2>5. level' - 1 = level /\ level' \in 2..(N + 1) /\ 1..(level' - 1) = 1..(level - 1) \cup {level}
    BY <1>1, <1>2
  <2>6. (cfgFilters = Above(level - 1))'
    <3>1. cfgFilters' = Above(level)
      BY <1>1, <1>3, <1>4, <1>7
    <3>2. \A i : ConfigOf(Cur, i)' = ConfigOf(Cur, i)
      BY <2>4
    <3>3. Above(level - 1)' = FlattenSeq([i \in 1..(level' - 1) |-> FilterLines(ConfigOf(Cur, i))])
      BY <3>2, Zenon DEF Above
    <3> QED BY <2>5, <3>1, <3>3 DEF Above
  <2>7. (\A j \in 1..(level - 1) : ~ExcludedAt(Head(todo), j))'
    <3>1. \A j \in 1..(level' - 1) : ~ExcludedAt(Head(todo), j)
      BY <1>2, <1>4, <1>7, <2>5
    <3> QED BY <2>4, <3>1, Zenon
  <2>8. CASE got.look /\ level < N
    <3>1. \A j \in 1..(level' - 1) : ~Has(ConfigOf(Cur, j), "noparent")
      BY <1>2, <1>4, <1>7, <2>5, <2>8
    <3>2. level' \in 1..N /\ pc' = "config"
      <4>1. pc' = "config"
        BY <2>1, <2>8
      <4> HIDE DEF N
      <4> QED BY <1>1, <1>2, <2>8, <4>1
    <3>3. (\A j \in 1..(level - 1) : ~Has(ConfigOf(Cur, j), "noparent"))'
      BY <2>4, <3>1, Zenon
    <3> QED BY <2>2, <2>3, <2>4, <2>6, <2>7, <3>2, <3>3 DEF Climb, InFile, ReadPcs
  <2>9. CASE ~(got.look /\ level < N)
    <3>1. level = N \/ Has(ConfigOf(Cur, level), "noparent")
      BY <1>2, <1>4, <1>7, <2>9
    <3>2. Levels(Cur) = 1..level
      BY <1>2, <3>1, ClimbedTo
    <3>3. Levels(Cur)' = 1..(level' - 1) /\ pc' = "filters"
      BY <2>1, <2>4, <2>5, <2>9, <3>2
    <3> HIDE DEF options
    <3> QED BY <2>2, <2>3, <2>4, <2>5, <2>6, <2>7, <3>3 DEF Climb, InFile, ReadPcs
  <2> QED BY <2>8, <2>9
<1> QED BY <1>6, <1>7

\* The filters in force while a file is read.
LEMMA FiltersOfFile ==
  ASSUME AloneInv, pc \in InFile \ {"config"}
  PROVE  /\ FiltersFor(Cur) = Base \o FlattenSeq(Reverse(Above(level - 1)))
         /\ FiltersFor(Cur) \in Seq(Rules)
<1> DEFINE m == level - 1
<1>1. Reading /\ Queue /\ todo # <<>> /\ level \in 2..(Len(Cur.dirs) + 1) /\ Levels(Cur) = 1..m
  BY DEF AloneInv, CountsInv, Reading, Climb
<1>2. m \in 1..Len(Cur.dirs)
  BY <1>1, CurTyped
<1> HIDE DEF m
<1>3. /\ FiltersFor(Cur) = Base \o FlattenSeq(Reverse(Above(m)))
      /\ FiltersFor(Cur) \in Seq(Rules)
  BY <1>1, <1>2, FiltersAre
<1> QED BY <1>3 DEF m

\* With the level and the file what they were, the climb is over as it was.
LEMMA ClimbOver ==
  ASSUME Climb, UNCHANGED <<flags, cfg, settings, verbose, todo, level>>,
         pc \in InFile \ {"config"}, pc' \in InFile \ {"config", "filters"}
  PROVE  Climb'
<1>1. /\ Cur' = Cur /\ Levels(Cur)' = Levels(Cur)
      /\ \A j : ExcludedAt(Head(todo), j)' = ExcludedAt(Head(todo), j)
  BY SameFile
<1>2. (\A j \in 1..(level - 1) : ~ExcludedAt(Head(todo), j))'
  BY <1>1, Zenon DEF Climb
<1>3. (level \in 2..(Len(Cur.dirs) + 1) /\ Levels(Cur) = 1..(level - 1))'
  BY <1>1 DEF Climb
<1> QED BY <1>2, <1>3 DEF Climb

LEMMA AloneFilters == ASSUME AloneInv, AddFilters PROVE (Queue /\ InForce /\ Climb /\ Heeding /\ Output)'
<1>1. /\ pc = "filters" /\ pc' \in {"open", "crash"}
      /\ filters' = filters \o FlattenSeq(Reverse(cfgFilters))
      /\ UNCHANGED <<flags, names, cfg, todo, level, filtersBackup, verbose, settings, report>>
  BY DEF AddFilters, Goto, input, counts
<1>2. filters' = FiltersFor(Cur) /\ filtersBackup = Base
  BY <1>1, FiltersOfFile DEF AloneInv, InForce, Climb, InFile
<1>3. FiltersFor(Cur)' = FiltersFor(Cur) /\ Base' = Base
  BY <1>1, SameFile, SameExpected
<1>4. Queue' /\ InForce' /\ Heeding'
  BY <1>1, <1>2, <1>3 DEF AloneInv, Queue, InForce, Heeding, InFile, ReadPcs
<1>5. Climb'
  BY <1>1, ClimbOver DEF AloneInv, Climb, InFile, ReadPcs
<1>6. Output'
  BY <1>1, NothingRaised DEF AloneInv, ReadPcs
<1> QED BY <1>4, <1>5, <1>6

LEMMA AloneSkipped == ASSUME AloneInv, Skip PROVE (Queue /\ InForce /\ Climb /\ Heeding /\ Output)'
<1>1. /\ pc = "open" /\ pc' = "next" /\ todo' = Tail(todo) /\ filters' = filtersBackup
      /\ ~Cur.readable \/ Cur.ext \notin settings.extensions
      /\ UNCHANGED <<flags, names, cfg, verbose, settings, report>>
  BY DEF Skip, RestoreFilters, Goto, input, counts
<1>2. Reading /\ Queue /\ todo # <<>> /\ filtersBackup = Base
  BY <1>1 DEF AloneInv, CountsInv, Reading, InForce, InFile
<1>3. Queue' /\ Base' = Base
  BY <1>1, <1>2, FileDone, SameExpected DEF input
<1>4. InForce' /\ Climb' /\ Heeding'
  BY <1>1, <1>2, <1>3 DEF InForce, Climb, Heeding, InFile, ReadPcs
<1>5. Expected(Head(todo)) = {}
  <2>1. ~Linted(Head(todo))
    BY <1>1 DEF Linted, Cur
  <2> QED BY <2>1 DEF Expected
<1>6. Output'
  BY <1>1, <1>2, <1>5, NothingExpected DEF AloneInv, input, ReadPcs
<1> QED BY <1>3, <1>4, <1>6

\* What every step has in common that reads a line of the file or ends its
\* reading, and what holds when it begins.
LEMMA AloneReading ==
  ASSUME AloneInv, pc \in ReadPcs \cup {"open"}
  PROVE  /\ Reading /\ Queue /\ todo # <<>> /\ pc \in InFile \ {"config"}
         /\ filters = FiltersFor(Cur) /\ FiltersFor(Cur) \in Seq(Rules) /\ filtersBackup = Base
         /\ Len(Cur.lines) \in Nat /\ DOMAIN Cur.lines = 1..Len(Cur.lines)
<1>1. pc \in InFile \ {"config"} /\ pc \in InFile
  BY DEF InFile, ReadPcs
<1>2. Reading /\ Queue /\ todo # <<>>
  BY <1>1 DEF AloneInv, CountsInv, Reading
<1>3. filters = FiltersFor(Cur) /\ filtersBackup = Base
  BY <1>1 DEF AloneInv, InForce
<1> QED BY <1>1, <1>2, <1>3, FiltersOfFile, CurTyped

LEMMA StillReading ==
  ASSUME AloneInv, pc \in ReadPcs \cup {"open"}, pc' \in ReadPcs,
         UNCHANGED <<flags, names, cfg, settings, verbose, todo, level, filters, filtersBackup>>
  PROVE  Queue' /\ InForce' /\ Climb'
<1>1. FiltersFor(Cur)' = FiltersFor(Cur) /\ Base' = Base
  BY SameFile, SameExpected
<1>2. pc \in InFile \ {"config"} /\ pc' \in InFile \ {"config", "filters"}
  BY DEF InFile, ReadPcs
<1>3. Queue' /\ InForce'
  BY <1>1, AloneReading DEF AloneInv, Queue, InForce, ReadPcs
<1>4. Climb'
  BY <1>2, ClimbOver DEF AloneInv
<1> QED BY <1>3, <1>4

\* What SoFar and Heeded become when the file at hand stays.
LEMMA PartsNext ==
  ASSUME UNCHANGED <<flags, cfg, settings, verbose, todo>>
  PROVE  /\ SoFar' = IF pc' \in {"noguard", "ifndef"} THEN First(Cur)
                     ELSE IF pc' = "endif" THEN First(Cur) \cup Ifndef(Cur)
                     ELSE First(Cur) \cup Missing(Cur) \cup Ifndef(Cur) \cup Endif(Cur)
                            \cup LinesTo(Cur, at' - 1)
         /\ Heeded' = IF pc' \in {"noguard", "ifndef"} THEN {}
                      ELSE IF pc' = "endif" THEN IfndefRead(Cur)
                      ELSE GuardRead(Cur) \cup 1..(at' - 1)
         /\ LinesTo(Cur, 0) = {}
         /\ \A n \in Nat : LinesTo(Cur, n + 1) = LinesTo(Cur, n) \cup OfLine(Cur, n + 1)
<1>1. /\ IfndefRead(Cur)' = IfndefRead(Cur) /\ GuardRead(Cur)' = GuardRead(Cur)
      /\ First(Cur)' = First(Cur) /\ Missing(Cur)' = Missing(Cur)
      /\ Ifndef(Cur)' = Ifndef(Cur) /\ Endif(Cur)' = Endif(Cur)
      /\ \A n : OfLine(Cur, n)' = OfLine(Cur, n)
  BY SameFile
<1>2. LinesTo(Cur, at - 1)' = LinesTo(Cur, at' - 1)
  BY <1>1, Zenon DEF LinesTo
<1>3. SoFar' = IF pc' \in {"noguard", "ifndef"} THEN First(Cur)
               ELSE IF pc' = "endif" THEN First(Cur) \cup Ifndef(Cur)
               ELSE First(Cur) \cup Missing(Cur) \cup Ifndef(Cur) \cup Endif(Cur)
                      \cup LinesTo(Cur, at' - 1)
  BY <1>1, <1>2 DEF SoFar
<1>4. Heeded' = IF pc' \in {"noguard", "ifndef"} THEN {}
                ELSE IF pc' = "endif" THEN IfndefRead(Cur)
                ELSE GuardRead(Cur) \cup 1..(at' - 1)
  BY <1>1 DEF Heeded
<1>5. /\ LinesTo(Cur, 0) = {}
      /\ \A n \in Nat : LinesTo(Cur, n + 1) = LinesTo(Cur, n) \cup OfLine(Cur, n + 1)
  <2> DEFINE P(k) == OfLine(Cur, k)
  <2>1. LinesTo(Cur, 0) = UNION {P(k) : k \in 1..0}
    BY Zenon DEF LinesTo
  <2>2. \A n : LinesTo(Cur, n) = UNION {P(k) : k \in 1..n}
    BY Zenon DEF LinesTo
  <2>3. \A n \in Nat : 1..(n + 1) = 1..n \cup {n + 1}
    OBVIOUS
  <2>4. \A n \in Nat : P(n + 1) = OfLine(Cur, n + 1)
    OBVIOUS
  <2> HIDE DEF P
  <2> QED BY <2>1, <2>2, <2>3, <2>4
<1> QED BY <1>3, <1>4, <1>5

LEMMA AloneData ==
  ASSUME AloneInv, ProcessFileData PROVE (Queue /\ InForce /\ Climb /\ Heeding /\ Output)'
<1>1. /\ pc = "open" /\ pc' = GuardStart(Cur) /\ at' = 1 /\ sup' = {}
      /\ Cur.readable /\ Cur.ext \in settings.extensions
      /\ globalSup' = ProcessGlobalSuppressions(Cur)
      /\ Error(FirstErrors(Cur), sup', globalSup')
      /\ UNCHANGED <<flags, names, cfg, settings, verbose, todo, level, filters, filtersBackup>>
  BY DEF ProcessFileData, Goto, input, fvars, ResetNolintSuppressions
<1>2. pc' \in ReadPcs /\ pc \notin ReadPcs
  BY <1>1 DEF GuardStart, ReadPcs
<1>3. Queue' /\ InForce' /\ Climb'
  BY <1>1, <1>2, StillReading
<1>4. at' - 1 = 0 /\ 1..0 = {}
  BY <1>1
<1>5. Heeded' = {} /\ SoFar' = First(Cur)
  <2>1. CASE pc' \in {"noguard", "ifndef"}
    BY <1>1, <2>1, PartsNext
  <2>2. CASE pc' = "endif"
    <3>1. IfndefRead(Cur) = {} /\ Ifndef(Cur) = {}
      BY <1>1, <2>2 DEF IfndefRead, Ifndef
    <3> QED BY <1>1, <2>2, <3>1, PartsNext
  <2>3. CASE pc' = "lines"
    <3>1. GuardRead(Cur) = {} /\ Missing(Cur) = {} /\ Ifndef(Cur) = {} /\ Endif(Cur) = {}
      BY <1>1, <2>3 DEF GuardRead, Missing, Ifndef, Endif
    <3> QED BY <1>1, <1>4, <2>3, <3>1, PartsNext
  <2> QED BY <1>2, <2>1, <2>2, <2>3 DEF ReadPcs
<1>6. Heeding'
  <2>1. /\ Cur' = Cur /\ GuardStart(Cur)' = GuardStart(Cur)
        /\ ProcessGlobalSuppressions(Cur)' = ProcessGlobalSuppressions(Cur)
    BY <1>1, SameFile
  <2>2. sup' = NolintBy(Cur, Heeded)'
    <3>1. NolintBy(Cur, {}) = {}
      BY NolintMore
    <3> QED BY <1>1, <1>5, <2>1, <3>1
  <2>3. Len(Cur.lines) \in Nat
    BY <1>1, AloneReading
  <2> QED BY <1>1, <1>4, <2>1, <2>2, <2>3 DEF Heeding, ReadPcs
<1>7. Output'
  <2>1. /\ pc \in InFile /\ filters = FiltersFor(Cur) /\ FiltersFor(Cur) \in Seq(Rules)
    BY <1>1, AloneReading
  <2>2. sup' = NolintBy(Cur, {})
    BY <1>1, NolintMore
  <2>3. SoFar' = (IF pc \in ReadPcs THEN SoFar ELSE {}) \cup After({}, FirstErrors(Cur))
    BY <1>2, <1>5 DEF First
  <2> QED BY <1>1, <1>2, <2>1, <2>2, <2>3, ErrorsRaised DEF input
<1> QED BY <1>3, <1>6, <1>7

\* The lines of the guard.
LEMMA AloneGuard ==
  ASSUME AloneInv, MissingGuard \/ CheckIfndef \/ CheckEndif
  PROVE  (Queue /\ InForce /\ Climb /\ Heeding /\ Output)'
<1>1. /\ pc \in {"noguard", "ifndef", "endif"} /\ pc' \in {"endif", "lines"}
      /\ UNCHANGED <<flags, names, cfg, settings, verbose, todo, level, at, filters, filtersBackup,
                     globalSup>>
  BY DEF MissingGuard, CheckIfndef, CheckEndif, ReadLine, Goto, input, fvars, supvars
<1>2. /\ pc \in ReadPcs /\ pc' \in ReadPcs /\ pc \in InFile
      /\ at = 1 /\ at - 1 = 0 /\ at' - 1 = 0 /\ 1..0 = {}
      /\ Cur.readable /\ Cur.ext \in settings.extensions
      /\ sup = NolintBy(Cur, Heeded) /\ globalSup = ProcessGlobalSuppressions(Cur)
  BY <1>1 DEF AloneInv, Heeding, InFile, ReadPcs
<1>3. Queue' /\ InForce' /\ Climb'
  BY <1>1, <1>2, StillReading
<1>4. SUFFICES ASSUME NEW errs, NEW read, Error(errs, sup', globalSup'),
                      sup' = NolintBy(Cur, read), read = Heeded',
                      SoFar' = SoFar \cup After(read, errs),
                      pc' = "endif" => GuardStart(Cur) \in {"ifndef", "endif"}
               PROVE  Heeding' /\ Output'
  <2>1. CASE MissingGuard
    <3>1. /\ pc = "noguard" /\ pc' = "lines" /\ UNCHANGED <<sup, globalSup>>
          /\ Error(NoGuardErrors, sup, globalSup)
      BY <2>1 DEF MissingGuard, Goto, supvars
    <3>2. GuardStart(Cur) = "noguard"
      BY <3>1 DEF AloneInv, Heeding
    <3>3. /\ GuardRead(Cur) = {} /\ Ifndef(Cur) = {} /\ Endif(Cur) = {}
          /\ Missing(Cur) = After({}, NoGuardErrors)
      BY <3>2 DEF GuardRead, Ifndef, Endif, Missing
    <3>4. Heeded = {} /\ SoFar = First(Cur)
      BY <3>1 DEF Heeded, SoFar
    <3>5. Heeded' = {} /\ SoFar' = SoFar \cup After({}, NoGuardErrors)
      BY <1>1, <1>2, <3>1, <3>3, <3>4, PartsNext
    <3> QED BY <1>2, <1>3, <1>4, <3>1, <3>4, <3>5
  <2>2. CASE CheckIfndef
    <3> DEFINE n == Cur.guard.ifndef
    <3>1. /\ pc = "ifndef" /\ pc' = "endif" /\ globalSup' = globalSup
          /\ sup' = sup \cup ParseNolintSuppressions(Cur, n)
          /\ Error(IfndefErrors(Cur), sup', globalSup)
      BY <2>2 DEF CheckIfndef, ReadLine, Goto
    <3>2. GuardStart(Cur) = "ifndef"
      BY <3>1 DEF AloneInv, Heeding
    <3>3. IfndefRead(Cur) = {n} /\ Ifndef(Cur) = After({n}, IfndefErrors(Cur))
      BY <3>2 DEF IfndefRead, Ifndef
    <3>4. Heeded = {} /\ SoFar = First(Cur)
      BY <3>1 DEF Heeded, SoFar
    <3>5. Heeded' = {n} /\ SoFar' = SoFar \cup After({n}, IfndefErrors(Cur))
      BY <1>1, <3>1, <3>3, <3>4, PartsNext
    <3>6. sup' = NolintBy(Cur, {n})
      <4> HIDE DEF n
      <4>1. NolintBy(Cur, {} \cup {n}) = NolintBy(Cur, {}) \cup ParseNolintSuppressions(Cur, n)
        BY NolintMore
      <4>2. {} \cup {n} = {n}
        OBVIOUS
      <4> QED BY <1>2, <3>1, <3>4, <4>1, <4>2
    <3> HIDE DEF n
    <3> QED BY <1>3, <1>4, <3>1, <3>2, <3>5, <3>6
  <2>3. CASE CheckEndif
    <3> DEFINE n == Cur.guard.endif
    <3>1. /\ pc = "endif" /\ pc' = "lines" /\ globalSup' = globalSup
          /\ sup' = sup \cup ParseNolintSuppressions(Cur, n)
          /\ Error(EndifErrors(Cur), sup', globalSup)
      BY <2>3 DEF CheckEndif, ReadLine, Goto
    <3>2. GuardStart(Cur) \in {"ifndef", "endif"}
      BY <3>1 DEF AloneInv, Heeding
    <3>3. /\ GuardRead(Cur) = IfndefRead(Cur) \cup {n} /\ Missing(Cur) = {}
          /\ Endif(Cur) = After(GuardRead(Cur), EndifErrors(Cur))
      BY <3>2 DEF GuardRead, Missing, Endif
    <3>4. Heeded = IfndefRead(Cur) /\ SoFar = First(Cur) \cup Ifndef(Cur)
      BY <3>1 DEF Heeded, SoFar
    <3>5. Heeded' = GuardRead(Cur) /\ SoFar' = SoFar \cup After(GuardRead(Cur), EndifErrors(Cur))
      BY <1>1, <1>2, <3>1, <3>3, <3>4, PartsNext
    <3>6. sup' = NolintBy(Cur, GuardRead(Cur))
      <4> HIDE DEF n
      <4>1. NolintBy(Cur, IfndefRead(Cur) \cup {n}) =
              NolintBy(Cur, IfndefRead(Cur)) \cup ParseNolintSuppressions(Cur, n)
        BY NolintMore
      <4> QED BY <1>2, <3>1, <3>3, <3>4, <4>1
    <3> HIDE DEF n
    <3> QED BY <1>3, <1>4, <3>1, <3>2, <3>5, <3>6
  <2> QED BY <2>1, <2>2, <2>3
<1>5. /\ Cur' = Cur /\ GuardStart(Cur)' = GuardStart(Cur)
      /\ ProcessGlobalSuppressions(Cur)' = ProcessGlobalSuppressions(Cur)
  BY <1>1, SameFile
<1>6. Heeding'
  <2>1. sup' = NolintBy(Cur, Heeded)'
    BY <1>4, <1>5
  <2>2. Len(Cur.lines) \in Nat
    BY <1>2, AloneReading
  <2> QED BY <1>1, <1>2, <1>4, <1>5, <2>1, <2>2 DEF Heeding, ReadPcs
<1>7. Output'
  <2>1. filters = FiltersFor(Cur) /\ FiltersFor(Cur) \in Seq(Rules)
    BY <1>2, AloneReading
  <2> QED BY <1>1, <1>2, <1>4, <2>1, ErrorsRaised DEF input
<1> QED BY <1>6, <1>7

LEMMA AloneLine == ASSUME AloneInv, ProcessLine PROVE (Queue /\ InForce /\ Climb /\ Heeding /\ Output)'
<1> DEFINE read == GuardRead(Cur) \cup 1..at
<1>1. /\ pc = "lines" /\ pc' = "lines" /\ at <= Len(Cur.lines) /\ at' = at + 1
      /\ sup' = sup \cup ParseNolintSuppressions(Cur, at) /\ globalSup' = globalSup
      /\ Error(LineErrors(Cur, at), sup', globalSup)
      /\ UNCHANGED <<flags, names, cfg, settings, verbose, todo, level, filters, filtersBackup>>
  BY DEF ProcessLine, ReadLine, input, fvars
<1>2. /\ pc \in ReadPcs /\ pc' \in ReadPcs /\ pc \in InFile /\ pc \notin ReadPcs \ {"lines"}
      /\ at \in Nat /\ at >= 1 /\ at' - 1 = at
      /\ Cur.readable /\ Cur.ext \in settings.extensions
      /\ sup = NolintBy(Cur, Heeded) /\ globalSup = ProcessGlobalSuppressions(Cur)
  BY <1>1 DEF AloneInv, CountsInv, Reading, Heeding, InFile, ReadPcs
<1>3. Queue' /\ InForce' /\ Climb'
  BY <1>1, <1>2, StillReading
<1>4. Heeded' = read /\ read = Heeded \cup {at}
  <2>1. Heeded = GuardRead(Cur) \cup 1..(at - 1)
    BY <1>1 DEF Heeded
  <2>2. 1..at = 1..(at - 1) \cup {at}
    BY <1>2
  <2>3. Heeded' = GuardRead(Cur) \cup 1..(at' - 1)
    BY <1>1, PartsNext
  <2> QED BY <1>2, <2>1, <2>2, <2>3
<1>5. SoFar' = SoFar \cup After(read, LineErrors(Cur, at))
  <2> DEFINE rest == First(Cur) \cup Missing(Cur) \cup Ifndef(Cur) \cup Endif(Cur)
  <2>1. SoFar = rest \cup LinesTo(Cur, at - 1)
    BY <1>1 DEF SoFar
  <2>2. SoFar' = rest \cup LinesTo(Cur, at)
    BY <1>1, <1>2, PartsNext
  <2>3. LinesTo(Cur, at) = LinesTo(Cur, at - 1) \cup OfLine(Cur, at)
    <3> DEFINE n == at - 1
    <3>1. n \in Nat /\ n + 1 = at
      BY <1>2
    <3> HIDE DEF n
    <3>2. LinesTo(Cur, n + 1) = LinesTo(Cur, n) \cup OfLine(Cur, n + 1)
      BY <1>1, <3>1, PartsNext
    <3>3. LinesTo(Cur, at) = LinesTo(Cur, n) \cup OfLine(Cur, at)
      BY <3>1, <3>2
    <3> QED BY <3>3 DEF n
  <2>4. OfLine(Cur, at) = After(read, LineErrors(Cur, at))
    BY DEF OfLine
  <2> HIDE DEF rest, read
  <2> QED BY <2>1, <2>2, <2>3, <2>4
<1>6. sup' = NolintBy(Cur, read)
  <2>1. NolintBy(Cur, Heeded \cup {at}) = NolintBy(Cur, Heeded) \cup ParseNolintSuppressions(Cur, at)
    BY NolintMore
  <2> HIDE DEF read
  <2> QED BY <1>1, <1>2, <1>4, <2>1
<1> HIDE DEF read
<1>7. Heeding'
  <2>1. /\ Cur' = Cur /\ ProcessGlobalSuppressions(Cur)' = ProcessGlobalSuppressions(Cur)
    BY <1>1, SameFile
  <2>2. sup' = NolintBy(Cur, Heeded)'
    BY <1>4, <1>6, <2>1
  <2>3. pc' \notin ReadPcs \ {"lines"} /\ pc' \notin {"noguard", "ifndef", "endif"}
    BY <1>1
  <2> QED BY <1>1, <1>2, <2>1, <2>2, <2>3 DEF Heeding
<1>8. Output'
  <2>1. filters = FiltersFor(Cur) /\ FiltersFor(Cur) \in Seq(Rules)
    BY <1>2, AloneReading
  <2> QED BY <1>1, <1>2, <1>5, <1>6, <2>1, ErrorsRaised DEF input
<1> QED BY <1>3, <1>7, <1>8

LEMMA AloneFinished == ASSUME AloneInv, FinishFile PROVE (Queue /\ InForce /\ Climb /\ Heeding /\ Output)'
<1> DEFINE name == Head(todo)
<1>1. /\ pc = "lines" /\ at > Len(Cur.lines) /\ Error(LastErrors(Cur), sup, globalSup)
      /\ filters' = filtersBackup /\ todo' = Tail(todo) /\ pc' = "next"
      /\ UNCHANGED <<flags, names, cfg, settings, verbose>>
  BY DEF FinishFile, RestoreFilters, Goto, input
<1>2. /\ pc \in ReadPcs /\ pc' \notin ReadPcs
      /\ Cur.readable /\ Cur.ext \in settings.extensions /\ at \in Nat /\ at - 1 <= Len(Cur.lines)
      /\ sup = NolintBy(Cur, Heeded) /\ globalSup = ProcessGlobalSuppressions(Cur)
      /\ Levels(Cur) = 1..(level - 1) /\ \A j \in 1..(level - 1) : ~ExcludedAt(name, j)
  BY <1>1 DEF AloneInv, CountsInv, Reading, Heeding, Climb, InFile, ReadPcs
<1>3. /\ Reading /\ Queue /\ todo # <<>> /\ filtersBackup = Base
      /\ filters = FiltersFor(Cur) /\ FiltersFor(Cur) \in Seq(Rules)
      /\ Len(Cur.lines) \in Nat /\ DOMAIN Cur.lines = 1..Len(Cur.lines)
  BY <1>2, AloneReading
<1>4. Queue' /\ Done' = Done \cup {name}
  BY <1>1, <1>3, FileDone DEF input
<1>5. Base' = Base /\ \A x : Expected(x)' = Expected(x)
  BY <1>1, SameExpected
<1>6. InForce' /\ Climb' /\ Heeding'
  BY <1>1, <1>3, <1>5 DEF InForce, Climb, Heeding, InFile, ReadPcs
<1>7. Expected(name) = Shows(Cur, SoFar \cup After(Heeded, LastErrors(Cur)))
  <2>1. at - 1 = Len(Cur.lines)
    BY <1>1, <1>2, <1>3
  <2>2. Heeded = GuardRead(Cur) \cup DOMAIN Cur.lines
    BY <1>1, <1>3, <2>1 DEF Heeded
  <2>3. SoFar = First(Cur) \cup Missing(Cur) \cup Ifndef(Cur) \cup Endif(Cur) \cup
                  (UNION {OfLine(Cur, n) : n \in DOMAIN Cur.lines})
    BY <1>1, <1>3, <2>1 DEF SoFar, LinesTo
  <2>4. Raised(Cur) = First(Cur) \cup Missing(Cur) \cup Ifndef(Cur) \cup Endif(Cur) \cup
           (UNION {OfLine(Cur, n) : n \in DOMAIN Cur.lines}) \cup
           After(GuardRead(Cur) \cup DOMAIN Cur.lines, LastErrors(Cur))
    BY DEF Raised, First, Missing, Ifndef, Endif, OfLine, GuardRead, IfndefRead, After
  <2>5. Raised(Cur) = SoFar \cup After(Heeded, LastErrors(Cur))
    BY <2>2, <2>3, <2>4
  <2>6. Linted(name)
    BY <1>2, Zenon DEF Linted, Cur
  <2>7. Expected(name) = Shows(Cur, Raised(Cur))
    BY <2>6, Zenon DEF Expected, Shows, Printable, Cur
  <2> QED BY <2>5, <2>7
<1>8. Output'
  <2>1. \A x : PrintedOf(x)' = PrintedOf(x) \cup
          (IF x = name THEN Shows(Cur, After(Heeded, LastErrors(Cur))) ELSE {})
    BY <1>1, <1>2, <1>3, ErrorShows DEF AloneInv, CountsInv, Tallied
  <2>2. Expected(name) = Shows(Cur, SoFar) \cup Shows(Cur, After(Heeded, LastErrors(Cur)))
    BY <1>7, ShowsMore
  <2>3. ASSUME NEW x \in DOMAIN FileOf
        PROVE  PrintedOf(x)' = IF x \in Done \cup {name} THEN Expected(x) ELSE {}
    <3>1. PrintedOf(x) = (IF x \in Done THEN Expected(x) ELSE {}) \cup
                         (IF x = name THEN Shows(Cur, SoFar) ELSE {})
      BY <1>2 DEF AloneInv, Output
    <3> HIDE DEF name
    <3> QED BY <2>1, <2>2, <3>1
  <2>4. ASSUME NEW x \in DOMAIN FileOf
        PROVE  PrintedOf(x)' = (IF x \in Done' THEN Expected(x)' ELSE {}) \cup {}
    BY <1>4, <1>5, <2>3
  <2> QED BY <1>2, <2>4, Zenon DEF Output
<1> QED BY <1>4, <1>6, <1>8

LEMMA AloneExit == ASSUME AloneInv, Exit PROVE (Queue /\ InForce /\ Climb /\ Heeding /\ Output)'
<1>1. /\ pc = "next" /\ pc' \in {"exit0", "exit1"}
      /\ UNCHANGED <<flags, names, cfg, todo, report, settings, verbose>>
  BY DEF Exit, Goto, input, counts
<1>2. Queue' /\ InForce' /\ Climb' /\ Heeding'
  BY <1>1 DEF AloneInv, Queue, InForce, Climb, Heeding, InFile, ReadPcs
<1>3. Output'
  BY <1>1, NothingRaised DEF AloneInv, ReadPcs
<1> QED BY <1>2, <1>3

LEMMA AloneStutter == ASSUME AloneInv, UNCHANGED vars PROVE (Queue /\ InForce /\ Climb /\ Heeding /\ Output)'
<1>1. UNCHANGED <<flags, names, cfg, pc, todo, level, at, filters, filtersBackup, verbose, settings,
                  cfgFilters, sup, globalSup, report>>
  BY DEF vars, input, fvars, supvars, counts
<1>2. /\ Base' = Base /\ Done' = Done /\ \A name : Expected(name)' = Expected(name)
      /\ \A name : PrintedOf(name)' = PrintedOf(name)
  BY <1>1, SameExpected, Zenon DEF Done, PrintedOf
<1>3. /\ Cur' = Cur /\ Head(todo)' = Head(todo) /\ GuardStart(Cur)' = GuardStart(Cur)
      /\ \A x : Shows(Cur, x)' = Shows(Cur, x)
      /\ FiltersFor(Cur)' = FiltersFor(Cur) /\ Levels(Cur)' = Levels(Cur)
      /\ \A i : ConfigOf(Cur, i)' = ConfigOf(Cur, i)
      /\ \A i : ExcludedAt(Head(todo), i)' = ExcludedAt(Head(todo), i)
      /\ \A s : NolintBy(Cur, s)' = NolintBy(Cur, s)
      /\ ProcessGlobalSuppressions(Cur)' = ProcessGlobalSuppressions(Cur)
  BY <1>1, SameFile
<1>4. SoFar' = SoFar /\ Heeded' = Heeded
  BY <1>1, PartsNext DEF SoFar, Heeded
<1>5. Above(level - 1)' = Above(level - 1)
  BY <1>1, <1>3, Zenon DEF Above
<1>6. Queue' /\ InForce'
  BY <1>1, <1>2, <1>3 DEF AloneInv, Queue, InForce
<1>7. Climb'
  BY <1>1, <1>3, <1>5 DEF AloneInv, Climb
<1>8. Heeding'
  BY <1>1, <1>3, <1>4 DEF AloneInv, Heeding
<1>9. Output'
  <2>1. FiltersFor(Cur)' = FiltersFor(Cur) /\ Shows(Cur, SoFar)' = Shows(Cur, SoFar)
    <3>1. \A x : Printable(Cur, x)' <=> Printable(Cur, x)
      BY <1>1, <1>3 DEF Printable
    <3> QED BY <1>3, <1>4, <3>1, Zenon DEF Shows
  <2> QED BY <1>1, <1>2, <1>3, <2>1, Zenon DEF AloneInv, Output
<1> QED BY <1>6, <1>7, <1>8, <1>9

LEMMA AloneNext == ASSUME FilteringConfigs, AloneInv, [Next]_vars PROVE AloneInv'
<1>1. CountsInv'
  BY NextCounts DEF AloneInv
<1>2. (Queue /\ InForce /\ Climb /\ Heeding /\ Output)'
  BY AloneArguments, AloneBegun, AloneConfig, AloneFilters, AloneSkipped, AloneData, AloneGuard,
     AloneLine, AloneFinished, AloneExit, AloneStutter DEF Next
<1> QED BY <1>1, <1>2 DEF AloneInv

LEMMA AloneInit == ASSUME Init PROVE AloneInv
<1>1. /\ flags \in DOMAIN Flags /\ names \in Orders /\ cfg \in CfgChoices
      /\ pc = "args" /\ todo = names /\ report = <<>>
  BY DEF Init
<1>2. names \in Seq(DOMAIN FileOf) /\ Len(names) \in Nat
  BY <1>1, LintAssumption, LenProperties
<1>3. Queue
  <2>1. Len(todo) <= Len(names) /\ \A i \in 1..Len(todo) : Len(names) - Len(todo) + i = i
    BY <1>1, <1>2
  <2> QED BY <1>1, <2>1 DEF Queue
<1>4. InForce /\ Climb /\ Heeding
  BY <1>1 DEF InForce, Climb, Heeding, InFile, ReadPcs
<1>5. Output
  <2>1. Done = {}
    BY <1>1, <1>2 DEF Done
  <2>2. \A name : PrintedOf(name) = {}
    BY <1>1 DEF PrintedOf, ToSet
  <2> QED BY <1>1, <2>1, <2>2 DEF Output, ReadPcs
<1> QED BY <1>3, <1>4, <1>5, InitCounts DEF AloneInv

\* As long as the configs only filter and exclude, what is printed of a file is
\* what the flags and the configs above it leave of the errors found in it:
\* filters, suppressions and exclusions end with the file, after every way
\* ProcessFile may return (RestoreFilters, ResetNolintSuppressions).
THEOREM FilesJudgedAlone == ASSUME FilteringConfigs PROVE Spec => []PrintedAlone
<1>1. AloneInv => PrintedAlone
  <2> SUFFICES ASSUME AloneInv, pc = "next", NEW name \in Done PROVE PrintedOf(name) = Expected(name)
    BY DEF PrintedAlone
  <2>1. pc \notin ReadPcs
    BY DEF ReadPcs
  <2>2. name \in DOMAIN FileOf
    <3>1. names \in Seq(DOMAIN FileOf) /\ Len(names) \in Nat /\ Len(todo) \in Nat
      BY LintAssumption, LenProperties DEF AloneInv, CountsInv, Reading, Queue
    <3>2. \A i \in 1..Len(names) : names[i] \in DOMAIN FileOf
      BY <3>1, ElementOfSeq
    <3> QED BY <3>1, <3>2 DEF Done
  <2> QED BY <2>1, <2>2 DEF AloneInv, Output
<1>2. AloneInv /\ [Next]_vars => AloneInv'
  BY AloneNext
<1> QED BY <1>1, <1>2, AloneInit, PTL DEF Spec
===============================================================================
