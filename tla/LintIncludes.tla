----------------------------- MODULE LintIncludes -----------------------------
(***************************************************************************)
(* .ci/cpplint.py: what the linter says of the #include lines of one file. *)
(* _IncludeState follows the order of the headers and remembers them       *)
(* across preprocessor branches; CheckForIncludeWhatYouUse looks at what   *)
(* it remembers once all lines have been read.                             *)
(*                                                                         *)
(* A file is a sequence of lines: an #include, a conditional directive or  *)
(* something else.  A header is a record: how it is included, the path of  *)
(* its directory, the parts of its base name ("foo", "internal") and its   *)
(* rank in the alphabetical order of canonical paths.                      *)
(***************************************************************************)
EXTENDS Integers, FiniteSets, SequencesExt, FiniteSetsExt

CONSTANTS Headers,     \* header name -> what is known of it
          Target,      \* the file being checked: dir, parts, ext
          Directives,  \* the conditional directives the file may use
          Required,    \* the headers whose names the file uses
          MaxLines,    \* bound: lines of the file
          MaxDepth     \* bound: nesting of conditionals

CSys == "c system"   CppSys == "c++ system"   LikelyMy == "likely my"
PossibleMy == "possible my"   Other == "other"
Types == {CSys, CppSys, LikelyMy, PossibleMy, Other}

Initial == 0   MyH == 1   C == 2   Cpp == 3   OtherH == 4

IncludesAssumption ==
  /\ Directives \subseteq {"if", "else", "elif", "endif"}
  /\ \A h \in DOMAIN Headers : Headers[h].rank \in Nat \ {0}
  /\ MaxLines \in Nat /\ MaxDepth \in Nat

\* A name that a file uses stands for a header of the standard library.
RequiredAssumption ==
  \A name \in Required \cap DOMAIN Headers :
    Headers[name].system /\ ~Headers[name].thirdparty

VARIABLES line,         \* lines read
          prevInclude,  \* the line before is an #include
          includeList,  \* include_list: lists of <<header, line>>
          section, lastHeader,
          errors,       \* what has been reported: <<category, line, about>>
          branch,       \* history: the branches that enclose this line
          seen,         \* history: every #include with its branches
          since,        \* history: types and order errors since ResetSection
          finished

state == <<includeList, section, lastHeader>>
hist == <<branch, seen, since>>
vars == <<line, prevInclude, state, errors, hist, finished>>

Init ==
  /\ line = 0 /\ prevInclude = FALSE
  /\ includeList = << <<>> >> /\ section = Initial /\ lastHeader = 0
  /\ errors = {} /\ branch = <<>> /\ seen = {} /\ since = <<>> /\ finished = FALSE

-------------------------------------------------------------------------------
\* Which header a name stands for.
CommonSuffixes == {<<"test", "cc">>, <<"regtest", "cc">>, <<"unittest", "cc">>,
                   <<"inl", "h">>, <<"impl", "h">>, <<"internal", "h">>}

DropCommonSuffixes(f) ==
  IF Len(f.parts) > 1 /\ <<Last(f.parts), f.ext>> \in CommonSuffixes
  THEN Front(f.parts) ELSE f.parts

ClassifyInclude(h) ==
  LET public == Front(Target.dir) \o <<"public">> IN
  CASE h.system /\ h.cpp -> CppSys
    [] h.system /\ ~h.cpp -> CSys
    [] OTHER ->
       IF /\ DropCommonSuffixes(h) = DropCommonSuffixes(Target)
          /\ h.dir = Target.dir \/ (Target.dir # <<>> /\ h.dir = public)
       THEN LikelyMy
       ELSE IF Head(h.parts) = Head(Target.parts) THEN PossibleMy ELSE Other

\* The lines of earlier #includes that are still remembered.
Remembered == UNION {ToSet(includeList[i]) : i \in DOMAIN includeList}
FindHeader(name) == {r[2] : r \in {x \in Remembered : x[1] = name}}

-------------------------------------------------------------------------------
\* CheckNextIncludeOrder: the section after a header of that type, and
\* whether the header comes too late.

\* Slip: the header the file implements is no longer accepted among the others.
NextSectionStrict(type, s) ==
  CASE type = CSys -> [to |-> IF s <= C THEN C ELSE s, late |-> s > C]
    [] type = CppSys -> [to |-> IF s <= Cpp THEN Cpp ELSE s, late |-> s > Cpp]
    [] type \in {LikelyMy, PossibleMy} ->
         [to |-> IF s <= MyH THEN MyH ELSE s, late |-> s > MyH]
    [] OTHER -> [to |-> OtherH, late |-> FALSE]

NextSection(type, s) ==
  CASE type = CSys -> [to |-> IF s <= C THEN C ELSE s, late |-> s > C]
    [] type = CppSys -> [to |-> IF s <= Cpp THEN Cpp ELSE s, late |-> s > Cpp]
    [] type \in {LikelyMy, PossibleMy} ->
         [to |-> IF s <= MyH THEN MyH ELSE OtherH, late |-> FALSE]
    [] OTHER -> [to |-> OtherH, late |-> FALSE]

\* The header the next one is compared with: none in a new section, and none
\* when this one came too late.

HeaderBefore(next) == IF next.late \/ next.to # section THEN 0 ELSE lastHeader

InAlphabeticalOrder(before, h) == ~(before > h.rank /\ prevInclude)

-------------------------------------------------------------------------------
\* CheckIncludeLine.
Say(category, about) == {<<category, line + 1, about>>}

BareName(h) ==   \* "foo.h" without a directory
  IF ~h.system /\ h.dir = <<>> /\ h.ext = "h" /\ ~h.thirdparty
  THEN Say("build/include", {}) ELSE {}

RefusedInclude(h) == ~h.system /\ h.ext = "cc" /\ h.dir # Target.dir

NextLine(isInclude) ==
  /\ ~finished /\ line < MaxLines
  /\ line' = line + 1 /\ prevInclude' = isInclude /\ UNCHANGED finished

See(name) == seen' = seen \cup {[name |-> name, line |-> line + 1, branch |-> branch]}

\* Already remembered, a .cc file of another package, or a third-party header:
\* the state of the include order does not change.
PassInclude(name) ==
  LET h == Headers[name] IN
  /\ NextLine(TRUE)
  /\ FindHeader(name) # {} \/ RefusedInclude(h) \/ h.thirdparty
  /\ errors' = errors \cup BareName(h) \cup
       (IF FindHeader(name) # {} THEN Say("duplicate", FindHeader(name))
        ELSE IF RefusedInclude(h) THEN Say("build/include", {}) ELSE {})
  /\ See(name)
  /\ UNCHANGED <<state, branch, since>>

TrackInclude(name) ==
  LET h == Headers[name]
      type == ClassifyInclude(h)
      next == NextSection(type, section)
      before == HeaderBefore(next)
  IN
  /\ NextLine(TRUE)
  /\ FindHeader(name) = {} /\ ~RefusedInclude(h) /\ ~h.thirdparty
  /\ includeList' = [includeList EXCEPT ![Len(includeList)] = Append(@, <<name, line + 1>>)]
  /\ section' = next.to
  /\ lastHeader' = h.rank
  /\ errors' = errors \cup BareName(h) \cup
       (IF next.late THEN Say("build/include_order", {}) ELSE {}) \cup
       (IF InAlphabeticalOrder(before, h) THEN {} ELSE Say("build/include_alpha", {}))
  /\ See(name)
  /\ since' = Append(since, [type |-> type, late |-> next.late, to |-> next.to, rank |-> h.rank,
                              line |-> line + 1, adjacent |-> prevInclude])
  /\ UNCHANGED branch

IncludeLine(name) == PassInclude(name) \/ TrackInclude(name)

-------------------------------------------------------------------------------
\* CheckLanguage calls ResetSection on every conditional directive.  The
\* number of the line that opens it names a conditional.
BranchAfter(d) ==
  CASE d = "if" -> Append(branch, [opened |-> line, arm |-> 1])
    [] d \in {"else", "elif"} -> [branch EXCEPT ![Len(branch)].arm = @ + 1]
    [] d = "endif" -> Front(branch)

\* Slip: the branch of #else starts with what the branch of #if has included.
ListAfterKept(d) == IF d = "if" THEN Append(includeList, <<>>) ELSE includeList

ListAfter(d) ==
  CASE d = "if" -> Append(includeList, <<>>)
    [] d \in {"else", "elif"} -> [includeList EXCEPT ![Len(includeList)] = <<>>]
    [] d = "endif" -> includeList

ResetSection(d) ==
  /\ NextLine(FALSE)
  /\ IF d = "if" THEN Len(branch) < MaxDepth ELSE branch # <<>>
  /\ includeList' = ListAfter(d)
  /\ section' = Initial /\ lastHeader' = 0
  /\ branch' = BranchAfter(d) /\ since' = <<>>
  /\ UNCHANGED <<errors, seen>>

OtherLine == NextLine(FALSE) /\ UNCHANGED <<state, errors, hist>>

-------------------------------------------------------------------------------
\* CheckForIncludeWhatYouUse: the headers the file is known to include, and
\* those that a header of the same module includes for it.  A .cc file whose
\* header is not found is left alone.
ModulePath(f, dropped) ==
  LET dir == IF f.dir = <<>> THEN <<>>
             ELSE <<Head(f.dir)>> \o
                  SelectSeq(Tail(f.dir), LAMBDA d : d \notin {"public", "internal"})
      base == IF Len(f.parts) > 1 /\ Last(f.parts) \in dropped THEN Front(f.parts) ELSE f.parts
  IN Append(dir, base)

FilesBelongToSameModule(h) ==
  /\ Target.ext \in {"c", "cc", "cpp", "cxx"} /\ h.ext = "h"
  /\ IsSuffix(ModulePath(h, {"inl"}), ModulePath(Target, {"test", "unittest", "regtest"}))

OwnHeaders == {r[1] : r \in {x \in Remembered :
                 FilesBelongToSameModule(Headers[x[1]]) /\ Headers[x[1]].readable}}

IncludeDict == {r[1] : r \in Remembered} \cup UNION {Headers[n].includes : n \in OwnHeaders}

CheckForIncludeWhatYouUse ==
  /\ ~finished /\ branch = <<>>
  /\ finished' = TRUE
  /\ errors' = errors \cup {<<"build/include_what_you_use", line, {n}>> :
         n \in IF Target.ext = "cc" /\ OwnHeaders = {} THEN {} ELSE Required \ IncludeDict}
  /\ UNCHANGED <<line, prevInclude, state, hist>>

Next ==
  \/ \E name \in DOMAIN Headers : IncludeLine(name)
  \/ \E d \in Directives : ResetSection(d)
  \/ OtherLine
  \/ CheckForIncludeWhatYouUse

Spec == Init /\ [][Next]_vars

-------------------------------------------------------------------------------
\* The places a header may take in the order the linter documents: its own
\* header first or among the others, C, then C++ system headers, then others.
Places(type) ==
  CASE type = CSys -> {2} [] type = CppSys -> {3} [] type = Other -> {4} [] OTHER -> {1, 4}

Ordered(types) ==
  \E place \in [DOMAIN types -> 1..4] :
    /\ \A i \in DOMAIN types : place[i] \in Places(types[i])
    /\ \A i, j \in DOMAIN types : i < j => place[i] <= place[j]

\* CheckNextIncludeOrder keeps one section number and never looks back; it
\* complains exactly when the headers since the last conditional directive
\* cannot be given places in the documented order.
LateIffUnordered ==
  (\E i \in DOMAIN since : since[i].late) <=>
    ~Ordered([i \in DOMAIN since |-> since[i].type])

\* IsInAlphabeticalOrder compares a header with the one remembered before it
\* if both are on consecutive #include lines of one section, and only then.
AlphaWithinSection ==
  \A i \in DOMAIN since :
    (<<"build/include_alpha", since[i].line, {}>> \in errors) <=>
      /\ i > 1 /\ ~since[i].late /\ since[i].adjacent
      /\ since[i - 1].to = since[i].to
      /\ since[i - 1].rank > since[i].rank

Exclusive(b1, b2) ==
  \E i \in DOMAIN b1, j \in DOMAIN b2 :
    b1[i].opened = b2[j].opened /\ b1[i].arm # b2[j].arm

\* FindHeader across preprocessor branches: a header reported as already
\* included can be included twice, the earlier line is not in another branch
\* of the same conditional.
DuplicateIsReal ==
  \A e \in errors : e[1] = "duplicate" =>
    \E first, second \in seen :
      /\ first.line \in e[3] /\ second.line = e[2] /\ first.name = second.name
      /\ ~Exclusive(first.branch, second.branch)

\* CheckForIncludeWhatYouUse: a header reported as missing is not included
\* outside of conditionals, whatever #else made ResetSection forget.
MissingIsReal ==
  \A e \in errors : e[1] = "build/include_what_you_use" =>
    \A s \in seen : s.name \in e[3] => s.branch # <<>>
===============================================================================
