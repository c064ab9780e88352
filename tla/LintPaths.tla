------------------------------- MODULE LintPaths ------------------------------
(***************************************************************************)
(* .ci/cpplint.py, FileInfo.RepositoryName and GetHeaderGuardCPPVariable:  *)
(* which part of a header's path names its guard.  The linter looks for    *)
(* the top of the checkout, takes the path below it, and takes off the     *)
(* directory given with --root.                                            *)
(*                                                                         *)
(* A path is the sequence of its directories; directory d is the one after *)
(* d names, 0 is "/" and Len(path) the one the header is in.  How the      *)
(* guard is spelled (c++, capitals, underscores) is left out.              *)
(***************************************************************************)
EXTENDS Integers, SequencesExt

CONSTANTS Names,      \* names of directories
          Depth,      \* directories above the header
          MaxOption   \* bound: directories in --root

PathsAssumption == Depth \in Nat \ {0} /\ MaxOption \in Nat

Svn == "svn"        \* .svn
Other == "other"    \* .git or .hg

VARIABLES path,      \* the directories of the header
          exists,    \* os.path.exists(fullname)
          marks,     \* what each directory holds
          option,    \* --root
          doing,     \* "start", "svn", "search" or "done"
          rootDir,   \* root_dir
          current,   \* one_up_dir, then current_dir
          guard      \* the path that names the guard

inputs == <<path, exists, marks, option>>
vars == <<inputs, doing, rootDir, current, guard>>

Dirs == 0..Depth

\* No checkout has its top at "/": there, the climb for Subversion never ends.
Init ==
  /\ path \in [1..Depth -> Names] /\ exists \in BOOLEAN
  /\ marks \in [Dirs -> SUBSET {Svn, Other}] /\ Svn \notin marks[0]
  /\ option \in BoundedSeq(Names, MaxOption)
  /\ doing = "start" /\ rootDir = Depth /\ current = Depth
  /\ guard = [absolute |-> TRUE, dirs |-> path]

Dirname(d) == IF d = 0 THEN 0 ELSE d - 1

-------------------------------------------------------------------------------
\* The path below directory d, without the option in front.
Below(d) ==
  LET names == SubSeq(path, d + 1, Depth) IN
  [absolute |-> FALSE,
   dirs |-> IF option # <<>> /\ IsPrefix(option, names)
            THEN SubSeq(names, Len(option) + 1, Len(names)) ELSE names]

Finish(result) == doing' = "done" /\ guard' = result /\ UNCHANGED <<rootDir, current>>

Absolute == [absolute |-> TRUE, dirs |-> path]

NoSuchFile == doing = "start" /\ ~exists /\ Finish(Absolute) /\ UNCHANGED inputs

StartSvn ==
  /\ doing = "start" /\ exists /\ Svn \in marks[Depth]
  /\ doing' = "svn" /\ current' = Dirname(Depth)
  /\ UNCHANGED <<inputs, rootDir, guard>>

ClimbSvn ==
  /\ doing = "svn" /\ Svn \in marks[current]
  /\ rootDir' = Dirname(rootDir) /\ current' = Dirname(current)
  /\ UNCHANGED <<inputs, doing, guard>>

FinishSvn ==
  /\ doing = "svn" /\ Svn \notin marks[current]
  /\ Finish(Below(rootDir)) /\ UNCHANGED inputs

StartSearch ==
  /\ doing = "start" /\ exists /\ Svn \notin marks[Depth]
  /\ doing' = "search" /\ UNCHANGED <<inputs, rootDir, current, guard>>

\* Slip: what is noted is the directory after the climb.
SearchUpLate ==
  /\ doing = "search" /\ current # Dirname(current)
  /\ rootDir' = IF marks[current] # {} THEN Dirname(current) ELSE rootDir
  /\ current' = Dirname(current)
  /\ UNCHANGED <<inputs, doing, guard>>

SearchUp ==
  /\ doing = "search" /\ current # Dirname(current)
  /\ rootDir' = IF marks[current] # {} THEN current ELSE rootDir
  /\ current' = Dirname(current)
  /\ UNCHANGED <<inputs, doing, guard>>

FinishSearch ==
  /\ doing = "search" /\ current = Dirname(current)
  /\ Finish(IF marks[rootDir] # {} THEN Below(rootDir) ELSE Absolute)
  /\ UNCHANGED inputs

Next == NoSuchFile \/ StartSvn \/ ClimbSvn \/ FinishSvn
        \/ StartSearch \/ SearchUp \/ FinishSearch

Spec == Init /\ [][Next]_vars

-------------------------------------------------------------------------------
\* The directories the top of which is d: Subversion before 1.7 marks each
\* directory of a checkout, the others mark its top only.
Checkout(d) ==
  \/ \A k \in Dirs : marks[k] = IF k >= d THEN {Svn} ELSE {}
  \/ \A k \in Dirs : IF k = d THEN marks[k] # {} ELSE marks[k] = {}

\* A header in one checkout has the guard of its path within the checkout,
\* wherever the checkout is and whatever system it is of (RepositoryName).
SameInEveryCheckout ==
  \A d \in Dirs \ {0} :
    doing = "done" /\ exists /\ Checkout(d) =>
      guard = Below(d)
===============================================================================
