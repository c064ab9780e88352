----------------------------- MODULE MCLintDriver -----------------------------
(* Six files in two sub-directories and their parent, and the command        *)
(* lines and CPPLINT.cfg files that make their settings interact.            *)
EXTENDS LintDriver

Space == <<"whitespace">>
Length == <<"whitespace", "/line_length">>
Braces == <<"whitespace", "/braces">>
Guard == <<"build", "/header_guard">>
Casting == <<"readability", "/casting">>
Alpha == <<"build", "/include", "_alpha">>
Body == <<"whitespace", "/empty_conditional_body">>
Comment == <<"readability", "/multiline_comment">>

MCKnown == {Length, Braces, Guard, Casting, Alpha, Body, Comment,
            <<"readability", "/nolint">>, <<"legal", "/copyright">>,
            <<"whitespace", "/newline">>}
MCLegacy == {<<"readability", "/streams">>}
MCCSuppressed == {Casting}
MCKernelSuppressed == {Braces}

Minus(cat) == [sign |-> "-", of |-> cat]
Plus(cat) == [sign |-> "+", of |-> cat]
MCDefaultFilters == <<Minus(Alpha)>>

Opt(name, val) == [name |-> name, val |-> val]
Nolint(cat) == [cat |-> cat, next |-> FALSE]
NolintNextLine(cat) == [cat |-> cat, next |-> TRUE]

Line(nolint, width, finds) ==
  [nolint |-> nolint, width |-> width, asm |-> FALSE, finds |-> finds]

\* A guard has its name for one of the two roots.
Styles(one, other) == [root \in {"", "include"} |-> IF root = "" THEN one ELSE other]

GoodGuard == [nolint |-> FALSE, defined |-> TRUE, ifndef |-> 1, endif |-> 3,
              name |-> Styles("right", "wrong"), comment |-> Styles("right", "none")]

Plain == [dirs |-> <<"lib", "top">>, ext |-> "hpp", readable |-> TRUE, cfile |-> FALSE,
          kernel |-> FALSE, copyright |-> TRUE, opencomment |-> 0, guard |-> GoodGuard, lines |-> <<>>,
          after |-> <<>>, crlf |-> <<>>]

MCFileOf ==
  [hist |-> [Plain EXCEPT
      !.guard = [GoodGuard EXCEPT !.name = Styles("wrong", "deprecated"),
                                  !.comment = Styles("none", "none")],
      !.copyright = FALSE,
      !.lines = <<Line({Nolint(Guard)}, 40, <<>>),
                  Line({NolintNextLine(All)}, 90, <<Err(2, Braces, 4)>>),
                  Line({}, 100, <<Err(3, Casting, 4), Err(3, Alpha, 4)>>)>>,
      !.after = <<Err(2, Braces, 4)>>],
   main |-> [Plain EXCEPT
      !.dirs = <<"test", "top">>, !.ext = "cpp", !.cfile = TRUE, !.crlf = <<2>>,
      !.lines = <<Line({Nolint(<<"readability", "/streams">>)}, 90, <<Err(2, Body, 5)>>),
                  [Line({Nolint(Body)}, 130, <<Err(2, Casting, 4)>>) EXCEPT !.asm = TRUE],
                  Line({}, 70, <<Err(3, Casting, 4), Err(3, Braces, 3)>>)>>],
   util |-> [Plain EXCEPT
      !.dirs = <<"top">>, !.ext = "hxx",
      !.guard = [GoodGuard EXCEPT !.comment = Styles("deprecated", "right")],
      !.lines = <<Line({}, 100, <<Err(1, Braces, 4)>>), Line({}, 60, <<>>),
                  Line({Nolint(<<"misspelt">>)}, 20, <<>>)>>],
   comm |-> [Plain EXCEPT
      !.opencomment = 2, !.guard = [GoodGuard EXCEPT !.nolint = TRUE],
      !.lines = <<Line({}, 20, <<>>), Line({Nolint(All)}, 20, <<>>), Line({}, 20, <<>>)>>],
   bare |-> [Plain EXCEPT
      !.kernel = TRUE, !.guard = [GoodGuard EXCEPT !.defined = FALSE],
      !.lines = <<Line({Nolint(<<"misspelt">>)}, 20, <<Err(1, Braces, 4), Err(2, Body, 4)>>)>>],
   gone |-> [Plain EXCEPT !.readable = FALSE]]

MCOrders == {<<"hist", "main">>, <<"main", "hist", "util">>, <<"util", "gone", "hist">>,
             <<"comm", "bare", "hist">>, <<"hist", "hist">>}

MCFlags ==
  [none |-> <<>>,
   loud |-> <<Opt("verbose", 0), Opt("counting", "detailed"), Opt("root", "include"),
              Opt("extensions", {"cpp", "hxx"}), Opt("headers", {"hpp", "hxx"})>>,
   some |-> <<Opt("filter", <<Minus(Space), Plus(Braces)>>), Opt("counting", "toplevel"),
              Opt("linelength", 95)>>]

MCDirs == {"top", "lib", "test"}

MCConfigs ==
  [absent |-> <<>>,
   quiet |-> <<Opt("filter", <<Minus(<<"build">>), Minus(Space)>>)>>,
   noisy |-> <<Opt("filter", <<Plus(Length), Plus(Alpha)>>), Opt("filter", <<Minus(Length)>>)>>,
   alone |-> <<Opt("noparent", ""), Opt("filter", <<Minus(Casting)>>)>>,
   skip |-> <<Opt("filter", <<Minus(Braces)>>), Opt("exclude_files", {"test", "hist"})>>]

\* Any combination of configurations that only filter and exclude.
MCFiltering ==
  {c \in [MCDirs -> {"absent", "quiet", "noisy", "alone", "skip"}] :
     c["test"] \in {"absent", "skip"}}
==============================================================================
