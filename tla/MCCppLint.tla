---------------------------- MODULE MCCppLint ----------------------------
(***************************************************************************)
(* Command lines of cpplint.  Most lint one file and differ in its lines,  *)
(* all sequences over a small alphabet for each part of the linter; the    *)
(* others lint several files with CPPLINT.cfg files and NOLINT comments.   *)
(***************************************************************************)
EXTENDS CppLint

CONSTANTS  \* lines of a file
  NestLen, IncludeLen, FunctionLen, ClassLen, ScopeLen, GuardLen

MCCategories ==
  {IncludeCat, <<"build", "class">>, GuardCat, <<"readability", "fn_size">>,
   <<"whitespace", "tab">>, <<"whitespace", "line_length">>,
   <<"runtime", "explicit">>}
MCLegacy == {<<"readability", "streams">>}
MCC == {<<"readability", "casting">>}
MCKernel == {<<"whitespace", "tab">>}

Line == [Marker EXCEPT !.slash = FALSE]
Toks(t) == [Line EXCEPT !.toks = t, !.name = "A"]
Blank == [Line EXCEPT !.blank = TRUE]
PP(d) == [Line EXCEPT !.pp = d]

\* The last element is what split() leaves behind the last newline.
File(ls) ==
  [lines |-> ls \o <<Blank>>, ext |-> "cc", guard |-> [r \in {"none", "sub"} |-> <<r>>],
   test |-> FALSE, header |-> FALSE, through |-> {}, readable |-> TRUE,
   configs |-> << >>]

Command(fs) ==
  [error |-> "", verbose |-> 1, filters |-> << >>, counting |-> "",
   root |-> "none", linelength |-> 8, extensions |-> {"cc", "h"}, files |-> fs]

Texts(alphabet, n) == [1..n -> alphabet]

\* Every #else and #endif has its #if.
Proper(ls) ==
  \A n \in DOMAIN ls :
    LET open == Cardinality({i \in 1..n : ls[i].pp = "if"})
                - Cardinality({i \in 1..n : ls[i].pp = "endif"})
    IN  open >= 0 /\ (ls[n].pp = "else" => open > 0)

-----------------------------------------------------------------------------
NestAlphabet ==
  {PP("if"), PP("else"), PP("endif"), Toks(<<"namespace", "{">>),
   Toks(<<"class">>), Toks(<<"x", "{">>), Toks(<<"}", ";">>)}

\* With an #else; the line behind the #endif is any, and a directive there
\* may be out of place.
NestFiles ==
  {File(Append(Append(t, PP("endif")), l)) :
     t \in {u \in Texts(NestAlphabet, NestLen) :
              Proper(u) /\ \E i \in DOMAIN u : u[i].pp = "else"},
     l \in NestAlphabet}

Header(p, s, c, o, k, r) ==
  [path |-> p, sys |-> s, cpp |-> c, own |-> o, kin |-> k, rank |-> r,
   third |-> p = "third.h", cc |-> p = "x/y.cc", nodir |-> p = "nodir.h"]
Include(h) == [Line EXCEPT !.pp = "include", !.arg = h]
Own == Header("d/a.h", FALSE, FALSE, TRUE, TRUE, 1)
Other == Header("d/z.h", FALSE, FALSE, FALSE, FALSE, 2)
CSys == Header("stdio.h", TRUE, FALSE, FALSE, FALSE, 3)
CppSys == Header("string", TRUE, TRUE, FALSE, FALSE, 4)

IncludeAlphabet ==
  {PP("if"), PP("else"), PP("endif")}
  \cup {Include(h) : h \in {Own, Other, CSys, CppSys}}

IncludeFiles ==
  {File(t) : t \in {u \in Texts(IncludeAlphabet, IncludeLen) :
     Proper(u) /\ Cardinality({i \in DOMAIN u : u[i].pp = "include"}) > 1}}

\* Headers of the other kinds, and lines that need a header.
RareAlphabet ==
  {Include(h) : h \in {Own, CppSys, Header("third.h", FALSE, FALSE, FALSE, FALSE, 5),
                       Header("x/y.cc", FALSE, FALSE, FALSE, FALSE, 5),
                       Header("nodir.h", FALSE, FALSE, FALSE, TRUE, 1)}}
  \cup {[Toks(<<"x", ";">>) EXCEPT !.uses = {"string"}]}

RareFiles ==
  {[File(t) EXCEPT !.header = h, !.test = h /\ t[1].pp = "", !.through = u] :
     t \in Texts(RareAlphabet, 2), h \in BOOLEAN, u \in {{}, {"string"}}}

FunctionAlphabet ==
  {Toks(<<"fn", "(", ")", "{">>), Toks(<<"TEST", "(", ")", "{">>),
   Toks(<<"fn", "(", ")">>), Toks(<<"}">>), Toks(<<"x", ";">>), Blank}

FunctionFiles ==
  {File(t \o <<Toks(<<"}">>)>>) : t \in {u \in Texts(FunctionAlphabet, FunctionLen) :
     StartsWith(u[1], {"fn", "TEST"})}}

ClassAlphabet ==
  {Toks(<<"class", "{">>), Toks(<<"struct", "{">>), Toks(<<"class", ">">>),
   [Toks(<<"class", ";">>) EXCEPT !.indent = 2],
   [Toks(<<"private">>) EXCEPT !.indent = 1], Toks(<<"public">>),
   Toks(<<"DISALLOW", "(", ")", ";">>), Blank, Toks(<<"}", ";">>),
   [Toks(<<"}">>) EXCEPT !.indent = 1],
   [Toks(<<"}">>) EXCEPT !.note = "A"], [Toks(<<"}">>) EXCEPT !.note = "B"],
   Toks(<<"namespace", "{", "namespace", "{">>), Toks(<<"extern", "{">>),
   Toks(<<"asm", "{">>), Toks(<<"x", "{", "asm", "(">>), Toks(<<"x", "(", "class">>),
   Toks(<<")", ";">>)}

\* What the scope of a line decides.
Scoped(t, s, c, f) ==
  [Toks(t) EXCEPT !.own = <<[cat |-> c, conf |-> f, scope |-> s]>>]
ScopeAlphabet ==
  {Toks(<<"namespace", "{">>), Toks(<<"class", "{">>), Toks(<<"}", ";">>),
   Toks(<<"template">>),
   Scoped(<<"x", "{">>, "brace", <<"whitespace", "braces">>, 5),
   [Scoped(<<"x", ";">>, "constructor", <<"runtime", "explicit">>, 5)
      EXCEPT !.own = Append(@, [cat |-> <<"runtime", "references">>, conf |-> 2,
                                scope |-> "reference"])]}

ScopeFiles == {File(t) : t \in Texts(ScopeAlphabet, ScopeLen)}

\* A function of size lines.
LongFile(head, size) ==
  File(<<Toks(<<head, "(", ")", "{">>)>> \o [i \in 1..size |-> Toks(<<"x", ";">>)]
       \o <<Toks(<<"}">>)>>)

LongCommands ==
  {[Command(<<LongFile("fn", s)>>) EXCEPT !.verbose = v] :
     v \in {0, 2, 4, 5, 6}, s \in {4, 5, 32, 33, 64, 65}}
  \cup {[Command(<<LongFile("TEST", s)>>) EXCEPT !.verbose = v] :
          v \in {-2, -1, 1}, s \in 0..5}

ClassFiles == {File(t) : t \in Texts(ClassAlphabet, ClassLen)}

Guard(d, a) == [Line EXCEPT !.pp = d, !.arg = a]
GuardAlphabet ==
  {Guard("if", <<"none">>), Guard("if", <<"none", "_">>),
   Guard("define", <<"none">>), Guard("define", <<"none", "_">>), PP("endif"),
   [Guard("endif", <<"none">>) EXCEPT !.ccomment = TRUE],
   Guard("endif", <<"none", "_">>),
   [Guard("endif", <<"sub">>) EXCEPT !.nolint.cat = All, !.slash = TRUE],
   [Guard("if", <<"sub">>) EXCEPT !.nolint.cat = <<"nobody">>, !.slash = TRUE],
   [Line EXCEPT !.nolint.cat = GuardCat, !.slash = TRUE]}

GuardFiles == {[File(t) EXCEPT !.ext = "h"] : t \in Texts(GuardAlphabet, GuardLen)}

-----------------------------------------------------------------------------
Tab == [cat |-> <<"whitespace", "tab">>, conf |-> 1, scope |-> "any"]
Cast == [cat |-> <<"readability", "casting">>, conf |-> 4, scope |-> "any"]
Text(own, next, cat) ==
  [Toks(<<"x", ";">>) EXCEPT !.own = own, !.nolint = [next |-> next, cat |-> cat]]

NolintAlphabet ==
  {Text(<<Tab, Cast>>, FALSE, << >>), Text(<<Tab, Cast>>, FALSE, <<"whitespace", "tab">>),
   Text(<<Tab>>, TRUE, All), Text(<<Tab>>, FALSE, <<"nobody">>),
   [Text(<<Tab>>, FALSE, <<"readability", "streams">>) EXCEPT !.mark = "kernel"],
   [Text(<<Cast>>, FALSE, << >>) EXCEPT !.mark = "c", !.comment = "open"],
   [Text(<<Tab>>, FALSE, All) EXCEPT !.comment = "close", !.bad = <<"nul">>],
   [Text(<<Tab>>, FALSE, << >>) EXCEPT !.mark = "copyright", !.cr = TRUE, !.width = 10]}

NolintFiles == {File(t) : t \in Texts(NolintAlphabet, 2)}

Filter(s, p) == [sign |-> s, prefix |-> p]
Opt(n, v) == [name |-> n, val |-> v]
Cfg(os) == [kind |-> "options", options |-> os]
Configs ==
  {Cfg(<<Opt("filter", <<Filter("-", <<"whitespace">>)>>)>>),
   Cfg(<<Opt("filter", <<Filter("-", << >>), Filter("+", <<"whitespace">>)>>),
         Opt("filter", <<Filter("+", << >>)>>), Opt("set noparent", TRUE)>>),
   Cfg(<<Opt("linelength", 12), Opt("exclude_files", "excluded"),
         Opt("filter", <<Filter("-", << >>)>>)>>),
   Cfg(<<Opt("root", "sub"), Opt("exclude_files", ""), Opt("nonsense", 0)>>),
   Cfg(<<Opt("linelength", 12), Opt("exclude_files", "raised")>>),
   Cfg(<<Opt("filter", <<Filter("?", << >>)>>)>>),
   [kind |-> "absent"], [kind |-> "unreadable"]}

Plain == File(<<Text(<<Tab, Cast>>, FALSE, << >>)>>)
ConfigFiles == {[Plain EXCEPT !.configs = <<a, b>>] : a \in Configs, b \in Configs}

Odd == {[Plain EXCEPT !.readable = FALSE], [Plain EXCEPT !.ext = "py"],
        [Plain EXCEPT !.ext = "-", !.lines = <<Line>>]}

Sessions ==
  {Command(<<f, Plain>>) : f \in NolintFiles \cup ConfigFiles \cup Odd}
  \cup {[Command(<<f, g>>) EXCEPT !.filters = <<Filter("-", <<"whitespace">>)>>,
                                  !.counting = "toplevel"] :
          f \in ConfigFiles \cup Odd, g \in {Plain}}
  \cup {[Command(<<f, Plain>>) EXCEPT !.verbose = v, !.counting = "detailed",
                                      !.filters = fs] :
          f \in NolintFiles, v \in {0, 2},
          fs \in {<< >>, <<Filter("+", IncludeCat), Filter("-", <<"readability">>)>>}}
  \cup {[Command(<<Plain>>) EXCEPT !.error = e] : e \in {"categories", "help", "verbose"}}
  \cup {[Command(<<Plain>>) EXCEPT !.filters = <<Filter("?", << >>)>>], Command(<< >>)}

MCCommands ==
  Sessions
  \cup {Command(<<f>>) : f \in NestFiles \cup IncludeFiles \cup RareFiles
                               \cup ClassFiles \cup GuardFiles \cup ScopeFiles}
  \cup {[Command(<<[f EXCEPT !.ext = "cpp"]>>) EXCEPT !.extensions = {"cpp"}] :
          f \in RareFiles}
  \cup LongCommands
  \cup {[Command(<<f>>) EXCEPT !.verbose = v] : f \in FunctionFiles, v \in {0, 1}}
=============================================================================
