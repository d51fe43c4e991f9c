------------------------------ MODULE LintFile ------------------------------
(***************************************************************************)
(* cpplint.py: what ProcessFileData keeps for one file besides the nesting *)
(* (the includes, the current function, the suppressions) and the checks   *)
(* of the whole file.  lines is a function on 0 .. N + 1: the N lines of   *)
(* the file between the two markers.                                       *)
(*                                                                         *)
(* A file is a record: lines, ext (its extension, "-" for stdin),          *)
(* guard[root] its header guard, test (its name ends in _test), header     *)
(* (its header exists), through (the headers its header includes).         *)
(* More fields of a line: arg (the symbol of a directive, or the header of *)
(* an include), slash (a // comment), ccomment (the comment on #endif is a *)
(* C comment), comment ("open", "close" of a comment over several lines),  *)
(* blank, nolint, mark, uses (headers its text needs), own (errors of the  *)
(* checks that look at this line's text, each with the scope it is         *)
(* reported in), width, bad (broken characters), cr (it ends in CR LF).    *)
(***************************************************************************)
EXTENDS LintState, LintNesting

CONSTANTS
  NormalTrigger, TestTrigger  \* lines of a function at --v=0 (250, 400)

ASSUME LintAssumption ==
  /\ NormalTrigger \in Nat \ {0} /\ TestTrigger \in Nat \ {0}
  /\ NamespaceLines \in Nat /\ SmallClass \in Nat

IncludeCat == <<"build", "include">>
GuardCat == <<"build", "header_guard">>
FnSize == <<"readability", "fn_size">>

\* _IsSourceExtension
IsSource(f) == f.ext \in {"c", "cc", "cpp", "cxx"}

Guarded(c, errs) == IF c THEN errs ELSE << >>

-----------------------------------------------------------------------------
(* _IncludeState: inc = [include_list, section, last_header] *)

IncludeInit ==
  [include_list |-> << << >> >>, section |-> 0, last_header |-> 0]

Included(inc) == Range(FlattenSeq(inc.include_list))

FindHeader(inc, h) == \E f \in Included(inc) : f.header.path = h.path

\* Mutant of ResetSection: #else and #elif keep the includes of the branch.
ResetSectionKeep(inc, pp) ==
  [include_list |-> IF pp = "if" THEN Append(inc.include_list, << >>)
                    ELSE inc.include_list,
   section |-> 0, last_header |-> 0]

\* Mutant of ResetSection: #endif pops the list.
ResetSectionPop(inc, pp) ==
  [include_list |->
     CASE pp = "if" -> Append(inc.include_list, << >>)
       [] pp = "else" -> Append(Front(inc.include_list), << >>)
       [] OTHER -> Front(inc.include_list),
   section |-> 0, last_header |-> 0]

\* At a conditional directive; the list is never popped.
ResetSection(inc, pp) ==
  [include_list |->
     CASE pp = "if" -> Append(inc.include_list, << >>)
       [] pp = "else" -> Append(Front(inc.include_list), << >>)
       [] OTHER -> inc.include_list,
   section |-> 0, last_header |-> 0]

\* _ClassifyInclude.  own: the base name of the file, in its directory;
\* kin: the same first component.
ClassifyInclude(h) ==
  CASE h.sys /\ h.cpp -> "cpp_sys"
    [] h.sys /\ ~h.cpp -> "c_sys"
    [] ~h.sys /\ h.own -> "likely_my"
    [] ~h.sys /\ ~h.own /\ h.kin -> "possible_my"
    [] OTHER -> "other"

\* Mutant of CheckNextIncludeOrder: the section moves back.
CheckNextIncludeOrderBack(inc, type) ==
  [section |-> CASE type = "c_sys" -> 2 [] type = "cpp_sys" -> 3 [] OTHER -> 4,
   ok |-> inc.section <= 2]

\* The section after a header of a type, and whether that is in order.
CheckNextIncludeOrder(inc, type) ==
  LET sec == inc.section
  IN  CASE type = "c_sys" -> [section |-> IF sec <= 2 THEN 2 ELSE sec,
                              ok |-> sec <= 2]
        [] type = "cpp_sys" -> [section |-> IF sec <= 3 THEN 3 ELSE sec,
                                ok |-> sec <= 3]
        [] type \in {"likely_my", "possible_my"} ->
             [section |-> IF sec <= 1 THEN 1 ELSE 4, ok |-> TRUE]
        [] OTHER -> [section |-> 4, ok |-> TRUE]

CheckIncludeLine(inc, lines, n) ==
  LET h == lines[n].arg
      dup == FindHeader(inc, h)
      keep == ~dup /\ ~h.cc /\ ~h.third
      next == CheckNextIncludeOrder(inc, ClassifyInclude(h))
      last == IF next.ok /\ next.section = inc.section THEN inc.last_header ELSE 0
      alpha == last > h.rank /\ lines[n - 1].pp = "include"
  IN  [inc |-> IF ~keep THEN inc
               ELSE [include_list |->
                       [inc.include_list EXCEPT ![Len(inc.include_list)] =
                          Append(@, [header |-> h, line |-> n])],
                     section |-> next.section, last_header |-> h.rank],
       errs |-> Guarded(h.nodir /\ ~h.third, <<Err(n, IncludeCat, 4)>>)
                \o Guarded(dup \/ h.cc, <<Err(n, IncludeCat, 4)>>)
                \o Guarded(keep /\ ~next.ok,
                           <<Err(n, <<"build", "include", "_order">>, 4)>>)
                \o Guarded(keep /\ alpha, <<Err(n, IncludeAlpha, 4)>>)]

\* The part of CheckLanguage that keeps state.
CheckLanguage(inc, lines, n) ==
  CASE lines[n].pp = "include" -> CheckIncludeLine(inc, lines, n)
    [] lines[n].pp \in {"if", "else", "endif"} ->
         [inc |-> ResetSection(inc, lines[n].pp), errs |-> << >>]
    [] OTHER -> [inc |-> inc, errs |-> << >>]

-----------------------------------------------------------------------------
(* _FunctionState: fs = [in_a_function, lines_in_function, test] *)

FunctionInit ==
  [in_a_function |-> FALSE, lines_in_function |-> 0, test |-> FALSE]

Begin(test) == [in_a_function |-> TRUE, lines_in_function |-> 0, test |-> test]

CountLine(fs) ==
  IF fs.in_a_function THEN [fs EXCEPT !.lines_in_function = @ + 1] ELSE fs

\* int(math.log(x, 2)) for x > 0
Log2(x) == CHOOSE k \in 0..x : 2^k <= x /\ x < 2^(k + 1)

Trigger(fs) == IF fs.test THEN TestTrigger ELSE NormalTrigger

\* size > base * 2**verbose, where --verbose may be negative.
Exceeds(size, base, verbose) ==
  IF verbose >= 0 THEN size > base * 2^verbose ELSE size * 2^(-verbose) > base

TooLong(fs, verbose) ==
  fs.in_a_function /\ Exceeds(fs.lines_in_function, Trigger(fs), verbose)

\* The quotient is an integer's: with a negative --verbose it may be 0, and
\* math.log raises ValueError.
CheckLengthRaises(fs, verbose) ==
  TooLong(fs, verbose) /\ fs.lines_in_function < Trigger(fs)

\* Mutant of CheckLength: the level is taken from the lines over the trigger.
CheckLengthOver(fs, verbose, n) ==
  IF TooLong(fs, verbose) /\ verbose >= 0
  THEN <<Err(n, FnSize, Log2(fs.lines_in_function - Trigger(fs) * 2^verbose))>>
  ELSE << >>

\* _FunctionState.Check
CheckLength(fs, verbose, n) ==
  IF TooLong(fs, verbose) /\ ~CheckLengthRaises(fs, verbose)
  THEN <<Err(n, FnSize, Min({5, Log2(fs.lines_in_function \div Trigger(fs))}))>>
  ELSE << >>

\* The lines from line n on where a function's head can end.
HeadEnds(lines, n) ==
  {i \in DOMAIN lines : i >= n /\ (\E t \in {"{", "}", ";"} : Has(lines[i], t))}

EndsFunction(l) == l.indent = 0 /\ l.toks = <<"}">>

CheckForFunctionLengths(fs, verbose, lines, n) ==
  LET l == lines[n]
      starting == l.indent = 0 /\ StartsWith(l, {"fn", "TEST"})
      bodies == HeadEnds(lines, n)
      body == lines[Min(bodies)]
  IN  CASE starting /\ bodies = {} -> [fs |-> fs, errs |-> <<Err(n, FnSize, 5)>>]
        [] starting /\ bodies # {} ->
             [fs |-> IF Has(body, ";") \/ Has(body, "}") THEN fs
                     ELSE Begin(l.toks[1] = "TEST"),
              errs |-> << >>]
        [] EndsFunction(l) ->
             [fs |-> [fs EXCEPT !.in_a_function = FALSE],
              errs |-> CheckLength(fs, verbose, n)]
        [] OTHER -> [fs |-> IF IsBlank(l) THEN fs ELSE CountLine(fs),
                     errs |-> << >>]

-----------------------------------------------------------------------------
(* Checks of the whole file *)

CheckForCopyright(lines) ==
  IF \E n \in DOMAIN lines : n \in 1..10 /\ lines[n].mark = "copyright"
  THEN << >> ELSE <<Err(0, <<"legal", "copyright">>, 5)>>

\* A line of a removed comment: '/**/'.
Commented(l) ==
  [l EXCEPT !.toks = << >>, !.pp = "", !.comment = "", !.nolint = NoLint,
            !.note = NoNote, !.uses = {}, !.own = << >>, !.bad = << >>,
            !.mark = "", !.width = 0, !.blank = FALSE, !.slash = FALSE]

\* Every comment that is closed is removed; the first that is not is
\* reported, one line too low, and ends the search.
RemoveMultiLineComments(lines) ==
  FoldLeft(
    LAMBDA a, n :
      LET ends == {i \in DOMAIN lines : i > n /\ lines[i].comment = "close"}
      IN  CASE n < a.next \/ lines[n].comment # "open" -> a
            [] ends = {} -> [a EXCEPT !.next = Max(DOMAIN lines) + 1,
                                      !.errs = <<Err(n + 1, <<"readability",
                                                 "multiline_comment">>, 5)>>]
            [] OTHER ->
                 [a EXCEPT !.next = Min(ends) + 1,
                           !.lines = [i \in DOMAIN lines |->
                              IF i \in n..Min(ends) THEN Commented(lines[i])
                              ELSE @[i]]],
    [next |-> 0, lines |-> lines, errs |-> << >>],
    [i \in 1..Max(DOMAIN lines) |-> i])

\* CheckForHeaderGuard in its two parts: the errors up to the one for
\* #ifndef under the suppressions sup1, the ones for #endif under sup2.
CheckForHeaderGuard(sup, lines, cppvar) ==
  LET ifndefs == {n \in DOMAIN lines : lines[n].pp = "if" /\ lines[n].arg # << >>}
      defines == {n \in DOMAIN lines : lines[n].pp = "define"}
      endifs == {n \in DOMAIN lines : lines[n].pp = "endif"}
      i == Min(ifndefs)
      e == IF endifs = {} THEN 0 ELSE Max(endifs)
      none == \/ ifndefs = {} \/ defines = {}
              \/ lines[i].arg # lines[Min(defines)].arg
      wrong == ~none /\ lines[i].arg # cppvar
      sup1 == IF wrong THEN ParseNolintSuppressions(sup, lines[i], i) ELSE sup
      note == IF endifs = {} THEN << >> ELSE lines[e].arg
      slashes == \E n \in 1..(Max(DOMAIN lines) - 1) : lines[n].slash
      read == ~lines[e].ccomment \/ ~slashes
      quiet == \E n \in DOMAIN lines : /\ lines[n].nolint.cat = GuardCat
                                       /\ ~lines[n].nolint.next
  IN  [sup1 |-> sup1,
       errs1 |-> CASE quiet -> << >>
                   [] ~quiet /\ none -> <<Err(0, GuardCat, 5)>>
                   [] OTHER -> Guarded(wrong,
                        NolintErrors(lines[i], i)
                        \o <<Err(i, GuardCat,
                             IF lines[i].arg = cppvar \o <<"_">> THEN 0 ELSE 5)>>),
       sup2 |-> IF quiet \/ none THEN sup1
                ELSE ParseNolintSuppressions(sup1, lines[e], e),
       errs2 |-> CASE quiet \/ none -> << >>
                   [] OTHER -> NolintErrors(lines[e], e) \o
                        (CASE read /\ note = cppvar -> << >>
                           [] read /\ note = cppvar \o <<"_">> ->
                                <<Err(e, GuardCat, 0)>>
                           [] OTHER -> <<Err(e, GuardCat, 5)>>)]

CheckHeaderFileIncluded(file, inc) ==
  IF \/ file.test \/ ~file.header
     \/ \E f \in Included(inc) : f.header.own
  THEN << >>
  ELSE <<Err(IF Included(inc) = {} THEN 0
             ELSE FlattenSeq(inc.include_list)[1].line, IncludeCat, 5)>>

\* For each header that is needed and not included, the last line that
\* needs it; a directive in the first column needs none.  Only a source file
\* has a header whose includes count, and a .cc file whose header cannot be
\* read is not checked.
CheckForIncludeWhatYouUse(file, lines, inc) ==
  LET found == /\ IsSource(file) /\ file.header
               /\ \E f \in Included(inc) : f.header.own
      have == {f.header.path : f \in Included(inc)}
              \cup (IF found THEN file.through ELSE {})
      text == {n \in DOMAIN lines : lines[n].pp = "" \/ lines[n].indent > 0}
      users(h) == {n \in text : h \in lines[n].uses}
      missing == (UNION {lines[n].uses : n \in text}) \ have
  IN  IF file.ext = "cc" /\ ~found THEN << >>
      ELSE [i \in 1..Cardinality(missing) |->
              Err(Max(users(SetToSeq(missing)[i])),
                  <<"build", "include", "_what">>, 4)]

\* Replacement characters and NUL bytes, each at its line.
CheckForBadCharacters(lines) ==
  FlattenSeq([i \in 1..(Max(DOMAIN lines) + 1) |->
    [k \in DOMAIN lines[i - 1].bad |->
       Err(i - 1, <<"readability", lines[i - 1].bad[k]>>, 5)]])

CheckForNewlineAtEOF(lines) ==
  LET n == Max(DOMAIN lines) - 1
  IN  Guarded(~lines[n].blank,
              <<Err(n, <<"whitespace", "ending_newline">>, 5)>>)
=============================================================================
