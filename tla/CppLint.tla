------------------------------ MODULE CppLint ------------------------------
(***************************************************************************)
(* cpplint.py from the command line to the exit status: main,              *)
(* ParseArguments, ProcessFile with the CPPLINT.cfg files, and             *)
(* ProcessFileData line by line.                                           *)
(*                                                                         *)
(* The command line is a record args: error ("" or what is wrong with it), *)
(* verbose, filters, counting, root, linelength, extensions and files.     *)
(* A file has, besides what LintFile lists, readable and configs: for each *)
(* directory from its own to the root none ("absent"), one that cannot be  *)
(* opened ("unreadable") or the sequence of its options.                   *)
(***************************************************************************)
EXTENDS LintFile, FiniteSets

CONSTANTS
  Commands,           \* command lines
  DefaultLineLength,  \* _line_length (80)
  DefaultRoot,        \* _root (None)
  DefaultExtensions   \* _valid_extensions

ASSUME CommandsAssumption ==
  \A c \in Commands : /\ c.verbose \in Int
                      /\ c.files \in Seq({c.files[i] : i \in DOMAIN c.files})

VARIABLES
  args,           \* the command line of this run
  pc, fileno,     \* the step of main, the index of the file
  state,          \* _cpplint_state
  line_length, root,
  sup,            \* _error_suppressions, _global_error_suppressions
  lines, linenum, \* the lines after RemoveMultiLineComments, the next one
  include_state, function_state, nesting_state,
  log             \* history: the errors the last step raised

session == <<args, fileno>>
settings == <<line_length, root>>
filestate == <<sup, lines, linenum, include_state, function_state, nesting_state>>
vars == <<session, pc, state, settings, filestate, log>>

file == args.files[fileno]
NoLines == << >>

\* '// marker so line numbers and indices both start at 1'
Marker ==
  [toks |-> << >>, name |-> "", pp |-> "", arg |-> << >>, indent |-> 0,
   note |-> NoNote, slash |-> TRUE, ccomment |-> FALSE, comment |-> "",
   blank |-> FALSE, nolint |-> NoLint, mark |-> "", uses |-> {}, own |-> << >>,
   width |-> 0, bad |-> << >>, cr |-> FALSE]

-----------------------------------------------------------------------------
(* main and ParseArguments *)

Init ==
  /\ args \in Commands /\ pc = "args" /\ fileno = 0
  /\ state = InitState
  /\ line_length = DefaultLineLength /\ root = DefaultRoot
  /\ sup = [lines |-> {}, global |-> {}]
  /\ lines = NoLines /\ linenum = 0
  /\ include_state = IncludeInit /\ function_state = FunctionInit
  /\ nesting_state = NestingInit
  /\ log = << >>

\* An option that is wrong, --help, or no file: usage; --filter= prints the
\* categories; a --verbose that is no number is not caught.
BadArguments ==
  /\ pc = "args"
  /\ args.error # "" \/ args.files = << >>
  /\ pc' = CASE args.error = "categories" -> "exit0"
             [] args.error = "verbose" -> "raised"
             [] OTHER -> "usage"
  /\ UNCHANGED <<session, state, settings, filestate, log>>

ParseArguments ==
  /\ pc = "args" /\ args.error = "" /\ args.files # << >>
  /\ LET s == SetFilters([state EXCEPT !.verbose_level = args.verbose],
                         args.filters)
     IN  /\ state' = ResetErrorCounts([s EXCEPT !.counting = args.counting])
         /\ pc' = IF GoodFilters(s.filters) THEN "next" ELSE "raised"
  /\ line_length' = args.linelength /\ root' = args.root
  /\ UNCHANGED <<session, filestate, log>>

NextFile ==
  /\ pc = "next" /\ fileno < Len(args.files)
  /\ fileno' = fileno + 1 /\ pc' = "file" /\ log' = << >>
  /\ UNCHANGED <<args, state, settings, filestate>>

\* sys.exit(_cpplint_state.error_count > 0)
Exit ==
  /\ pc = "next" /\ fileno = Len(args.files)
  /\ pc' = IF state.error_count > 0 THEN "exit1" ELSE "exit0"
  /\ log' = << >>
  /\ UNCHANGED <<session, state, settings, filestate>>

-----------------------------------------------------------------------------
(* ProcessConfigOverrides *)

\* One option.  exclude_files ends the reading where its pattern matches
\* ("excluded"), and ends cpplint where it is no regular expression
\* ("raised").
Option(c, o) ==
  CASE o.name = "set noparent" -> [c EXCEPT !.looking = FALSE]
    [] o.name = "filter" -> [c EXCEPT !.filters = Append(@, o.val)]
    [] o.name = "exclude_files" -> [c EXCEPT !.end = o.val]
    [] o.name = "linelength" -> [c EXCEPT !.line_length = o.val]
    [] o.name = "root" -> [c EXCEPT !.root = o.val]
    [] OTHER -> c

Read(c, o) == IF c.end = "" THEN Option(c, o) ELSE c

\* One directory.
Config(c, cfg) ==
  CASE ~c.looking \/ cfg.kind = "absent" -> c
    [] c.looking /\ cfg.kind = "unreadable" -> [c EXCEPT !.looking = FALSE]
    [] OTHER -> FoldLeft(Read, c, cfg.options)

ConfigOf(f) ==
  FoldLeft(LAMBDA c, cfg : IF c.end = "" THEN Config(c, cfg) ELSE c,
           [looking |-> TRUE, end |-> "", filters |-> << >>,
            line_length |-> line_length, root |-> root], f.configs)

\* reversed(cfg_filters), up to and with the first that raises.
CfgFilters(c) == FlattenSeq(Reverse(c.filters))

-----------------------------------------------------------------------------
(* ProcessFile *)

\* Mutant of Restored: nothing is restored.
RestoredNot(s) == s

\* The last thing ProcessFile does on every way out.
Restored(s) == RestoreFilters(s)

\* The file is excluded, or a pattern or a filter in a CPPLINT.cfg is bad.
StartFile ==
  /\ pc = "file"
  /\ LET c == ConfigOf(file)
         s == BackupFilters(state)
         t == AddFilters(s, CfgFilters(c))
     IN  /\ line_length' = c.line_length /\ root' = c.root
         /\ CASE c.end = "excluded" -> state' = Restored(s) /\ pc' = "next"
              [] c.end = "raised" -> state' = s /\ pc' = "raised"
              [] OTHER ->
                   /\ state' = t
                   /\ pc' = IF GoodFilters(t.filters) THEN "read" ELSE "raised"
  /\ UNCHANGED <<session, filestate, log>>

SkipFile ==
  /\ pc = "read"
  /\ ~file.readable \/ (file.ext \notin args.extensions /\ file.ext # "-")
  /\ state' = Restored(state) /\ pc' = "next"
  /\ UNCHANGED <<session, settings, filestate, log>>

\* The errors as the log keeps them: at is the line whose NOLINT was the
\* last to be parsed.
Logged(u, errs, at) ==
  [i \in DOMAIN errs |->
     [line |-> errs[i].line, cat |-> errs[i].cat, conf |-> errs[i].conf,
      at |-> at, printed |-> ShouldPrintError(state, u, errs[i])]]

\* ProcessFileData up to the loop over the lines.
StartData ==
  /\ pc = "read" /\ file.readable
  /\ file.ext \in args.extensions \/ file.ext = "-"
  /\ LET raw == [n \in 0..(Len(file.lines) + 1) |->
                   IF n \in DOMAIN file.lines THEN file.lines[n] ELSE Marker]
         u0 == ResetNolintSuppressions(sup)
         u1 == ProcessGlobalSuppresions(u0, raw)
         r == RemoveMultiLineComments(raw)
         g == IF file.ext = "h"
              THEN CheckForHeaderGuard(u1, r.lines, file.guard[root])
              ELSE [sup1 |-> u1, errs1 |-> << >>, sup2 |-> u1, errs2 |-> << >>]
         e0 == CheckForCopyright(raw)
     IN  /\ sup' = g.sup2 /\ lines' = r.lines
         /\ state' = Errors(Errors(Errors(Errors(state, u0, e0), u1, r.errs),
                                   g.sup1, g.errs1),
                            g.sup2, g.errs2)
         /\ log' = Logged(u0, e0, -1) \o Logged(u1, r.errs, -1)
                   \o Logged(g.sup1, g.errs1, -1) \o Logged(g.sup2, g.errs2, -1)
  /\ include_state' = IncludeInit /\ function_state' = FunctionInit
  /\ nesting_state' = NestingInit /\ linenum' = 0
  /\ pc' = "line"
  /\ UNCHANGED <<session, settings>>

\* The checks that look for something in the line's text.
OwnErrors(ns, l, n) ==
  LET own == SelectSeq(l.own, LAMBDA o : InScope(o.scope, ns, lines, n))
  IN  [i \in DOMAIN own |-> Err(n, own[i].cat, own[i].conf)]
  \o Guarded(l.width > line_length, <<Err(n, <<"whitespace", "line_length">>, 2)>>)

\* (A line where CheckForFunctionLengths raises is the last.)
ProcessLine ==
  /\ pc = "line" /\ linenum \in DOMAIN lines
  /\ LET n == linenum
         l == lines[n]
         u == ParseNolintSuppressions(sup, l, n)
         up == Update(nesting_state, lines, n)
         asm == InAsmBlock(up.ns)
         raises == /\ ~asm /\ EndsFunction(l)
                   /\ CheckLengthRaises(function_state, state.verbose_level)
         fl == CheckForFunctionLengths(function_state, state.verbose_level, lines, n)
         la == CheckLanguage(include_state, lines, n)
         errs == NolintErrors(l, n) \o up.errs
                 \o CheckForNamespaceIndentation(up.ns, l, n)
                 \o (IF asm \/ raises THEN << >>
                     ELSE fl.errs \o CheckAccess(up.ns, l, n)
                          \o CheckSpacing(up.ns, lines, n)
                          \o CheckSectionSpacing(up.ns, lines, n)
                          \o OwnErrors(up.ns, l, n) \o la.errs)
     IN  /\ sup' = u /\ nesting_state' = up.ns
         /\ function_state' = IF asm THEN function_state ELSE fl.fs
         /\ include_state' = IF asm THEN include_state ELSE la.inc
         /\ state' = Errors(state, u, errs) /\ log' = Logged(u, errs, n)
         /\ pc' = IF raises THEN "raised" ELSE pc
  /\ linenum' = linenum + 1
  /\ UNCHANGED <<session, settings, lines>>

\* The lines that end in CR LF, if there are others.
NewlineErrors(f) ==
  LET crs == {n \in 1..(Len(f.lines) - 1) : f.lines[n].cr}
  IN  IF crs = 1..(Len(f.lines) - 1) THEN << >>
      ELSE [i \in 1..Cardinality(crs) |->
              Err(SetToSortSeq(crs, <)[i], <<"whitespace", "newline">>, 1)]

\* What follows the loop, and the end of ProcessFile.
FinishFile ==
  /\ pc = "line" /\ linenum \notin DOMAIN lines
  /\ LET errs == CheckCompletedBlocks(nesting_state)
                 \o CheckForIncludeWhatYouUse(file, lines, include_state)
                 \o (IF IsSource(file)
                     THEN CheckHeaderFileIncluded(file, include_state) ELSE << >>)
                 \o CheckForBadCharacters(lines) \o CheckForNewlineAtEOF(lines)
                 \o NewlineErrors(file)
     IN  /\ state' = Restored(Errors(state, sup, errs))
         /\ log' = Logged(sup, errs, linenum)
  /\ pc' = "next"
  /\ UNCHANGED <<session, settings, filestate>>

-----------------------------------------------------------------------------
Next ==
  \/ BadArguments \/ ParseArguments \/ NextFile \/ Exit
  \/ StartFile \/ SkipFile \/ StartData \/ ProcessLine \/ FinishFile

Ended == pc \in {"usage", "exit0", "exit1", "raised"}

\* The process is gone.
Terminated == Ended /\ UNCHANGED vars

Spec == Init /\ [][Next \/ Terminated]_vars

-----------------------------------------------------------------------------
(***************************************************************************)
(* Properties                                                              *)
(***************************************************************************)

\* The session's variables have their types; a section, a function's length
\* and the stack of checkpoints stay in their ranges.
TypeOK ==
  /\ fileno \in 0..Len(args.files) /\ linenum \in Nat
  /\ state.verbose_level \in Int
  /\ include_state.section \in 0..4 /\ include_state.include_list # << >>
  /\ function_state.lines_in_function \in 0..linenum
  /\ sup.global \subseteq CSuppressed \cup KernelSuppressed
  /\ pc \in {"args", "next", "file", "read", "line"} \/ Ended

\* Filters from CPPLINT.cfg files apply to one file: between two files the
\* filters are again those of the command line, whichever way ProcessFile
\* was left.
FiltersRestored ==
  pc = "next" => state.filters = DEFAULT_FILTERS \o args.filters

\* The directories whose CPPLINT.cfg counts for a file.
Looked(f) ==
  {i \in DOMAIN f.configs : \A j \in 1..(i - 1) :
     /\ f.configs[j].kind # "unreadable"
     /\ f.configs[j].kind = "options" =>
          \A k \in DOMAIN f.configs[j].options :
            f.configs[j].options[k].name # "set noparent"}

\* Lists of filters by priority: the nearest directory first, and in it the
\* first line first; then the command line, then the defaults.
Sources(f) ==
  FlattenSeq([i \in DOMAIN f.configs |->
    IF i \notin Looked(f) \/ f.configs[i].kind # "options" THEN << >>
    ELSE LET fs == SelectSeq(f.configs[i].options, LAMBDA o : o.name = "filter")
         IN  [k \in DOMAIN fs |-> fs[k].val]])
  \o <<args.filters, DEFAULT_FILTERS>>

\* The first list that says something about a category decides, and in it
\* the last filter that does.
Silenced(f, c) ==
  LET src == Sources(f)
      said == {i \in DOMAIN src : \E k \in DOMAIN src[i] : IsPrefix(src[i][k].prefix, c)}
      s == src[Min(said)]
  IN  /\ said # {}
      /\ s[SelectLastInSeq(s, LAMBDA x : IsPrefix(x.prefix, c))].sign = "-"

\* An error a NOLINT comment speaks of, among those parsed by then.
Excused(e) ==
  \E k \in DOMAIN lines : /\ k <= e.at /\ lines[k].nolint.cat \in {All, e.cat}
                          /\ e.line = k + (IF lines[k].nolint.next THEN 1 ELSE 0)

MarkedFor(f, c) ==
  \E n \in DOMAIN f.lines : \/ f.lines[n].mark = "c" /\ c \in CSuppressed
                            \/ f.lines[n].mark = "kernel" /\ c \in KernelSuppressed

\* Whether an error is shown depends on the command line, the file and its
\* CPPLINT.cfg files alone, never on the files before it: it is shown unless
\* the nearest filter silences it, --verbose is higher, the file or a NOLINT
\* comment excuses it.  (The header guard check, which runs before the lines
\* are processed, parses the comments of its own lines.)
ShownExactly ==
  \A i \in DOMAIN log :
    LET e == log[i]
    IN  e.at >= 0 \/ e.cat \notin {GuardCat, <<"readability", "nolint">>} =>
          (e.printed <=> /\ e.conf >= args.verbose /\ ~Silenced(file, e.cat)
                         /\ ~MarkedFor(file, e.cat) /\ ~Excused(e))

\* The summary adds up: the counts by category sum to the total whenever
\* categories are counted, and the exit status is 1 exactly with errors.
CountsAgree ==
  LET by == state.errors_by_category
      sum == FoldLeft(LAMBDA t, k : t + by[k], 0, SetToSeq(DOMAIN by))
  IN  /\ state.error_count \in Nat
      /\ sum = IF args.counting \in {"toplevel", "detailed"}
               THEN state.error_count ELSE 0
      /\ pc = "exit0" /\ args.error = "" => state.error_count = 0
      /\ pc = "exit1" => state.error_count > 0

\* The text as the nesting is meant to see it: without the lines from the
\* first #else or #elif of a conditional to its #endif.
Live(n) ==
  LET open(k) == Cardinality({i \in 0..k : lines[i].pp = "if"})
                 - Cardinality({i \in 0..k : lines[i].pp = "endif"})
  IN  ~\E i \in 0..n : /\ lines[i].pp = "else"
                       /\ \A k \in i..n : open(k) >= open(i)

WellFormed ==
  \A n \in DOMAIN lines :
    LET open == Cardinality({i \in 0..n : lines[i].pp = "if"})
                - Cardinality({i \in 0..n : lines[i].pp = "endif"})
    IN  open >= 0 /\ (lines[n].pp = "else" => open > 0)

\* Outside of conditionals the stack of open blocks is the one of the text
\* without the #else branches, however they nest and whatever blocks the
\* branches open or close.
NestingReference ==
  pc = "line" /\ linenum > 0 /\ WellFormed /\ nesting_state.pp_stack = << >> =>
    \A text \in {[n \in DOMAIN lines |->
                    [lines[n] EXCEPT !.toks = IF Live(n) THEN @ ELSE << >>,
                                     !.pp = IF @ \in {"if", "else", "endif"}
                                            THEN "" ELSE @]]} :
      LET ref[i \in 0..linenum] == IF i = 0 THEN NestingInit
                                   ELSE LET ns == ref[i - 1]
                                        IN  Update(ns, text, i - 1).ns
          shape(st) == [i \in DOMAIN st |-> <<st[i].kind, st[i].start, st[i].open>>]
      IN  shape(nesting_state.stack) = shape(ref[linenum].stack)

\* Two lines that some configuration compiles together: no conditional has
\* them in different branches.
Together(i, j) ==
  LET open(k) == Cardinality({m \in 0..k : lines[m].pp = "if"})
                 - Cardinality({m \in 0..k : lines[m].pp = "endif"})
  IN  ~\E e \in (i + 1)..(j - 1) :
         lines[e].pp = "else" /\ \A k \in i..e : open(k) >= open(e)

Nested ==
  \E n \in DOMAIN lines :
    Cardinality({i \in 0..n : lines[i].pp = "if"})
    - Cardinality({i \in 0..n : lines[i].pp = "endif"}) > 1

\* A header is reported as included twice only if an earlier line that can
\* be compiled together with this one includes it (files without nested
\* conditionals: the list of an inner one is emptied in place of the outer).
DuplicateIsReal ==
  \A i \in DOMAIN log :
    LET e == log[i]
        h == lines[e.line].arg
    IN  /\ e.cat = IncludeCat /\ e.conf = 4
        /\ ~h.cc /\ ~h.nodir /\ WellFormed /\ ~Nested
        => \E k \in 1..(e.line - 1) : /\ lines[k].pp = "include"
                                      /\ lines[k].arg.path = h.path
                                      /\ Together(k, e.line)

\* The kinds of header in the order they are wanted.
Wanted(h) == CASE h.sys /\ ~h.cpp -> 2 [] h.sys /\ h.cpp -> 3 [] OTHER -> 4

\* A header is reported as out of order exactly when some header since the
\* last conditional directive belongs behind it; the file's own header, or
\* one that may be, is free to come first.
OrderIsReal ==
  pc = "line" /\ linenum > 1 /\ lines[linenum - 1].pp = "include" =>
    LET n == linenum - 1
        h == lines[n].arg
        since == {k \in 1..(n - 1) :
                    /\ \A j \in k..n : lines[j].pp \notin {"if", "else", "endif"}
                    /\ \E f \in Included(include_state) : f.line = k}
        free(k) == /\ lines[k].arg.own \/ lines[k].arg.kin
                   /\ \A j \in since : j < k =>
                        ~lines[j].arg.sys /\ (lines[j].arg.own \/ lines[j].arg.kin)
        late == \E k \in since : /\ Wanted(lines[k].arg) > Wanted(h)
                                 /\ lines[k].arg.sys \/ ~free(k)
        kept == \E f \in Included(include_state) : f.line = n
    IN  kept /\ ~InAsmBlock(nesting_state) =>
          (late <=> \E i \in DOMAIN log : log[i].cat = <<"build", "include", "_order">>)

\* The line at which the function starts whose body line n is in, or 0: the
\* last line that looks like the head of a function with a body, unless a
\* closing brace in the first column comes between.
HeadOf(n) ==
  LET fn(k) == lines[k].indent = 0 /\ StartsWith(lines[k], {"fn", "TEST"})
      ends(k) == lines[k].indent = 0 /\ lines[k].toks = <<"}">>
      body(k, i) == /\ i >= k /\ Has(lines[i], "{")
                    /\ ~Has(lines[i], "}") /\ ~Has(lines[i], ";")
                    /\ \A j \in k..(i - 1) :
                         \A t \in {"{", "}", ";"} : ~Has(lines[j], t)
      heads == {k \in 1..(n - 1) : fn(k) /\ \E i \in DOMAIN lines : body(k, i)}
      head == IF heads = {} THEN 0 ELSE Max(heads)
  IN  IF \E k \in (head + 1)..(n - 1) : ends(k) THEN 0 ELSE head

\* At the end of a function it is reported exactly if its lines, without
\* blank ones and without lines that look like the head of a function, are
\* more than the limit for the verbosity; the report has a confidence that
\* this verbosity, up to the highest level (5), shows.
LongFunctionShown ==
  LET n == linenum - 1
      reports == {i \in DOMAIN log : log[i].cat = FnSize}
      head == HeadOf(n)
      base == IF lines[head].toks[1] = "TEST" THEN TestTrigger ELSE NormalTrigger
      size == Cardinality({k \in (head + 1)..(n - 1) :
                /\ ~IsBlank(lines[k])
                /\ lines[k].indent > 0 \/ ~StartsWith(lines[k], {"fn", "TEST"})})
  IN  pc = "line" /\ n > 0 /\ lines[n].indent = 0 /\ lines[n].toks = <<"}">>
      /\ (\A k \in 0..n : ~Has(lines[k], "asm")) =>
        /\ reports # {} <=> head > 0 /\ Exceeds(size, base, args.verbose)
        /\ args.verbose <= 5 => \A i \in reports : log[i].conf >= args.verbose
=============================================================================
