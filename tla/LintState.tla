----------------------------- MODULE LintState -----------------------------
(***************************************************************************)
(* cpplint.py: the module-wide state behind Error(): NOLINT suppressions,  *)
(* filters, verbosity and the error counts.                                *)
(*                                                                         *)
(* A category is the sequence of its parts, cut wherever some filter can   *)
(* end: <<"build", "include", "_alpha">> is 'build/include_alpha', which   *)
(* '-build/include' matches too.  A filter is [sign, prefix].              *)
(***************************************************************************)
EXTENDS Naturals, Sequences, FiniteSets, SequencesExt

CONSTANTS
  Categories,        \* _ERROR_CATEGORIES
  LegacyCategories,  \* _LEGACY_ERROR_CATEGORIES
  CSuppressed,       \* _DEFAULT_C_SUPPRESSED_CATEGORIES
  KernelSuppressed   \* _DEFAULT_KERNEL_SUPPRESSED_CATEGORIES

All == <<"*">>       \* NOLINT and NOLINT(*)
NoLint == [next |-> FALSE, cat |-> << >>]

IncludeAlpha == <<"build", "include", "_alpha">>
DEFAULT_FILTERS == <<[sign |-> "-", prefix |-> IncludeAlpha]>>

-----------------------------------------------------------------------------
(* _CppLintState *)

InitState ==
  [verbose_level |-> 1, error_count |-> 0, filters |-> DEFAULT_FILTERS,
   filters_backup |-> DEFAULT_FILTERS, counting |-> "total",
   errors_by_category |-> << >>]

GoodFilters(fs) == \A i \in DOMAIN fs : fs[i].sign \in {"+", "-"}

\* AddFilters appends first and raises ValueError afterwards; the caller
\* looks at GoodFilters.
AddFilters(s, fs) == [s EXCEPT !.filters = @ \o fs]
SetFilters(s, fs) == AddFilters([s EXCEPT !.filters = DEFAULT_FILTERS], fs)

BackupFilters(s) == [s EXCEPT !.filters_backup = s.filters]
RestoreFilters(s) == [s EXCEPT !.filters = s.filters_backup]

ResetErrorCounts(s) ==
  [s EXCEPT !.error_count = 0, !.errors_by_category = << >>]

\* Under which keys a category is counted: its first part, itself, or none.
CountKeys(s, c) ==
  CASE s.counting = "toplevel" -> {<<Head(c)>>}
    [] s.counting = "detailed" -> {c}
    [] OTHER -> {}

\* Mutant of IncrementErrorCount: a category is entered and never bumped.
IncrementErrorCountOnce(s, cats) ==
  LET by == s.errors_by_category
      keys == UNION {CountKeys(s, cats[i]) : i \in DOMAIN cats}
  IN  [s EXCEPT !.error_count = @ + Cardinality(DOMAIN cats),
                !.errors_by_category =
                   [k \in DOMAIN by \cup keys |-> IF k \in DOMAIN by THEN by[k] ELSE 1]]

\* A call for each of the categories cats[i].
IncrementErrorCount(s, cats) ==
  LET by == s.errors_by_category
      keys == UNION {CountKeys(s, cats[i]) : i \in DOMAIN cats}
  IN  [s EXCEPT !.error_count = @ + Cardinality(DOMAIN cats),
                !.errors_by_category =
                   [k \in DOMAIN by \cup keys |->
                      (IF k \in DOMAIN by THEN by[k] ELSE 0)
                      + Cardinality({i \in DOMAIN cats : k \in CountKeys(s, cats[i])})]]

-----------------------------------------------------------------------------
(* Suppressions: sup = [lines, global], the set of pairs category, line of *)
(* _error_suppressions and the categories of _global_error_suppressions.   *)

\* Mutant of ResetNolintSuppressions: the global ones are kept.
ResetNolintSuppressionsLines(sup) == [sup EXCEPT !.lines = {}]

ResetNolintSuppressions(sup) == [lines |-> {}, global |-> {}]

\* What a NOLINT comment on line n adds.
ParseNolintSuppressions(sup, l, n) ==
  LET target == IF l.nolint.next THEN n + 1 ELSE n
  IN  IF l.nolint.cat = All \/ l.nolint.cat \in Categories
      THEN [sup EXCEPT !.lines = @ \cup {<<l.nolint.cat, target>>}]
      ELSE sup

\* The error it reports for a category nobody knows.
NolintErrors(l, n) ==
  IF l.nolint = NoLint \/ l.nolint.cat = All
     \/ l.nolint.cat \in Categories \cup LegacyCategories
  THEN << >>
  ELSE <<[line |-> n, cat |-> <<"readability", "nolint">>, conf |-> 5]>>

ProcessGlobalSuppresions(sup, lines) ==
  [sup EXCEPT !.global =
     @ \cup (IF \E n \in DOMAIN lines : lines[n].mark = "c"
             THEN CSuppressed ELSE {})
       \cup (IF \E n \in DOMAIN lines : lines[n].mark = "kernel"
             THEN KernelSuppressed ELSE {})]

IsErrorSuppressedByNolint(sup, c, n) ==
  \/ c \in sup.global
  \/ <<c, n>> \in sup.lines \/ <<All, n>> \in sup.lines

-----------------------------------------------------------------------------
(* Error *)

\* The last filter that matches decides.
IsFiltered(fs, c) ==
  \E i \in DOMAIN fs :
    /\ fs[i].sign = "-" /\ IsPrefix(fs[i].prefix, c)
    /\ \A j \in (i + 1)..Len(fs) : ~IsPrefix(fs[j].prefix, c)

ShouldPrintError(s, sup, e) ==
  /\ ~IsErrorSuppressedByNolint(sup, e.cat, e.line)
  /\ e.conf >= s.verbose_level
  /\ ~IsFiltered(s.filters, e.cat)

\* What a sequence of calls of error() leaves of the state: no call changes
\* what the next one is judged by.
Errors(s, sup, errs) ==
  LET shown == {i \in DOMAIN errs : ShouldPrintError(s, sup, errs[i])}
  IN  IncrementErrorCount(s, [i \in shown |-> errs[i].cat])
=============================================================================
