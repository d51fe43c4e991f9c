--------------------------- MODULE CppLintProofs ---------------------------
(***************************************************************************)
(* What holds of cpplint for every command line, every file and every      *)
(* CPPLINT.cfg file.                                                       *)
(***************************************************************************)
EXTENDS CppLint, BaseLemmas

\* The filters of the command line.
CommandFilters == DEFAULT_FILTERS \o args.filters

\* The fields of _cpplint_state.
StateFields == {"verbose_level", "error_count", "filters", "filters_backup",
                "counting", "errors_by_category"}

-----------------------------------------------------------------------------
(* The inductive invariant *)

\* The filters of the command line hold between two files, and are what was
\* saved while one is processed.
FilterInv ==
  /\ DOMAIN state = StateFields
  /\ pc \in {"next", "file"} => state.filters = CommandFilters
  /\ pc \in {"read", "line"} => state.filters_backup = CommandFilters

IncludeOK(inc) ==
  inc.section \in 0..4 /\ IsList(inc.include_list) /\ inc.include_list # << >>

FunctionOK(fs, n) ==
  /\ DOMAIN fs = {"in_a_function", "lines_in_function", "test"}
  /\ fs.lines_in_function \in 0..n

SupOK(u) ==
  DOMAIN u = {"lines", "global"} /\ u.global \subseteq CSuppressed \cup KernelSuppressed

\* What is kept of a file.
FileInv ==
  /\ linenum \in Nat /\ IncludeOK(include_state)
  /\ FunctionOK(function_state, linenum) /\ SupOK(sup)

\* What is kept of the command line.
SessionInv ==
  /\ args \in Commands /\ fileno \in 0..Len(args.files)
  /\ state.verbose_level \in Int
  /\ pc \in {"args", "next", "file", "read", "line"} \/ Ended

LintInv == FilterInv /\ FileInv /\ SessionInv

-----------------------------------------------------------------------------
(* The operators *)

\* Errors are counted: nothing else of the state changes.
LEMMA ErrorsKeep ==
  ASSUME NEW s, NEW u, NEW errs, NEW t, t = Errors(s, u, errs), DOMAIN s = StateFields
  PROVE  /\ DOMAIN t = StateFields /\ t.filters = s.filters
         /\ t.filters_backup = s.filters_backup /\ t.verbose_level = s.verbose_level
<1>1. PICK c : t = IncrementErrorCount(s, c)
  BY DEF Errors
<1>2. PICK k, b : t = [s EXCEPT !.error_count = k, !.errors_by_category = b]
  BY <1>1 DEF IncrementErrorCount
<1> QED BY <1>2 DEF StateFields

\* The section a header leads to is one of the five.
LEMMA SectionRange ==
  ASSUME NEW inc, inc.section \in 0..4, NEW type
  PROVE  CheckNextIncludeOrder(inc, type).section \in 0..4
<1>1. PICK s \in 0..4 : s = inc.section
  OBVIOUS
<1> QED BY <1>1 DEF CheckNextIncludeOrder

\* The last list of includes is never dropped.
LEMMA SectionReset ==
  ASSUME NEW inc, IncludeOK(inc), NEW d
  PROVE  IncludeOK(ResetSection(inc, d))
<1>1. PICK s, t : s = inc.include_list /\ t = ResetSection(inc, d).include_list
  OBVIOUS
<1>2. IsList(s) /\ s # << >>
  BY <1>1 DEF IncludeOK
<1>3. ResetSection(inc, d).section = 0
  BY DEF ResetSection
<1>4. t = Append(s, << >>) \/ t = Append(Front(s), << >>) \/ t = s
  BY <1>1 DEF ResetSection
<1>5. IsList(Front(s))
  <2> DEFINE S == {s[i] : i \in DOMAIN s}
  <2>1. s \in Seq(S)
    BY <1>2 DEF IsList
  <2> HIDE DEF S
  <2>2. Front(s) \in Seq(S)
    <3>1. Len(s) \in Nat /\ Len(s) # 0
      BY <1>2, <2>1, LenProperties, EmptySeq
    <3>2. \A k \in 1..(Len(s) - 1) : s[k] \in S
      BY <2>1, <3>1, ElementOfSeq
    <3> QED BY <2>1, <3>1, <3>2, SubSeqProperties DEF Front
  <2> QED BY <2>2, ListOf
<1>6. ASSUME NEW r, IsList(r) PROVE IsList(Append(r, << >>)) /\ Append(r, << >>) # << >>
  <2>1. PICK e : e = << >>
    OBVIOUS
  <2>2. PICK q : q = Append(r, e)
    OBVIOUS
  <2>3. IsList(q) /\ DOMAIN q = 1..(Len(r) + 1) /\ Len(r) \in Nat
    BY <1>6, <2>2, ListAppend
  <2>4. q # << >>
    <3>1. 1 \in 1..(Len(r) + 1)
      BY <2>3
    <3>2. DOMAIN q # {}
      BY <2>3, <3>1
    <3> QED BY <3>2, ListEmpty
  <2> QED BY <2>1, <2>2, <2>3, <2>4
<1>7. IsList(t) /\ t # << >>
  BY <1>2, <1>4, <1>5, <1>6
<1> QED BY <1>1, <1>3, <1>7 DEF IncludeOK

\* A line with an include.
LEMMA IncludeLine ==
  ASSUME NEW inc, IncludeOK(inc), NEW ls, NEW n
  PROVE  IncludeOK(CheckIncludeLine(inc, ls, n).inc)
<1>1. PICK s : s = inc.include_list
  OBVIOUS
<1>2. IsList(s) /\ s # << >> /\ inc.section \in 0..4
  BY <1>1 DEF IncludeOK
<1>3. PICK i : i = CheckIncludeLine(inc, ls, n).inc
  OBVIOUS
<1>4. PICK type : type = ClassifyInclude(ls[n].arg)
  OBVIOUS
<1>5. \/ i = inc
      \/ \E e, r : i = [include_list |-> [s EXCEPT ![Len(s)] = Append(@, e)],
                        section |-> CheckNextIncludeOrder(inc, type).section,
                        last_header |-> r]
  BY <1>1, <1>3, <1>4 DEF CheckIncludeLine
<1>6. ASSUME NEW e, NEW t, t = [s EXCEPT ![Len(s)] = Append(@, e)]
      PROVE  IsList(t) /\ t # << >>
  <2>1. Len(s) \in Nat /\ DOMAIN s = 1..Len(s) /\ Len(s) # 0
    BY <1>2, LenProperties, EmptySeq DEF IsList
  <2>2. DOMAIN t = 1..Len(s)
    BY <1>6, <2>1
  <2>3. t = [k \in 1..Len(s) |-> t[k]]
    BY <1>6, <2>1
  <2>4. PICK m \in Nat : m = Len(s) /\ m # 0
    BY <2>1
  <2> DEFINE T == {t[k] : k \in DOMAIN t}
  <2>5. t \in [1..m -> T]
    BY <2>2, <2>3, <2>4
  <2>6. t \in Seq(T)
    <3> HIDE DEF T
    <3> QED BY <2>5
  <2>7. DOMAIN t # {}
    BY <2>2, <2>4
  <2> QED BY <2>6, <2>7, ListEmpty DEF IsList
<1>7. CASE i = inc
  BY <1>3, <1>7
<1>8. CASE i # inc
  <2>1. PICK e, r : i = [include_list |-> [s EXCEPT ![Len(s)] = Append(@, e)],
                         section |-> CheckNextIncludeOrder(inc, type).section,
                         last_header |-> r]
    BY <1>5, <1>8
  <2>2. PICK t : t = [s EXCEPT ![Len(s)] = Append(@, e)]
    OBVIOUS
  <2>3. i.include_list = t /\ i.section = CheckNextIncludeOrder(inc, type).section
    BY <2>1, <2>2
  <2>4. IsList(t) /\ t # << >>
    BY <1>6, <2>2
  <2>5. CheckNextIncludeOrder(inc, type).section \in 0..4
    BY <1>2, SectionRange
  <2> QED BY <1>3, <2>3, <2>4, <2>5 DEF IncludeOK
<1> QED BY <1>7, <1>8

\* Every line.
LEMMA LanguageOK ==
  ASSUME NEW inc, IncludeOK(inc), NEW ls, NEW n
  PROVE  IncludeOK(CheckLanguage(inc, ls, n).inc)
<1>1. CASE ls[n].pp = "include"
  BY <1>1, IncludeLine DEF CheckLanguage
<1>2. CASE ls[n].pp \in {"if", "else", "endif"}
  <2>1. CheckLanguage(inc, ls, n).inc = ResetSection(inc, ls[n].pp)
    BY <1>2 DEF CheckLanguage
  <2> QED BY <2>1, SectionReset
<1>3. CASE ls[n].pp \notin {"include", "if", "else", "endif"}
  BY <1>3 DEF CheckLanguage
<1> QED BY <1>1, <1>2, <1>3

\* A function is never longer than the lines that were read.
LEMMA FunctionsOK ==
  ASSUME NEW fs, NEW n \in Nat, FunctionOK(fs, n), NEW v, NEW ls, NEW k
  PROVE  FunctionOK(CheckForFunctionLengths(fs, v, ls, k).fs, n + 1)
<1>1. PICK g : g = CheckForFunctionLengths(fs, v, ls, k).fs
  OBVIOUS
<1>2. \/ g = fs
      \/ \E b : g = Begin(b)
      \/ g = [fs EXCEPT !.in_a_function = FALSE]
      \/ g = [fs EXCEPT !.lines_in_function = @ + 1]
  <2> DEFINE l == ls[k]
             starting == l.indent = 0 /\ StartsWith(l, {"fn", "TEST"})
             bodies == HeadEnds(ls, k)
             closing == EndsFunction(l)
  <2>1. ASSUME starting PROVE ~closing
    <3>1. PICK toks : toks = l.toks
      OBVIOUS
    <3>2. toks[1] \in {"fn", "TEST"}
      BY <2>1, <3>1 DEF StartsWith
    <3>3. toks # <<"}">>
      <4>1. ASSUME toks = <<"}">> PROVE toks[1] = "}"
        BY <4>1
      <4>2. "}" \notin {"fn", "TEST"}
        OBVIOUS
      <4> QED BY <3>2, <4>1, <4>2
    <3> QED BY <3>1, <3>3 DEF EndsFunction
  <2>2. CASE starting
    <3> HIDE DEF closing, bodies
    <3>1. PICK body : body = ls[Min(bodies)]
      OBVIOUS
    <3>2. PICK c : c = CheckForFunctionLengths(fs, v, ls, k)
      OBVIOUS
    <3>3. CASE bodies = {}
      <4>1. c = [fs |-> fs, errs |-> <<Err(k, FnSize, 5)>>]
        BY <2>1, <2>2, <3>2, <3>3 DEF CheckForFunctionLengths, bodies, closing
      <4> QED BY <1>1, <3>2, <4>1
    <3>4. CASE bodies # {} /\ (Has(body, ";") \/ Has(body, "}"))
      <4>1. c = [fs |-> fs, errs |-> << >>]
        BY <2>1, <2>2, <3>1, <3>2, <3>4 DEF CheckForFunctionLengths, bodies, closing
      <4> QED BY <1>1, <3>2, <4>1
    <3>5. CASE bodies # {} /\ ~(Has(body, ";") \/ Has(body, "}"))
      <4>1. c = [fs |-> Begin(l.toks[1] = "TEST"), errs |-> << >>]
        BY <2>1, <2>2, <3>1, <3>2, <3>5 DEF CheckForFunctionLengths, bodies, closing
      <4> QED BY <1>1, <3>2, <4>1
    <3> QED BY <3>3, <3>4, <3>5
  <2>3. CASE ~starting /\ closing
    BY <1>1, <2>3 DEF CheckForFunctionLengths
  <2>4. CASE ~starting /\ ~closing
    BY <1>1, <2>4 DEF CheckForFunctionLengths, CountLine
  <2> QED BY <2>1, <2>2, <2>3, <2>4
<1>3. PICK a \in 0..n : a = fs.lines_in_function
  BY DEF FunctionOK
<1>4. a \in 0..(n + 1) /\ a + 1 \in 0..(n + 1) /\ 0 \in 0..(n + 1)
  BY <1>3
<1>5. CASE g = fs
  BY <1>3, <1>4, <1>5, <1>1 DEF FunctionOK
<1>6. CASE \E b : g = Begin(b)
  BY <1>1, <1>4, <1>6 DEF FunctionOK, Begin
<1>7. CASE g = [fs EXCEPT !.in_a_function = FALSE]
  BY <1>1, <1>3, <1>4, <1>7 DEF FunctionOK
<1>8. CASE g = [fs EXCEPT !.lines_in_function = @ + 1]
  BY <1>1, <1>3, <1>4, <1>8 DEF FunctionOK
<1> QED BY <1>2, <1>5, <1>6, <1>7, <1>8

\* A NOLINT comment excuses a category on a line, never in the whole file.
LEMMA NolintOK ==
  ASSUME NEW u, SupOK(u), NEW l, NEW n
  PROVE  SupOK(ParseNolintSuppressions(u, l, n))
<1>1. PICK w : w = ParseNolintSuppressions(u, l, n)
  OBVIOUS
<1>2. w = u \/ \E x : w = [u EXCEPT !.lines = x]
  BY <1>1 DEF ParseNolintSuppressions
<1> QED BY <1>1, <1>2 DEF SupOK

\* The suppressions the header guard check leaves.
LEMMA GuardOK ==
  ASSUME NEW u, SupOK(u), NEW ls, NEW v
  PROVE  SupOK(CheckForHeaderGuard(u, ls, v).sup2)
<1>1. PICK w : w = CheckForHeaderGuard(u, ls, v).sup2
  OBVIOUS
<1>2. \/ w = u
      \/ \E l, n : w = ParseNolintSuppressions(u, l, n)
      \/ \E l, n, k, m : w = ParseNolintSuppressions(ParseNolintSuppressions(u, l, n), k, m)
  BY <1>1 DEF CheckForHeaderGuard
<1>3. ASSUME NEW l, NEW n, NEW k, NEW m
      PROVE  /\ SupOK(ParseNolintSuppressions(u, l, n))
             /\ SupOK(ParseNolintSuppressions(ParseNolintSuppressions(u, l, n), k, m))
  <2>1. PICK a : a = ParseNolintSuppressions(u, l, n)
    OBVIOUS
  <2>2. SupOK(a)
    BY <2>1, NolintOK
  <2>3. SupOK(ParseNolintSuppressions(a, k, m))
    BY <2>2, NolintOK
  <2> QED BY <2>1, <2>2, <2>3
<1> QED BY <1>1, <1>2, <1>3

\* Those of a file's marks.
LEMMA GlobalOK ==
  ASSUME NEW u, NEW ls
  PROVE  SupOK(ProcessGlobalSuppresions(ResetNolintSuppressions(u), ls))
<1>1. PICK w : w = ProcessGlobalSuppresions(ResetNolintSuppressions(u), ls)
  OBVIOUS
<1>2. PICK a, b : /\ w = [[lines |-> {}, global |-> {}] EXCEPT !.global = (@ \cup a) \cup b]
                  /\ a \subseteq CSuppressed /\ b \subseteq KernelSuppressed
  <2> DEFINE r == ResetNolintSuppressions(u)
             c == IF \E n \in DOMAIN ls : ls[n].mark = "c" THEN CSuppressed ELSE {}
             k == IF \E n \in DOMAIN ls : ls[n].mark = "kernel" THEN KernelSuppressed ELSE {}
  <2>1. c \subseteq CSuppressed /\ k \subseteq KernelSuppressed
    OBVIOUS
  <2>2. w = [r EXCEPT !.global = (@ \cup c) \cup k]
    BY <1>1 DEF ProcessGlobalSuppresions
  <2> HIDE DEF c, k
  <2>3. r = [lines |-> {}, global |-> {}]
    BY DEF ResetNolintSuppressions
  <2> HIDE DEF r
  <2> QED BY <2>1, <2>2, <2>3
<1> QED BY <1>1, <1>2 DEF SupOK

-----------------------------------------------------------------------------
(* The steps *)

\* The filters: every way out of ProcessFile restores what was saved.
LEMMA FilterStep ==
  ASSUME FilterInv, [Next \/ Terminated]_vars
  PROVE  FilterInv' /\ (state.verbose_level \in Int /\ args \in Commands
                          => state'.verbose_level \in Int)
<1>1. DOMAIN state = StateFields
  BY DEF FilterInv
<1>2. ASSUME state' = state, args' = args,
             \/ pc' = pc
             \/ pc' \notin {"next", "file", "read", "line"}
             \/ pc = "next" /\ pc' = "file"
      PROVE  FilterInv' /\ (state.verbose_level \in Int /\ args \in Commands
                              => state'.verbose_level \in Int)
  BY <1>2 DEF FilterInv, CommandFilters
<1>3. CASE BadArguments \/ NextFile \/ Exit \/ Terminated \/ UNCHANGED vars
  <2>1. state' = state
    BY <1>3 DEF BadArguments, NextFile, Exit, Terminated, vars
  <2>2. args' = args
    BY <1>3 DEF BadArguments, NextFile, Exit, Terminated, vars, session
  <2>3. \/ pc' = pc
        \/ pc' \notin {"next", "file", "read", "line"}
        \/ pc = "next" /\ pc' = "file"
    BY <1>3 DEF BadArguments, NextFile, Exit, Terminated, vars
  <2> QED BY <1>2, <2>1, <2>2, <2>3
<1>4. CASE ParseArguments
  <2>1. PICK s : s = SetFilters([state EXCEPT !.verbose_level = args.verbose], args.filters)
    OBVIOUS
  <2>2. /\ state' = ResetErrorCounts([s EXCEPT !.counting = args.counting])
        /\ pc' \in {"next", "raised"} /\ args' = args
    BY <1>4, <2>1 DEF ParseArguments, session
  <2>3. PICK f : f = CommandFilters
    OBVIOUS
  <2>4. s = [[[state EXCEPT !.verbose_level = args.verbose] EXCEPT !.filters = DEFAULT_FILTERS]
               EXCEPT !.filters = @ \o args.filters]
    BY <2>1 DEF SetFilters, AddFilters
  <2>5. DOMAIN s = StateFields /\ s.filters = f /\ s.verbose_level = args.verbose
    BY <1>1, <2>3, <2>4 DEF StateFields, CommandFilters
  <2>6. /\ DOMAIN state' = StateFields /\ state'.filters = f
        /\ state'.verbose_level = args.verbose
    BY <2>2, <2>5 DEF ResetErrorCounts, StateFields
  <2>7. CommandFilters' = CommandFilters
    BY <2>2 DEF CommandFilters
  <2>8. args \in Commands => args.verbose \in Int
    BY CommandsAssumption
  <2> QED BY <2>2, <2>3, <2>6, <2>7, <2>8 DEF FilterInv
<1>5. CASE StartFile
  <2>1. /\ pc = "file" /\ args' = args
        /\ \E c, s : /\ s = BackupFilters(state)
                     /\ \/ state' = Restored(s) /\ pc' = "next"
                        \/ state' = s /\ pc' = "raised"
                        \/ state' = AddFilters(s, CfgFilters(c)) /\ pc' \in {"read", "raised"}
    BY <1>5 DEF StartFile, session
  <2>2. PICK c, s : /\ s = BackupFilters(state)
                    /\ \/ state' = Restored(s) /\ pc' = "next"
                       \/ state' = s /\ pc' = "raised"
                       \/ state' = AddFilters(s, CfgFilters(c)) /\ pc' \in {"read", "raised"}
    BY <2>1
  <2>3. PICK f : f = CommandFilters
    OBVIOUS
  <2>4. state.filters = f /\ CommandFilters' = f
    BY <2>1, <2>3 DEF FilterInv, CommandFilters
  <2>5. /\ DOMAIN s = StateFields /\ s.filters_backup = f /\ s.filters = f
        /\ s.verbose_level = state.verbose_level
    BY <1>1, <2>2, <2>4 DEF BackupFilters, StateFields
  <2>6. CASE state' = Restored(s) /\ pc' = "next"
    <3>1. /\ DOMAIN state' = StateFields /\ state'.filters = f
          /\ state'.verbose_level = state.verbose_level
      BY <2>5, <2>6 DEF Restored, RestoreFilters, StateFields
    <3> QED BY <2>4, <2>6, <3>1 DEF FilterInv
  <2>7. CASE state' = AddFilters(s, CfgFilters(c)) /\ pc' \in {"read", "raised"}
    <3>1. PICK d : d = CfgFilters(c)
      OBVIOUS
    <3>2. /\ DOMAIN state' = StateFields /\ state'.filters_backup = f
          /\ state'.verbose_level = state.verbose_level
      BY <2>5, <2>7, <3>1 DEF AddFilters, StateFields
    <3> QED BY <2>4, <2>7, <3>2 DEF FilterInv
  <2>8. CASE state' = s /\ pc' = "raised"
    BY <2>5, <2>8 DEF FilterInv
  <2> QED BY <2>2, <2>6, <2>7, <2>8
<1>6. ASSUME NEW s, DOMAIN s = StateFields, s.filters_backup = state.filters_backup,
             s.verbose_level = state.verbose_level, state' = Restored(s),
             pc \in {"read", "line"}, pc' = "next", args' = args
      PROVE  FilterInv' /\ (state.verbose_level \in Int => state'.verbose_level \in Int)
  <2>1. PICK f : f = CommandFilters
    OBVIOUS
  <2>2. s.filters_backup = f /\ CommandFilters' = f
    BY <1>6, <2>1 DEF FilterInv, CommandFilters
  <2>3. /\ DOMAIN state' = StateFields /\ state'.filters = f
        /\ state'.verbose_level = s.verbose_level
    BY <1>6, <2>2 DEF Restored, RestoreFilters, StateFields
  <2> QED BY <1>6, <2>2, <2>3 DEF FilterInv
<1>7. CASE SkipFile
  <2>1. state' = Restored(state) /\ pc = "read" /\ pc' = "next" /\ args' = args
    BY <1>7 DEF SkipFile, session
  <2>2. PICK s : s = state
    OBVIOUS
  <2> QED BY <1>1, <1>6, <2>1, <2>2
<1>8. CASE FinishFile
  <2>1. pc = "line" /\ pc' = "next" /\ args' = args /\ \E e : state' = Restored(Errors(state, sup, e))
    BY <1>8 DEF FinishFile, session
  <2>2. PICK e : state' = Restored(Errors(state, sup, e))
    BY <2>1
  <2>3. PICK a, s, u : a = state /\ u = sup /\ s = Errors(a, u, e)
    OBVIOUS
  <2>4. /\ DOMAIN s = StateFields /\ s.filters_backup = a.filters_backup
        /\ s.verbose_level = a.verbose_level
    BY <1>1, <2>3, ErrorsKeep
  <2> QED BY <1>6, <2>1, <2>2, <2>3, <2>4
<1>9. ASSUME NEW s, DOMAIN s = StateFields, s.filters_backup = state.filters_backup,
             s.verbose_level = state.verbose_level, state' = s,
             pc \in {"read", "line"}, pc' \in {"line", "raised"}, args' = args
      PROVE  FilterInv' /\ (state.verbose_level \in Int => state'.verbose_level \in Int)
  BY <1>9 DEF FilterInv, CommandFilters
<1>10. CASE StartData
  <2>1. pc = "read" /\ pc' = "line" /\ args' = args
    BY <1>10 DEF StartData, session
  <2>2. PICK u, v, w, p, x, y, z, q :
          state' = Errors(Errors(Errors(Errors(state, u, x), v, y), w, z), p, q)
    BY <1>10, ZenonT(60) DEF StartData
  <2>3. PICK a, b, c, d, s : /\ a = state /\ b = Errors(a, u, x) /\ c = Errors(b, v, y)
                             /\ d = Errors(c, w, z) /\ s = Errors(d, p, q)
    OBVIOUS
  <2>4. /\ DOMAIN b = StateFields /\ b.filters_backup = a.filters_backup
        /\ b.verbose_level = a.verbose_level
    BY <1>1, <2>3, ErrorsKeep
  <2>5. /\ DOMAIN c = StateFields /\ c.filters_backup = b.filters_backup
        /\ c.verbose_level = b.verbose_level
    BY <2>3, <2>4, ErrorsKeep
  <2>6. /\ DOMAIN d = StateFields /\ d.filters_backup = c.filters_backup
        /\ d.verbose_level = c.verbose_level
    BY <2>3, <2>5, ErrorsKeep
  <2>7. /\ DOMAIN s = StateFields /\ s.filters_backup = d.filters_backup
        /\ s.verbose_level = d.verbose_level
    BY <2>3, <2>6, ErrorsKeep
  <2> QED BY <1>9, <2>1, <2>2, <2>3, <2>4, <2>5, <2>6, <2>7
<1>11. CASE ProcessLine
  <2>1. /\ pc = "line" /\ pc' \in {"line", "raised"} /\ args' = args
        /\ \E u, e : state' = Errors(state, u, e)
    BY <1>11 DEF ProcessLine, session
  <2>2. PICK u, e : state' = Errors(state, u, e)
    BY <2>1
  <2>3. PICK a, s : a = state /\ s = Errors(a, u, e)
    OBVIOUS
  <2>4. /\ DOMAIN s = StateFields /\ s.filters_backup = a.filters_backup
        /\ s.verbose_level = a.verbose_level
    BY <1>1, <2>3, ErrorsKeep
  <2> QED BY <1>9, <2>1, <2>2, <2>3, <2>4
<1> QED BY <1>3, <1>4, <1>5, <1>7, <1>8, <1>10, <1>11 DEF Next

\* What is kept of a file: set up by ProcessFileData, carried from line to
\* line.
LEMMA FileStep ==
  ASSUME FileInv, [Next \/ Terminated]_vars
  PROVE  FileInv'
<1>1. ASSUME UNCHANGED filestate PROVE FileInv'
  BY <1>1 DEF FileInv, filestate
<1>2. CASE BadArguments \/ ParseArguments \/ NextFile \/ Exit \/ StartFile
  BY <1>1, <1>2 DEF BadArguments, ParseArguments, NextFile, Exit, StartFile
<1>3. CASE SkipFile \/ FinishFile \/ Terminated \/ UNCHANGED vars
  BY <1>1, <1>3 DEF SkipFile, FinishFile, Terminated, vars
<1>4. CASE StartData
  <2>1. linenum' = 0 /\ include_state' = IncludeInit /\ function_state' = FunctionInit
    BY <1>4 DEF StartData
  <2>2. IncludeOK(include_state')
    <3>1. PICK e : e = << >>
      OBVIOUS
    <3>2. IncludeInit.include_list = <<e>> /\ IncludeInit.section = 0
      BY <3>1 DEF IncludeInit
    <3>3. <<e>> \in Seq({e}) /\ <<e>> # << >>
      OBVIOUS
    <3>4. IsList(<<e>>)
      BY <3>3, ListOf
    <3> QED BY <2>1, <3>2, <3>3, <3>4 DEF IncludeOK
  <2>3. linenum' \in Nat /\ FunctionOK(function_state', linenum')
    BY <2>1 DEF FunctionOK, FunctionInit
  <2>4. SupOK(sup')
    <3>1. PICK raw : raw = [n \in 0..(Len(file.lines) + 1) |->
                              IF n \in DOMAIN file.lines THEN file.lines[n] ELSE Marker]
      OBVIOUS
    <3>2. PICK u : u = ProcessGlobalSuppresions(ResetNolintSuppressions(sup), raw)
      OBVIOUS
    <3>3. SupOK(u)
      BY <3>2, GlobalOK
    <3>4. PICK r : r = RemoveMultiLineComments(raw)
      OBVIOUS
    <3>5. sup' = u \/ sup' = CheckForHeaderGuard(u, r.lines, file.guard[root]).sup2
      BY <1>4, <3>1, <3>2, <3>4 DEF StartData
    <3>6. PICK ls, v : ls = r.lines /\ v = file.guard[root]
      OBVIOUS
    <3>7. SupOK(CheckForHeaderGuard(u, ls, v).sup2)
      BY <3>3, GuardOK
    <3> QED BY <3>3, <3>5, <3>6, <3>7
  <2> QED BY <2>2, <2>3, <2>4 DEF FileInv
<1>5. CASE ProcessLine
  <2>1. PICK n, ls, v : n = linenum /\ ls = lines /\ v = state.verbose_level
    OBVIOUS
  <2>2. /\ linenum' = n + 1 /\ n \in Nat
        /\ sup' = ParseNolintSuppressions(sup, ls[n], n)
    BY <1>5, <2>1 DEF ProcessLine, FileInv
  <2>3. \/ function_state' = function_state
        \/ function_state' = CheckForFunctionLengths(function_state, v, ls, n).fs
    BY <1>5, <2>1 DEF ProcessLine
  <2>4. \/ include_state' = include_state
        \/ include_state' = CheckLanguage(include_state, ls, n).inc
    BY <1>5, <2>1 DEF ProcessLine
  <2>5. IncludeOK(include_state')
    <3>1. PICK i : i = include_state
      OBVIOUS
    <3>2. IncludeOK(i) /\ IncludeOK(CheckLanguage(i, ls, n).inc)
      BY <3>1, LanguageOK DEF FileInv
    <3> QED BY <2>4, <3>1, <3>2
  <2>6. FunctionOK(function_state', n + 1)
    <3>1. PICK g : g = function_state
      OBVIOUS
    <3>2. FunctionOK(g, n)
      BY <2>1, <3>1 DEF FileInv
    <3>3. FunctionOK(g, n + 1)
      BY <2>2, <3>2 DEF FunctionOK
    <3>4. PICK k : k = n
      OBVIOUS
    <3>5. FunctionOK(CheckForFunctionLengths(g, v, ls, k).fs, n + 1)
      BY <2>2, <3>2, FunctionsOK
    <3> QED BY <2>3, <3>1, <3>3, <3>4, <3>5
  <2>7. SupOK(sup')
    <3>1. PICK u, l : u = sup /\ l = ls[n]
      OBVIOUS
    <3>2. SupOK(ParseNolintSuppressions(u, l, n))
      BY <3>1, NolintOK DEF FileInv
    <3> QED BY <2>2, <3>1, <3>2
  <2>8. linenum' \in Nat
    BY <2>2
  <2> QED BY <2>2, <2>5, <2>6, <2>7, <2>8 DEF FileInv
<1> QED BY <1>2, <1>3, <1>4, <1>5 DEF Next

\* The command line and the step of main.
LEMMA SessionStep ==
  ASSUME FilterInv, SessionInv, [Next \/ Terminated]_vars
  PROVE  SessionInv'
<1>1. state'.verbose_level \in Int
  BY FilterStep DEF SessionInv
<1>2. Len(args.files) \in Nat
  <2>1. PICK fs : fs = args.files
    OBVIOUS
  <2>2. IsList(fs)
    BY <2>1, CommandsAssumption DEF SessionInv, IsList
  <2> QED BY <2>1, <2>2, LenProperties DEF IsList
<1>3. args' = args /\ fileno' \in 0..Len(args.files)
  <2>1. CASE NextFile
    <3>1. PICK k, n : k = fileno /\ n = Len(args.files)
      OBVIOUS
    <3>2. k \in 0..n /\ n \in Nat /\ k < n /\ fileno' = k + 1 /\ args' = args
      BY <1>2, <2>1, <3>1 DEF NextFile, SessionInv
    <3>3. k + 1 \in 0..n
      BY <3>2
    <3> QED BY <3>1, <3>2, <3>3
  <2>2. CASE BadArguments \/ ParseArguments \/ Exit \/ StartFile \/ SkipFile
    BY <2>2 DEF BadArguments, ParseArguments, Exit, StartFile, SkipFile, session, SessionInv
  <2>3. CASE StartData \/ ProcessLine \/ FinishFile
    BY <2>3 DEF StartData, ProcessLine, FinishFile, session, SessionInv
  <2>4. CASE Terminated \/ UNCHANGED vars
    BY <2>4 DEF Terminated, vars, session, SessionInv
  <2> QED BY <2>1, <2>2, <2>3, <2>4 DEF Next
<1>4. pc' \in {"args", "next", "file", "read", "line", "usage", "exit0", "exit1", "raised"}
  <2>1. CASE BadArguments \/ ParseArguments \/ NextFile \/ Exit
    BY <2>1 DEF BadArguments, ParseArguments, NextFile, Exit
  <2>2. CASE StartFile \/ SkipFile \/ StartData
    BY <2>2 DEF StartFile, SkipFile, StartData
  <2>3. CASE ProcessLine \/ FinishFile
    BY <2>3 DEF ProcessLine, FinishFile
  <2>4. CASE Terminated \/ UNCHANGED vars
    BY <2>4 DEF Terminated, vars, SessionInv, Ended
  <2> QED BY <2>1, <2>2, <2>3, <2>4 DEF Next
<1> QED BY <1>1, <1>3, <1>4 DEF SessionInv, Ended

-----------------------------------------------------------------------------
(* The theorems *)

\* The invariant holds when the process starts.
LEMMA LintInit == Init => LintInv
<1> SUFFICES ASSUME Init PROVE LintInv
  OBVIOUS
<1>1. FilterInv
  BY DEF Init, FilterInv, InitState, StateFields
<1>2. SessionInv
  <2>1. PICK fs : fs = args.files
    OBVIOUS
  <2>2. args \in Commands
    BY DEF Init
  <2>3. IsList(fs)
    BY <2>1, <2>2, CommandsAssumption DEF IsList
  <2>4. Len(fs) \in Nat
    BY <2>3, LenProperties DEF IsList
  <2>5. fileno \in 0..Len(args.files)
    BY <2>1, <2>4 DEF Init
  <2>6. state.verbose_level \in Int
    BY DEF Init, InitState
  <2>7. pc = "args"
    BY DEF Init
  <2> QED BY <2>2, <2>5, <2>6, <2>7 DEF SessionInv
<1>3. IncludeOK(include_state)
  <2>1. PICK e : e = << >>
    OBVIOUS
  <2>2. IncludeInit.include_list = <<e>> /\ IncludeInit.section = 0
    BY <2>1 DEF IncludeInit
  <2>3. <<e>> \in Seq({e}) /\ <<e>> # << >>
    OBVIOUS
  <2>4. IsList(<<e>>)
    BY <2>3, ListOf
  <2> QED BY <2>2, <2>3, <2>4 DEF Init, IncludeOK
<1>4. linenum \in Nat /\ FunctionOK(function_state, linenum) /\ SupOK(sup)
  BY DEF Init, FunctionOK, FunctionInit, SupOK
<1> QED BY <1>1, <1>2, <1>3, <1>4 DEF LintInv, FileInv

\* cpplint keeps the invariant, whatever it is given to read.
THEOREM LintInvariant == Spec => []LintInv
<1>1. ASSUME LintInv, [Next \/ Terminated]_vars PROVE LintInv'
  BY <1>1, FilterStep, FileStep, SessionStep DEF LintInv
<1> QED BY <1>1, LintInit, PTL DEF Spec

\* The variables of a session have their types, for every command line: the
\* section of the includes is one of five, the list of lists of includes is
\* never empty, a function is no longer than what was read, and only marks
\* of the file suppress a category in all of it.
THEOREM LintTypeCorrect == Spec => []TypeOK
<1>1. LintInv => TypeOK
  BY DEF LintInv, SessionInv, FileInv, IncludeOK, FunctionOK, SupOK, TypeOK
<1> QED BY <1>1, LintInvariant, PTL

\* Between two files the filters are those of the command line, whichever
\* CPPLINT.cfg files were read and whichever way ProcessFile was left.
THEOREM LintFilters == Spec => []FiltersRestored
<1>1. LintInv => FiltersRestored
  BY DEF LintInv, FilterInv, FiltersRestored, CommandFilters
<1> QED BY <1>1, LintInvariant, PTL
=============================================================================
