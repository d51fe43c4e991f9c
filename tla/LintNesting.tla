---------------------------- MODULE LintNesting ----------------------------
(***************************************************************************)
(* cpplint.py: NestingState, the stack of open blocks, with the            *)
(* checkpoints it takes at conditional directives, and the checks that     *)
(* read it.                                                                *)
(*                                                                         *)
(* A line of C++ is a record:                                              *)
(*   toks    what is left of the line without comments and strings, as     *)
(*           tokens: "namespace" "class" "struct" "extern" "asm" "fn"      *)
(*           "TEST" "public" "private" "DISALLOW" "template" "x" and the   *)
(*           brackets and semicolons; ">" stands for a token that makes the class name  *)
(*           in front of it a template argument                            *)
(*   name    the name it declares, as a template's parameter too, or that  *)
(*           DISALLOW..., a constructor or the word before a brace mentions*)
(*   pp      its directive: "if" (ifdef, ifndef), "else" (elif), "endif",  *)
(*           "define", "include" or ""                                     *)
(*   indent  leading blanks; note: the name in a // namespace comment      *)
(***************************************************************************)
EXTENDS Integers, Sequences, SequencesExt, FiniteSetsExt

CONSTANTS
  NamespaceLines,  \* shorter namespaces need no comment at the end (10)
  SmallClass       \* CheckSectionSpacing skips classes up to here (24)

NoNote == "no note"

Count(l, t) == Len(SelectSeq(l.toks, LAMBDA u : u = t))
Has(l, t) == \E i \in DOMAIN l.toks : l.toks[i] = t
StartsWith(l, ts) == l.toks # << >> /\ l.toks[1] \in ts
IsBlank(l) == l.toks = << >> /\ l.pp = ""
Err(n, c, f) == [line |-> n, cat |-> c, conf |-> f]

-----------------------------------------------------------------------------
(* _BlockInfo and its derived classes *)

BlockInfo(n, seen) ==
  [kind |-> "block", name |-> "", start |-> n, open |-> seen, parens |-> 0,
   asm |-> "no", access |-> "", indent |-> 0, last |-> 0]

ExternCInfo(n) == [BlockInfo(n, TRUE) EXCEPT !.kind = "extern"]

NamespaceInfo(name, n) ==
  [BlockInfo(n, FALSE) EXCEPT !.kind = "namespace", !.name = name]

\* Braces opened less braces closed on lines a to b.
Depth(lines, a, b) ==
  FoldLeft(LAMBDA d, i : d + Count(lines[i], "{") - Count(lines[i], "}"),
           0, [i \in 1..(b - a + 1) |-> a + i - 1])

\* last_line: the first line after which the braces since line n balance.
ClassInfo(key, lines, n) ==
  LET ends == {i \in DOMAIN lines : i >= n /\ Depth(lines, n, i) = 0}
  IN  [BlockInfo(n, FALSE) EXCEPT
         !.kind = "class", !.name = lines[n].name,
         !.access = IF key = "struct" THEN "public" ELSE "private",
         !.indent = lines[n].indent,
         !.last = IF ends = {} THEN 0 ELSE Min(ends)]

\* _ClassInfo.CheckEnd: DISALLOW... is the last thing in the class, and the
\* closing brace is below the class.
ClassEnd(b, lines, n) ==
  LET ms == {i \in (b.start + 1)..(n - 1) :
               Has(lines[i], "DISALLOW") /\ lines[i].name = b.name}
      m  == Max(ms)
      late == ms # {} /\ \E i \in (m + 1)..(n - 1) : ~IsBlank(lines[i])
  IN  (IF late THEN <<Err(m, <<"readability", "constructors">>, 3)>> ELSE << >>)
      \o (IF StartsWith(lines[n], {"}"}) /\ lines[n].indent # b.indent
          THEN <<Err(n, <<"whitespace", "indent">>, 3)>> ELSE << >>)

\* _NamespaceInfo.CheckEnd
NamespaceEnd(b, lines, n) ==
  IF \/ n - b.start < NamespaceLines /\ lines[n].note = NoNote
     \/ lines[n].note = b.name
  THEN << >> ELSE <<Err(n, <<"readability", "namespace">>, 5)>>

CheckEnd(b, lines, n) ==
  CASE b.kind = "class" -> ClassEnd(b, lines, n)
    [] b.kind = "namespace" -> NamespaceEnd(b, lines, n)
    [] OTHER -> << >>

-----------------------------------------------------------------------------
(* NestingState: stack, pp_stack, prev = [kind, depth] of the top of the   *)
(* stack before the line (previous_stack_top, an object that is compared   *)
(* by identity: depth 0 once the stack is replaced by a copy).             *)

NoTop == [kind |-> "none", depth |-> 0]
NestingInit == [stack |-> << >>, prev |-> NoTop, pp_stack |-> << >>]

SeenOpenBrace(st) == st = << >> \/ Last(st).open
InNamespaceBody(ns) == ns.stack # << >> /\ Last(ns.stack).kind = "namespace"
InExternC(ns) == ns.stack # << >> /\ Last(ns.stack).kind = "extern"
InAsmBlock(ns) == ns.stack # << >> /\ Last(ns.stack).asm # "no"

InnermostClass(ns) ==
  SelectLastInSeq(ns.stack, LAMBDA b : b.kind = "class")

\* Mutant of UpdatePreprocessor: #endif keeps the stack of the last branch.
UpdatePreprocessorLast(ns, l) ==
  LET top == Last(ns.pp_stack)
  IN  CASE l.pp = "if" ->
             [ns EXCEPT !.pp_stack = Append(@, [before_if |-> ns.stack,
                                                before_else |-> << >>,
                                                seen_else |-> FALSE])]
        [] l.pp = "else" /\ ns.pp_stack # << >> ->
             [ns EXCEPT !.stack = top.before_if, !.prev = NoTop,
                        !.pp_stack[Len(ns.pp_stack)].seen_else = TRUE]
        [] l.pp = "endif" /\ ns.pp_stack # << >> ->
             [ns EXCEPT !.pp_stack = Front(@)]
        [] OTHER -> ns

\* #if saves the stack, #else and #elif go back to it, #endif goes on with
\* the stack at the first #else.
UpdatePreprocessor(ns, l) ==
  LET top == Last(ns.pp_stack)
  IN  CASE l.pp = "if" ->
             [ns EXCEPT !.pp_stack = Append(@, [before_if |-> ns.stack,
                                                before_else |-> << >>,
                                                seen_else |-> FALSE])]
        [] l.pp = "else" /\ ns.pp_stack # << >> ->
             [ns EXCEPT
                !.stack = top.before_if, !.prev.depth = 0,
                !.pp_stack[Len(ns.pp_stack)] =
                   IF top.seen_else THEN top
                   ELSE [top EXCEPT !.seen_else = TRUE,
                                    !.before_else = ns.stack]]
        [] l.pp = "endif" /\ ns.pp_stack # << >> ->
             [ns EXCEPT
                !.stack = IF top.seen_else THEN top.before_else ELSE @,
                !.prev.depth = IF top.seen_else THEN 0 ELSE @,
                !.pp_stack = Front(@)]
        [] OTHER -> ns

\* Parentheses and inline assembly of the innermost block.
Parens(st, l) ==
  LET b == Last(st)
      change == Count(l, "(") - Count(l, ")")
      open == b.parens + change
      asm == IF b.asm \in {"no", "end"}
             THEN IF change # 0 /\ open = 1 /\ StartsWith(l, {"asm"})
                  THEN "inside" ELSE "no"
             ELSE IF b.asm = "inside" /\ open = 0 THEN "end" ELSE b.asm
  IN  IF st = << >> THEN st
      ELSE [st EXCEPT ![Len(st)].parens = open, ![Len(st)].asm = asm]

\* Namespaces at the start of the line, each up to its brace: the position
\* of the first token left, and the stack.
Namespaces(st, l, n) ==
  FoldLeft(
    LAMBDA a, i :
      LET rest == {j \in DOMAIN l.toks : j > i /\ l.toks[j] = "{"}
          brace == Min(rest)
          new == NamespaceInfo(l.name, n)
      IN  CASE i # a.pos \/ l.toks[i] # "namespace" -> a
            [] rest # {} -> [pos |-> brace + 1,
                             stack |-> Append(a.stack,
                                              [new EXCEPT !.open = TRUE])]
            [] OTHER -> [pos |-> i + 1, stack |-> Append(a.stack, new)],
    [pos |-> 1, stack |-> st], [i \in DOMAIN l.toks |-> i])

\* Scans forward from a class name to the first token that decides.
InTemplateArgumentList(lines, n, pos) ==
  LET last == Max(DOMAIN lines)
      rest == SubSeq(lines[n].toks, pos, Len(lines[n].toks))
              \o FlattenSeq([i \in 1..(last - n) |-> lines[n + i].toks])
      first == SelectInSeq(rest, LAMBDA t : t \in {"{", "}", ";", ">"})
  IN  first # 0 /\ rest[first] = ">"

\* A class declaration in what is left of the line.
Class(a, lines, n) ==
  LET l == lines[n]
  IN  IF /\ a.pos \in DOMAIN l.toks /\ l.toks[a.pos] \in {"class", "struct"}
         /\ a.stack = << >> \/ Last(a.stack).parens = 0
         /\ ~InTemplateArgumentList(lines, n, a.pos + 1)
      THEN [pos |-> a.pos + 1,
            stack |-> Append(a.stack, ClassInfo(l.toks[a.pos], lines, n))]
      ELSE a

\* public: and its like inside a class.
Access(a, l, n) ==
  LET labels == {i \in DOMAIN l.toks : i >= a.pos
                                       /\ l.toks[i] \in {"public", "private"}}
      label == Max(labels)
      b == Last(a.stack)
  IN  IF a.stack = << >> \/ labels = {} \/ b.kind # "class"
      THEN [pos |-> a.pos, stack |-> a.stack, errs |-> << >>]
      ELSE [pos |-> a.pos,
            stack |-> [a.stack EXCEPT ![Len(a.stack)].access = l.toks[label]],
            errs |-> IF label = 1 /\ l.indent # b.indent + 1
                     THEN <<Err(n, <<"whitespace", "indent">>, 3)>> ELSE << >>]

\* One brace, semicolon or closing parenthesis; lead is the first token
\* after the one before it.
Token(a, lines, n, t, lead) ==
  CASE t = "{" /\ ~SeenOpenBrace(a.stack) ->
         [a EXCEPT !.stack[Len(a.stack)].open = TRUE]
    [] t = "{" /\ SeenOpenBrace(a.stack) /\ lead = "extern" ->
         [a EXCEPT !.stack = Append(@, ExternCInfo(n))]
    [] t = "{" /\ SeenOpenBrace(a.stack) /\ lead # "extern" ->
         [a EXCEPT !.stack =
            Append(@, [BlockInfo(n, TRUE) EXCEPT
                         !.asm = IF lead = "asm" THEN "block" ELSE "no"])]
    [] t \in {";", ")"} /\ ~SeenOpenBrace(a.stack) ->
         [a EXCEPT !.stack = Front(@)]
    [] t = "}" /\ a.stack # << >> ->
         [a EXCEPT !.stack = Front(@),
                   !.errs = @ \o CheckEnd(Last(a.stack), lines, n)]
    [] OTHER -> a

Braces(a, lines, n) ==
  LET toks == lines[n].toks
      ends == {"{", "}", ";", ")"}
      lead(i) == LET s == {j \in a.pos..i : \A k \in j..(i - 1) : toks[k] \notin ends}
                 IN  toks[Min(s)]
  IN  FoldLeft(LAMBDA b, i : IF i < a.pos \/ toks[i] \notin ends THEN b
                             ELSE Token(b, lines, n, toks[i], lead(i)),
               a, [i \in DOMAIN toks |-> i])

\* NestingState.Update: the new state and the errors.
Update(ns, lines, n) ==
  LET top == IF ns.stack = << >> THEN NoTop
             ELSE [kind |-> Last(ns.stack).kind, depth |-> Len(ns.stack)]
      ns1 == UpdatePreprocessor([ns EXCEPT !.prev = top], lines[n])
      st == Parens(ns1.stack, lines[n])
      a == Braces(Access(Class(Namespaces(st, lines[n], n), lines, n),
                         lines[n], n), lines, n)
  IN  [ns |-> [ns1 EXCEPT !.stack = a.stack], errs |-> a.errs]

CheckCompletedBlocks(ns) ==
  LET err(b) == CASE b.kind = "class" -> <<Err(b.start, <<"build", "class">>, 5)>>
                  [] b.kind = "namespace" ->
                       <<Err(b.start, <<"build", "namespaces">>, 5)>>
                  [] OTHER -> << >>
  IN  FlattenSeq([i \in DOMAIN ns.stack |-> err(ns.stack[i])])

-----------------------------------------------------------------------------
(* Checks that read the nesting *)

IsForwardClassDeclaration(l) == l.toks = <<"class", ";">>

IsBlockInNameSpace(ns, forward) ==
  LET st == ns.stack
  IN  IF forward THEN InNamespaceBody(ns)
      ELSE /\ Len(st) > 1 /\ Last(st).kind \in {"class", "namespace"}
           /\ st[Len(st) - 1].kind = "namespace"

CheckForNamespaceIndentation(ns, l, n) ==
  LET st == ns.stack
      item == /\ Len(st) > 1 /\ Last(st).kind \in {"class", "namespace"}
              /\ ns.prev.kind = "namespace" /\ ns.prev.depth = Len(st) - 1
      forward == IsForwardClassDeclaration(l)
  IN  IF /\ item \/ forward
         /\ l.pp # "define"
         /\ IsBlockInNameSpace(ns, forward)
         /\ l.indent > 0
      THEN <<Err(n, <<"runtime", "indentation_namespace">>, 4)>> ELSE << >>

CheckAccess(ns, l, n) ==
  IF /\ StartsWith(l, {"DISALLOW"}) /\ ns.stack # << >>
     /\ Last(ns.stack).kind = "class" /\ Last(ns.stack).access # "private"
  THEN <<Err(n, <<"readability", "constructors">>, 3)>> ELSE << >>

\* The blank line checks of CheckSpacing.
CheckSpacing(ns, lines, n) ==
  LET prev == lines[n - 1]
      open == SelectLastInSeq(prev.toks, LAMBDA t : t = "{")
      close == SelectLastInSeq(prev.toks, LAMBDA t : t = "}")
      err(c, f) == IF c THEN <<Err(n, <<"whitespace", "blank_line">>, f)>> ELSE << >>
  IN  IF ~lines[n].blank \/ n = 0 \/ InNamespaceBody(ns) \/ InExternC(ns)
      THEN << >>
      ELSE err(open > close, 2)
           \o err(n + 1 \in DOMAIN lines /\ StartsWith(lines[n + 1], {"}"}), 3)
           \o err(StartsWith(prev, {"public", "private"}), 3)

\* _IsType: t is a parameter of the template some open block belongs to, out
\* to the next namespace.  The template is looked for in front of the block,
\* back to where the block around it starts.
IsType(ns, lines, t) ==
  \E k \in DOMAIN ns.stack :
    /\ \A j \in k..Len(ns.stack) : ns.stack[j].kind # "namespace"
    /\ LET first == IF k = 1 THEN 0 ELSE ns.stack[k - 1].start
           heads == {i \in first..ns.stack[k].start : Has(lines[i], "template")}
       IN  /\ heads # {}
           /\ \E i \in Max(heads)..ns.stack[k].start :
                /\ lines[i].name = t
                /\ \E d \in {"template", "class", "struct"} : Has(lines[i], d)

\* Where a check of a line's text reports: CheckForNonConstReference outside
\* of function bodies, CheckForNonStandardConstructs for the constructor of
\* the innermost class, CheckBracesSpacing unless the brace follows a type.
InScope(scope, ns, lines, n) ==
  LET c == InnermostClass(ns)
  IN  CASE scope = "reference" -> ns.prev.kind \in {"none", "class", "namespace"}
        [] scope = "constructor" ->
             c # 0 /\ ns.stack[c].open /\ ns.stack[c].name = lines[n].name
        [] scope = "brace" -> ~IsType(ns, lines, lines[n].name)
        [] OTHER -> TRUE

\* A blank line before a label of a class that is not small.
CheckSectionSpacing(ns, lines, n) ==
  LET c == InnermostClass(ns)
      b == ns.stack[c]
      heads == {i \in b.start..(n - 1) : lines[i].toks # << >>
                                         /\ Last(lines[i].toks) = "{"}
      head == IF heads = {} THEN b.start ELSE Min(heads)
  IN  IF /\ c # 0
         /\ b.last - b.start > SmallClass /\ n > b.start
         /\ StartsWith(lines[n], {"public", "private"})
         /\ ~IsBlank(lines[n - 1])
         /\ ~Has(lines[n - 1], "class") /\ ~Has(lines[n - 1], "struct")
         /\ head < n - 1
      THEN <<Err(n, <<"whitespace", "blank_line">>, 3)>> ELSE << >>
=============================================================================
