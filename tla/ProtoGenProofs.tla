--------------------------- MODULE ProtoGenProofs ---------------------------
(***************************************************************************)
(* What holds of the generators for every proto file, every edit and every *)
(* number of runs, whichever of them fail.                                 *)
(***************************************************************************)
EXTENDS ProtoGen, BaseLemmas

\* What is written of every field, and the names the functions are for.
Codes(s) == [k \in DOMAIN s |-> <<s[k].name, s[k].tmpl>>]
Firsts(s) == [k \in DOMAIN s |-> s[k][1]]

-----------------------------------------------------------------------------
(* The names of the repeated fields *)

\* f collects the names of the repeated ones of the first n fields.
Collects(f, s, n) ==
  /\ f[0] = << >>
  /\ \A i \in 1..n : f[i] = IF s[i].tmpl \in {"struct_vec", "simple_vec"}
                            THEN Append(f[i - 1], s[i].name) ELSE f[i - 1]

\* Collected from the same fields, the names are the same.
LEMMA NamesUnique ==
  ASSUME NEW n \in Nat, NEW s, NEW t, \A i \in 1..n : s[i] = t[i],
         NEW f, NEW g, Collects(f, s, n), Collects(g, t, n)
  PROVE  \A i \in 0..n : f[i] = g[i]
<1>1. f[0] = g[0]
  BY DEF Collects
<1>2. ASSUME NEW i \in 1..n, f[i - 1] = g[i - 1] PROVE f[i] = g[i]
  <2>1. s[i] = t[i]
    OBVIOUS
  <2>2. PICK a : a = f[i - 1]
    OBVIOUS
  <2>3. CASE s[i].tmpl \in {"struct_vec", "simple_vec"}
    <3>1. f[i] = Append(a, s[i].name)
      BY <2>2, <2>3 DEF Collects
    <3>2. g[i] = Append(a, s[i].name)
      BY <1>2, <2>1, <2>2, <2>3 DEF Collects
    <3> QED BY <3>1, <3>2
  <2>4. CASE s[i].tmpl \notin {"struct_vec", "simple_vec"}
    BY <1>2, <2>1, <2>4 DEF Collects
  <2> QED BY <2>3, <2>4
<1>3. \A i \in 1..n : f[i - 1] = g[i - 1] => f[i] = g[i]
  BY <1>2
<1> QED BY <1>1, <1>3, AgreeUpTo

\* The recursion that collects the names has a solution.
LEMMA NamesSolution ==
  ASSUME NEW s, IsList(s)
  PROVE  \E f : /\ VecNames(s) = f[Len(s)] /\ IsList(f[Len(s)])
                /\ Collects(f, s, Len(s))
<1>1. PICK n \in Nat : n = Len(s)
  BY LenProperties DEF IsList
<1> DEFINE N == {s[i].name : i \in 1..n}
           step == [i \in 1..n |-> [x \in Seq(N) |->
                      IF s[i].tmpl \in {"struct_vec", "simple_vec"}
                      THEN Append(x, s[i].name) ELSE x]]
           Def(f) == [i \in 0..n |->
                        IF i = 0 THEN << >>
                        ELSE IF s[i].tmpl \in {"struct_vec", "simple_vec"}
                             THEN Append(f[i - 1], s[i].name) ELSE f[i - 1]]
<1>2. step \in [1..n -> [Seq(N) -> Seq(N)]]
  <2>1. ASSUME NEW i \in 1..n, NEW x \in Seq(N)
        PROVE  (IF s[i].tmpl \in {"struct_vec", "simple_vec"}
                THEN Append(x, s[i].name) ELSE x) \in Seq(N)
    <3>1. s[i].name \in N
      OBVIOUS
    <3> HIDE DEF N
    <3>2. Append(x, s[i].name) \in Seq(N)
      BY <3>1, AppendProperties
    <3> QED BY <3>2
  <2> HIDE DEF N
  <2> QED BY <2>1
<1>3. PICK f \in [0..n -> Seq(N)] :
        f[0] = << >> /\ \A i \in 1..n : f[i] = step[i][f[i - 1]]
  <2>1. << >> \in Seq(N)
    OBVIOUS
  <2>2. PICK X : X = Seq(N)
    OBVIOUS
  <2> HIDE DEF N, step
  <2>3. PICK b, next : b = << >> /\ next = step
    OBVIOUS
  <2>4. next \in [1..n -> [X -> X]] /\ b \in X
    BY <1>2, <2>1, <2>2, <2>3
  <2>5. \E f \in [0..n -> X] :
          f[0] = b /\ \A i \in 1..n : f[i] = next[i][f[i - 1]]
    BY <2>4, RecursionExists
  <2> QED BY <2>2, <2>3, <2>5
<1>4. ASSUME NEW i \in 1..n
      PROVE  f[i] = IF s[i].tmpl \in {"struct_vec", "simple_vec"}
                    THEN Append(f[i - 1], s[i].name) ELSE f[i - 1]
  <2>1. f[i - 1] \in Seq(N)
    <3>1. i - 1 \in 0..n
      BY <1>1
    <3> QED BY <1>3, <3>1
  <2> HIDE DEF N
  <2> QED BY <1>3, <2>1
<1>5. f = Def(f)
  <2>1. ASSUME NEW i \in 0..n PROVE f[i] = Def(f)[i]
    <3>1. CASE i = 0
      BY <1>3, <3>1
    <3>2. CASE i # 0
      <4>1. i \in 1..n
        BY <3>2
      <4> QED BY <1>4, <3>2, <4>1
    <3> QED BY <3>1, <3>2
  <2>2. DOMAIN f = 0..n /\ DOMAIN Def(f) = 0..n
    BY <1>3
  <2> QED BY <1>3, <2>1, <2>2
<1>6. PICK g : g = CHOOSE h : h = Def(h)
  OBVIOUS
<1>7. g = Def(g)
  BY <1>5, <1>6
<1>8. VecNames(s) = g[n]
  BY <1>1, <1>6 DEF VecNames
<1>9. \A i \in 0..n : f[i] = g[i]
  <2>1. g[0] = << >>
    BY <1>7
  <2>2. ASSUME NEW i \in 1..n
        PROVE  g[i] = IF s[i].tmpl \in {"struct_vec", "simple_vec"}
                      THEN Append(g[i - 1], s[i].name) ELSE g[i - 1]
    <3>1. i \in 0..n /\ i # 0
      OBVIOUS
    <3> QED BY <1>7, <3>1
  <2>3. PICK e : e = f
    OBVIOUS
  <2>4. Collects(e, s, n) /\ Collects(g, s, n)
    BY <1>3, <1>4, <2>1, <2>2, <2>3 DEF Collects
  <2>5. \A i \in 0..n : e[i] = g[i]
    <3> HIDE DEF N, step, Def
    <3>1. PICK t : t = s
      OBVIOUS
    <3>2. Collects(g, t, n) /\ \A i \in 1..n : s[i] = t[i]
      BY <2>4, <3>1
    <3> QED BY <2>4, <3>2, NamesUnique
  <2> QED BY <2>3, <2>5
<1>10. VecNames(s) = f[n] /\ IsList(f[n])
  <2>1. n \in 0..n
    OBVIOUS
  <2>2. f[n] \in Seq(N)
    BY <1>3, <2>1
  <2>3. IsList(f[n])
    BY <2>2, ListOf
  <2> QED BY <1>8, <1>9, <2>1, <2>3
<1> QED BY <1>1, <1>3, <1>4, <1>10 DEF Collects

\* One more field adds its name if it is repeated.
LEMMA NamesAppend ==
  ASSUME NEW s, IsList(s), NEW e
  PROVE  /\ IsList(VecNames(s))
         /\ e.tmpl \in {"struct_vec", "simple_vec"} =>
              VecNames(Append(s, e)) = Append(VecNames(s), e.name)
         /\ e.tmpl \notin {"struct_vec", "simple_vec"} =>
              VecNames(Append(s, e)) = VecNames(s)
<1>1. PICK t : t = Append(s, e)
  OBVIOUS
<1>2. PICK n \in Nat : n = Len(s)
  BY ListAppend
<1>3. /\ IsList(t) /\ Len(t) = n + 1 /\ t[n + 1] = e
      /\ \A i \in 1..n : s[i] = t[i]
  BY <1>1, <1>2, ListAppend
<1>4. PICK f : VecNames(s) = f[n] /\ IsList(f[n]) /\ Collects(f, s, n)
  BY <1>2, NamesSolution
<1>5. PICK g : VecNames(t) = g[n + 1] /\ Collects(g, t, n + 1)
  BY <1>3, NamesSolution
<1>6. Collects(g, t, n)
  BY <1>5 DEF Collects
<1>7. f[n] = g[n]
  <2>1. Collects(f, s, n) /\ \A i \in 1..n : s[i] = t[i]
    BY <1>3, <1>4
  <2>2. \A i \in 0..n : f[i] = g[i]
    BY <1>6, <2>1, NamesUnique
  <2> QED BY <2>2
<1>8. g[n + 1] = IF e.tmpl \in {"struct_vec", "simple_vec"}
                 THEN Append(g[n], e.name) ELSE g[n]
  <2>1. n + 1 \in 1..(n + 1) /\ n + 1 - 1 = n
    OBVIOUS
  <2> QED BY <1>3, <1>5, <2>1 DEF Collects
<1> QED BY <1>1, <1>4, <1>5, <1>7, <1>8

-----------------------------------------------------------------------------
(* The inductive invariant *)

\* What the generator has built so far matches: the classes it has finished,
\* and the parts of the one it is at.
GenInv ==
  /\ DOMAIN gen = {"m", "f", "h", "cc", "fields", "opt", "code"}
  /\ IsList(gen.h) /\ IsList(gen.cc) /\ Len(gen.h) = Len(gen.cc)
  /\ \A i \in 1..Len(gen.h) : SameClass(tool, gen.h[i], gen.cc[i])
  /\ IsList(gen.fields) /\ IsList(gen.opt) /\ IsList(gen.code)
  /\ gen.code = Codes(gen.fields)
  /\ tool = "obj" => Firsts(gen.opt) = VecNames(gen.fields)

\* Two generators with two files each.
OutShape ==
  DOMAIN out = {"bin", "obj"} /\ \A t \in {"bin", "obj"} : DOMAIN out[t] = {"h", "cpp"}

\* Which program is at which step.
ToolInv ==
  /\ OutShape
  /\ pc \in {"read", "deps", "open", "opencpp", "gen", "write"} => tool \in {"bin", "obj"}
  /\ pc = "protoc" => tool \in {"bin", "obj", "conf"}

\* What read_proto has met: the message it is in has a range of lines.
ReaderInv ==
  /\ DOMAIN reader = {"no", "begin", "end", "instructs", "dict", "last"}
  /\ reader.no \in Nat
  /\ \A m \in DOMAIN reader.dict : reader.dict[m] \in Seq(Nat)
  /\ reader.last = "" \/ reader.last \in DOMAIN reader.dict
  /\ IsList(g_all_proto)

\* How far the two files of the process that runs have come: the header is
\* emptied first, both are empty while the texts are built, and the cpp file
\* is still empty when the header has been written, whole or cut off.
FilesInv ==
  /\ pc = "opencpp" => out[tool].h = Empty
  /\ pc = "gen" => out[tool].h = Empty /\ out[tool].cpp = Empty
  /\ pc = "write" => out[tool].h \in {Full(gen.h), Part} /\ out[tool].cpp = Empty

ProtoInv == TypeOK /\ OutputsTogether /\ ToolInv /\ ReaderInv /\ GenInv /\ FilesInv

-----------------------------------------------------------------------------
(* What the generator builds *)

\* An empty list of fields has no repeated one.
LEMMA NamesEmpty == IsList(<< >>) /\ Len(<< >>) = 0 /\ VecNames(<< >>) = << >>
<1>1. IsList(<< >>) /\ Len(<< >>) = 0
  BY ListOf, EmptySeq
<1>2. PICK f : VecNames(<< >>) = f[0] /\ Collects(f, << >>, 0)
  BY <1>1, NamesSolution
<1> QED BY <1>1, <1>2 DEF Collects

\* A class that has just been begun matches.
LEMMA GenStart ==
  ASSUME gen' = GenInit
  PROVE  GenInv'
<1>1. /\ DOMAIN GenInit = {"m", "f", "h", "cc", "fields", "opt", "code"}
      /\ GenInit.h = << >> /\ GenInit.cc = << >> /\ GenInit.fields = << >>
      /\ GenInit.opt = << >> /\ GenInit.code = << >>
  BY DEF GenInit
<1>2. Codes(<< >>) = << >>
  BY DEF Codes
<1>3. Firsts(<< >>) = << >>
  BY DEF Firsts
<1> QED BY <1>1, <1>2, <1>3, NamesEmpty DEF GenInv

\* Image of a list, element by element, with one more element.
LEMMA EncAppend ==
  ASSUME NEW s, IsList(s), NEW e, NEW c, IsList(c), c = Codes(s)
  PROVE  Append(c, <<e.name, e.tmpl>>) = Codes(Append(s, e))
<1>1. PICK t : t = Append(s, e)
  OBVIOUS
<1>2. PICK x : x = <<e.name, e.tmpl>>
  OBVIOUS
<1>3. PICK d : d = Append(c, x)
  OBVIOUS
<1>4. /\ Len(s) \in Nat /\ DOMAIN s = 1..Len(s) /\ DOMAIN t = 1..(Len(s) + 1)
      /\ \A i \in 1..Len(s) : t[i] = s[i]
      /\ t[Len(s) + 1] = e
  BY <1>1, ListAppend
<1>5. /\ DOMAIN c = 1..Len(c) /\ Len(c) \in Nat /\ DOMAIN d = 1..(Len(c) + 1)
      /\ \A i \in 1..Len(c) : d[i] = c[i]
      /\ d[Len(c) + 1] = x /\ IsList(d)
  BY <1>3, ListAppend
<1>6. Len(c) = Len(s)
  <2>1. DOMAIN c = DOMAIN s
    BY DEF Codes
  <2>2. PICK m, n : m = Len(c) /\ n = Len(s)
    OBVIOUS
  <2>3. m \in Nat /\ n \in Nat /\ 1..m = 1..n
    BY <1>4, <1>5, <2>1, <2>2
  <2>4. m = n
    BY <2>3
  <2> QED BY <2>2, <2>4
<1>7. ASSUME NEW k \in 1..(Len(s) + 1) PROVE d[k] = <<t[k].name, t[k].tmpl>>
  <2>1. CASE k = Len(s) + 1
    BY <1>2, <1>4, <1>5, <1>6, <2>1
  <2>2. CASE k # Len(s) + 1
    <3>1. k \in 1..Len(s)
      BY <1>4, <2>2
    <3>2. d[k] = c[k] /\ t[k] = s[k] /\ c[k] = <<s[k].name, s[k].tmpl>>
      BY <1>4, <1>5, <1>6, <3>1 DEF Codes
    <3> QED BY <3>2
  <2> QED BY <2>1, <2>2
<1>8. d = [k \in 1..(Len(s) + 1) |-> d[k]]
  BY <1>5, <1>6, LenProperties DEF IsList
<1>9. d = Codes(t)
  BY <1>4, <1>7, <1>8 DEF Codes
<1> QED BY <1>1, <1>2, <1>3, <1>9

\* The same for the names of the functions.
LEMMA OptAppend ==
  ASSUME NEW s, IsList(s), NEW e
  PROVE  Append(Firsts(s), e[1]) = Firsts(Append(s, e))
<1>1. PICK t : t = Append(s, e)
  OBVIOUS
<1>2. /\ Len(s) \in Nat /\ DOMAIN s = 1..Len(s) /\ DOMAIN t = 1..(Len(s) + 1)
      /\ \A i \in 1..Len(s) : t[i] = s[i]
      /\ t[Len(s) + 1] = e
  BY <1>1, ListAppend
<1>3. PICK n \in Nat : n = Len(s)
  BY <1>2
<1>4. PICK c : c = Firsts(s)
  OBVIOUS
<1>5. IsList(c) /\ DOMAIN c = 1..n
  <2> DEFINE S == {s[k][1] : k \in DOMAIN s}
  <2>1. c \in [1..n -> S]
    BY <1>2, <1>3, <1>4 DEF Firsts
  <2>2. c \in Seq(S)
    BY <2>1
  <2> HIDE DEF S
  <2> QED BY <2>1, <2>2, ListOf
<1>6. PICK d : d = Append(c, e[1])
  OBVIOUS
<1>7. /\ Len(c) = n /\ DOMAIN d = 1..(n + 1) /\ d[n + 1] = e[1] /\ IsList(d)
      /\ \A i \in 1..n : d[i] = c[i]
  <2>1. /\ DOMAIN c = 1..Len(c) /\ Len(c) \in Nat /\ DOMAIN d = 1..(Len(c) + 1)
        /\ \A i \in 1..Len(c) : d[i] = c[i]
        /\ d[Len(c) + 1] = e[1] /\ IsList(d)
    BY <1>5, <1>6, ListAppend
  <2>2. Len(c) = n
    BY <1>5, <2>1
  <2> QED BY <2>1, <2>2
<1>8. ASSUME NEW k \in 1..(n + 1) PROVE d[k] = t[k][1]
  <2>1. CASE k = n + 1
    BY <1>2, <1>3, <1>7, <2>1
  <2>2. CASE k # n + 1
    <3>1. k \in 1..n
      BY <2>2
    <3>2. d[k] = c[k] /\ t[k] = s[k] /\ c[k] = s[k][1]
      BY <1>2, <1>3, <1>4, <1>7, <3>1 DEF Firsts
    <3> QED BY <3>2
  <2> QED BY <2>1, <2>2
<1>9. d = [k \in 1..(n + 1) |-> d[k]]
  BY <1>7, LenProperties DEF IsList
<1>10. d = Firsts(t)
  BY <1>2, <1>3, <1>8, <1>9 DEF Firsts
<1> QED BY <1>1, <1>4, <1>6, <1>10

\* A field whose functions, if it is repeated, are added with it.
LEMMA FieldAdded ==
  ASSUME GenInv, tool' = tool, NEW f, NEW e, NEW x, e.name = f.name,
         e.tmpl = Template(f), x = <<f.name, Template(f)>>,
         DOMAIN gen' = DOMAIN gen, gen'.h = gen.h, gen'.cc = gen.cc,
         gen'.fields = Append(gen.fields, e),
         gen'.code = Append(gen.code, x),
         \/ tool = "bin" /\ gen'.opt = gen.opt
         \/ f.repeated /\ \E o : o[1] = f.name /\ gen'.opt = Append(gen.opt, o)
         \/ ~f.repeated /\ gen'.opt = gen.opt
  PROVE  GenInv'
<1>1. /\ DOMAIN gen' = {"m", "f", "h", "cc", "fields", "opt", "code"}
      /\ IsList(gen'.h) /\ IsList(gen'.cc) /\ Len(gen'.h) = Len(gen'.cc)
      /\ \A i \in 1..Len(gen'.h) : SameClass(tool', gen'.h[i], gen'.cc[i])
  BY DEF GenInv
<1>2. IsList(gen.fields) /\ IsList(gen.code) /\ IsList(gen.opt)
  BY DEF GenInv
<1>3. IsList(gen'.fields) /\ IsList(gen'.code)
  BY <1>2, ListAppend
<1>4. gen'.code = Codes(gen'.fields)
  <2>1. PICK s, c : s = gen.fields /\ c = gen.code
    OBVIOUS
  <2>2. c = Codes(s) /\ IsList(s) /\ IsList(c)
    BY <1>2, <2>1 DEF GenInv
  <2>3. Append(c, <<e.name, e.tmpl>>) = Codes(Append(s, e))
    BY <2>2, EncAppend
  <2>4. x = <<e.name, e.tmpl>>
    OBVIOUS
  <2> QED BY <2>1, <2>3, <2>4
<1>5. /\ f.repeated => Template(f) \in {"struct_vec", "simple_vec"}
      /\ ~f.repeated => Template(f) \notin {"struct_vec", "simple_vec"}
  BY DEF Template
<1>6. CASE f.repeated /\ \E o : o[1] = f.name /\ gen'.opt = Append(gen.opt, o)
  <2>1. PICK o : o[1] = f.name /\ gen'.opt = Append(gen.opt, o)
    BY <1>6
  <2>2. VecNames(gen'.fields) = Append(VecNames(gen.fields), f.name)
    <3>1. PICK s : s = gen.fields
      OBVIOUS
    <3>2. VecNames(Append(s, e)) = Append(VecNames(s), e.name)
      BY <1>2, <1>5, <1>6, <3>1, NamesAppend
    <3> QED BY <3>1, <3>2
  <2>3. ASSUME tool = "obj"
        PROVE  Firsts(gen'.opt) = VecNames(gen'.fields)
    <3>1. PICK s : s = gen.opt
      OBVIOUS
    <3>2. Append(Firsts(s), o[1]) = Firsts(Append(s, o))
      BY <1>2, <3>1, OptAppend
    <3>3. Firsts(s) = VecNames(gen.fields)
      BY <2>3, <3>1 DEF GenInv
    <3> QED BY <2>1, <2>2, <3>1, <3>2, <3>3
  <2>4. IsList(gen'.opt)
    BY <1>2, <2>1, ListAppend
  <2> QED BY <1>1, <1>3, <1>4, <2>3, <2>4 DEF GenInv
<1>7. CASE ~f.repeated /\ gen'.opt = gen.opt
  <2>1. VecNames(gen'.fields) = VecNames(gen.fields)
    <3>1. PICK s : s = gen.fields
      OBVIOUS
    <3>2. VecNames(Append(s, e)) = VecNames(s)
      BY <1>2, <1>5, <1>7, <3>1, NamesAppend
    <3> QED BY <3>1, <3>2
  <2>2. tool = "obj" => Firsts(gen'.opt) = VecNames(gen'.fields)
    BY <1>7, <2>1 DEF GenInv
  <2> QED BY <1>1, <1>2, <1>3, <1>4, <1>7, <2>2 DEF GenInv
<1>8. CASE tool = "bin" /\ gen'.opt = gen.opt
  BY <1>1, <1>2, <1>3, <1>4, <1>8 DEF GenInv
<1> QED BY <1>6, <1>7, <1>8

\* The fields of a class, in both generators.
LEMMA GenFieldInv ==
  ASSUME GenInv, GenFieldBin \/ GenFieldObj
  PROVE  GenInv'
<1>1. tool' = tool
  BY DEF GenFieldBin, GenFieldObj
<1>2. ASSUME gen' = gen PROVE GenInv'
  BY <1>1, <1>2 DEF GenInv
<1>3. DOMAIN gen = {"m", "f", "h", "cc", "fields", "opt", "code"}
  BY DEF GenInv
<1>4. PICK w : w = WithField(gen, class_name, field)
  OBVIOUS
<1>5. PICK f, x, e :
        /\ f = field /\ x = <<f.name, Template(f)>>
        /\ e = [name |-> f.name, tmpl |-> Template(f), type |-> prototype2ctype(f),
                max |-> IF NeedsMax(f) THEN find_field_opt(class_name, f.name).max
                        ELSE "1"]
  OBVIOUS
<1>6. e.name = f.name /\ e.tmpl = Template(f)
  BY <1>5
<1>7. /\ DOMAIN w = DOMAIN gen /\ w.h = gen.h /\ w.cc = gen.cc /\ w.opt = gen.opt
      /\ w.code = Append(gen.code, x)
      /\ w.fields = Append(gen.fields, e)
  <2>1. w = [gen EXCEPT !.f = @ + 1, !.fields = Append(@, e),
                        !.code = Append(@, x)]
    BY <1>4, <1>5 DEF WithField
  <2> QED BY <1>3, <2>1
<1>8. CASE GenFieldBin /\ gen' = w
  <2>1. tool = "bin"
    BY <1>8 DEF GenFieldBin
  <2> QED BY <1>1, <1>5, <1>6, <1>7, <1>8, <2>1, FieldAdded
<1>9. ASSUME NEW o, o[1] = f.name,
             gen' = [w EXCEPT !.opt = IF ~f.repeated THEN @ ELSE Append(@, o)]
      PROVE  GenInv'
  <2>1. /\ DOMAIN gen' = DOMAIN gen /\ gen'.h = gen.h /\ gen'.cc = gen.cc
        /\ gen'.fields = w.fields /\ gen'.code = w.code
    BY <1>3, <1>7, <1>9
  <2>2. gen'.opt = IF ~f.repeated THEN gen.opt ELSE Append(gen.opt, o)
    BY <1>3, <1>7, <1>9
  <2>3. PICK g, p : g = gen.opt /\ p = gen'.opt /\ p = IF ~f.repeated THEN g ELSE Append(g, o)
    BY <2>2
  <2>4. gen'.fields = Append(gen.fields, e) /\ gen'.code = Append(gen.code, x)
    BY <1>7, <2>1
  <2>5. x = <<f.name, Template(f)>>
    BY <1>5
  <2>6. CASE f.repeated
    <3>1. p = Append(g, o)
      BY <2>3, <2>6
    <3>2. f.repeated /\ \E d : d[1] = f.name /\ gen'.opt = Append(gen.opt, d)
      BY <1>9, <2>3, <2>6, <3>1
    <3> QED BY <1>1, <1>6, <2>1, <2>4, <2>5, <3>2, FieldAdded
  <2>7. CASE ~f.repeated
    <3>1. ~f.repeated /\ gen'.opt = gen.opt
      BY <2>3, <2>7
    <3> QED BY <1>1, <1>6, <2>1, <2>4, <2>5, <3>1, FieldAdded
  <2> QED BY <2>6, <2>7
<1>10. CASE GenFieldBin
  BY <1>2, <1>4, <1>8, <1>10 DEF GenFieldBin
<1>11. CASE GenFieldObj
  <2> DEFINE keyed == field.repeated /\ find_field_opt(class_name, field.name).keyopt
             key == find_key_info(prototype2ctype(field))
  <2>1. PICK o : o = <<field.name, IF keyed THEN <<key[1].name, prototype2ctype(key[1])>>
                                   ELSE << >>>>
    OBVIOUS
  <2>2. \/ gen' = gen
        \/ gen' = [w EXCEPT !.opt = IF ~field.repeated THEN @ ELSE Append(@, o)]
    BY <1>4, <1>11, <2>1 DEF GenFieldObj
  <2>3. o[1] = f.name
    BY <1>5, <2>1
  <2> QED BY <1>2, <1>5, <1>9, <2>2, <2>3
<1> QED BY <1>10, <1>11

\* The end of a class.
LEMMA GenMessageInv ==
  ASSUME GenInv, GenMessage
  PROVE  GenInv'
<1>1. PICK x, y : /\ x = [class |-> class_name, fields |-> gen.fields]
                  /\ y = [class |-> class_name, opt |-> gen.opt, code |-> gen.code]
  OBVIOUS
<1>2. /\ tool' = tool
      /\ gen' = [GenInit EXCEPT !.m = gen.m + 1, !.h = Append(gen.h, x),
                                !.cc = Append(gen.cc, y)]
  BY <1>1 DEF GenMessage
<1>3. /\ DOMAIN gen' = {"m", "f", "h", "cc", "fields", "opt", "code"}
      /\ gen'.h = Append(gen.h, x) /\ gen'.cc = Append(gen.cc, y)
      /\ gen'.fields = << >> /\ gen'.opt = << >> /\ gen'.code = << >>
  BY <1>2 DEF GenInit
<1>4. SameClass(tool, x, y)
  BY <1>1 DEF GenInv, SameClass, Codes, Firsts
<1>5. IsList(gen.h) /\ IsList(gen.cc) /\ Len(gen.h) = Len(gen.cc)
  BY DEF GenInv
<1>6. /\ Len(gen.h) \in Nat /\ IsList(gen'.h) /\ Len(gen'.h) = Len(gen.h) + 1
      /\ \A i \in 1..Len(gen.h) : gen'.h[i] = gen.h[i]
      /\ gen'.h[Len(gen.h) + 1] = x
  BY <1>3, <1>5, ListAppend
<1>7. /\ IsList(gen'.cc) /\ Len(gen'.cc) = Len(gen.h) + 1
      /\ \A i \in 1..Len(gen.h) : gen'.cc[i] = gen.cc[i]
      /\ gen'.cc[Len(gen.h) + 1] = y
  BY <1>3, <1>5, ListAppend
<1>8. ASSUME NEW i \in 1..Len(gen'.h) PROVE SameClass(tool', gen'.h[i], gen'.cc[i])
  <2>1. CASE i = Len(gen.h) + 1
    BY <1>2, <1>4, <1>6, <1>7, <2>1
  <2>2. CASE i # Len(gen.h) + 1
    <3>1. i \in 1..Len(gen.h)
      BY <1>6, <2>2
    <3>2. SameClass(tool, gen.h[i], gen.cc[i])
      BY <3>1 DEF GenInv
    <3> QED BY <1>2, <1>6, <1>7, <3>1, <3>2
  <2> QED BY <2>1, <2>2
<1>9. Codes(<< >>) = << >>
  BY DEF Codes
<1>10. Firsts(<< >>) = << >>
  BY DEF Firsts
<1> QED BY <1>3, <1>6, <1>7, <1>8, <1>9, <1>10, NamesEmpty DEF GenInv

-----------------------------------------------------------------------------
(* The steps *)

\* The parts of TypeOK.
ControlOK ==
  /\ pc \in {"idle", "read", "protoc", "deps", "open", "opencpp", "gen", "write",
             "conf", "writeconf"}
  /\ tool \in {"", "bin", "obj", "conf"}
  /\ result \in {"", "return", "raise", "ioerror", "done"}

KindsOK ==
  \A t \in DOMAIN out : /\ out[t].h.kind \in {"absent", "empty", "part", "full"}
                        /\ out[t].cpp.kind \in {"absent", "empty", "part", "full"}

RangesOK ==
  \A m \in DOMAIN reader.dict :
    reader.dict[m] # << >> /\ reader.dict[m][1] \in 1..reader.no

DescsOK == NoDesc \in ToSet(g_all_proto) => pc = "idle"

\* They are its parts.
LEMMA TypeParts == TypeOK <=> ControlOK /\ KindsOK /\ RangesOK /\ DescsOK
BY DEF TypeOK, ControlOK, KindsOK, RangesOK, DescsOK

\* A field of a class is generated, or ends the run with one of two results.
LEMMA FieldOutcomes ==
  ASSUME NEW r, r = FieldOutcome(class_name, field)
  PROVE  r \in {"return", "raise", "ok"}
BY DEF FieldOutcome

\* Where a process goes on, and what its run ends with.
LEMMA ControlStep ==
  ASSUME ControlOK, ToolInv, [Next]_vars
  PROVE  ControlOK' /\ ((pc \in {"read", "deps", "open", "opencpp", "gen", "write"}
                           => tool \in {"bin", "obj"})
                        /\ (pc = "protoc" => tool \in {"bin", "obj", "conf"}))'
<1> USE DEF ControlOK, ToolInv
<1>1. CASE Edit
  BY <1>1 DEF Edit
<1>2. CASE HandleBin
  BY <1>2 DEF HandleBin, Begin, End
<1>3. CASE HandleObj
  BY <1>3 DEF HandleObj, Begin, End
<1>4. CASE \E r \in MsgNames : HandleConf(r)
  BY <1>4 DEF HandleConf, Begin
<1>5. CASE ReadLine
  BY <1>5 DEF ReadLine, End
<1>6. CASE ReadEnd
  BY <1>6 DEF ReadEnd, End
<1>7. CASE GetProtodesc
  BY <1>7 DEF GetProtodesc, End
<1>8. CASE GetDependency
  BY <1>8 DEF GetDependency, End
<1>9. CASE OpenHeader \/ OpenCpp
  BY <1>9 DEF OpenHeader, OpenCpp, CannotOpen, CheckInstruct, End
<1>10. CASE GenFieldBin
  <2>1. PICK r : r = FieldOutcome(class_name, field)
    OBVIOUS
  <2>2. r \in {"return", "raise", "ok"}
    BY <2>1, FieldOutcomes
  <2> QED BY <1>10, <2>1, <2>2 DEF GenFieldBin, AtField, End
<1>11. CASE GenFieldObj
  <2>1. PICK r : r = FieldOutcome(class_name, field)
    OBVIOUS
  <2>2. r \in {"return", "raise", "ok"}
    BY <2>1, FieldOutcomes
  <2>3. /\ pc = "gen" /\ tool = "obj" /\ tool' = tool
        /\ \/ pc' = "idle" /\ result' = r /\ r # "ok"
           \/ pc' = "idle" /\ result' = "raise"
           \/ pc' = pc /\ result' = result
    BY <1>11, <2>1 DEF GenFieldObj, AtField, End
  <2> QED BY <2>2, <2>3
<1>12. CASE GenMessage
  BY <1>12 DEF GenMessage
<1>13. CASE WriteHeader \/ WriteCpp
  BY <1>13 DEF WriteHeader, WriteCpp, End
<1>14. CASE OpenConf \/ WriteConf
  BY <1>14 DEF OpenConf, WriteConf, End
<1>15. CASE UNCHANGED vars
  BY <1>15 DEF vars, files
<1> QED BY <1>1, <1>2, <1>3, <1>4, <1>5, <1>6, <1>7, <1>8, <1>9, <1>10, <1>11,
           <1>12, <1>13, <1>14, <1>15 DEF Next

\* The classes that are being generated.
LEMMA GenStep ==
  ASSUME GenInv, [Next]_vars
  PROVE  GenInv'
<1>1. CASE HandleBin \/ HandleObj \/ \E r \in MsgNames : HandleConf(r)
  BY <1>1, GenStart DEF HandleBin, HandleObj, HandleConf, Begin
<1>2. CASE GenFieldBin \/ GenFieldObj
  BY <1>2, GenFieldInv
<1>3. CASE GenMessage
  BY <1>3, GenMessageInv
<1>4. ASSUME gen' = gen, tool' = tool PROVE GenInv'
  BY <1>4 DEF GenInv
<1>5. CASE Edit \/ ReadLine \/ ReadEnd \/ GetProtodesc \/ GetDependency
  BY <1>4, <1>5 DEF Edit, ReadLine, ReadEnd, GetProtodesc, GetDependency
<1>6. CASE OpenHeader \/ OpenCpp \/ WriteHeader \/ WriteCpp \/ OpenConf \/ WriteConf \/ UNCHANGED vars
  BY <1>4, <1>6 DEF OpenHeader, OpenCpp, WriteHeader, WriteCpp, OpenConf, WriteConf, vars
<1> QED BY <1>1, <1>2, <1>3, <1>5, <1>6 DEF Next

\* What a pair of output files must satisfy.
Together(t, o) ==
  /\ o.h.kind \in {"absent", "empty", "part", "full"}
  /\ o.cpp.kind \in {"absent", "empty", "part", "full"}
  /\ o.h.kind = "full" /\ o.cpp.kind = "full" =>
       /\ DOMAIN o.h.classes = DOMAIN o.cpp.classes
       /\ \A i \in DOMAIN o.h.classes : SameClass(t, o.h.classes[i], o.cpp.classes[i])

\* The pairs on the disk satisfy it.
LEMMA TogetherParts ==
  OutputsTogether /\ KindsOK <=> \A t \in DOMAIN out : Together(t, out[t])
BY DEF OutputsTogether, KindsOK, Together

\* A step that changes the pair that is being generated.
LEMMA OnePair ==
  ASSUME OutputsTogether, KindsOK, OutShape, tool \in {"bin", "obj"},
         NEW o, Together(tool, o), DOMAIN o = {"h", "cpp"}, out' = [out EXCEPT ![tool] = o]
  PROVE  (OutputsTogether /\ KindsOK /\ OutShape)' /\ out'[tool] = o
<1>0. DOMAIN out = {"bin", "obj"} /\ \A t \in {"bin", "obj"} : DOMAIN out[t] = {"h", "cpp"}
  BY DEF OutShape
<1>1. DOMAIN out' = {"bin", "obj"} /\ out'[tool] = o
  BY <1>0
<1>2. ASSUME NEW t \in {"bin", "obj"} PROVE Together(t, out'[t]) /\ DOMAIN out'[t] = {"h", "cpp"}
  <2>1. CASE t = tool
    BY <1>1, <2>1
  <2>2. CASE t # tool
    <3>1. out'[t] = out[t] /\ t \in DOMAIN out
      BY <1>0, <2>2
    <3>2. Together(t, out[t])
      BY <3>1, TogetherParts
    <3> QED BY <1>0, <3>1, <3>2
  <2> QED BY <2>1, <2>2
<1> QED BY <1>1, <1>2 DEF Together, OutputsTogether, KindsOK, OutShape

\* One of the two files of the pair is emptied or cut off.
LEMMA OneFile ==
  ASSUME OutputsTogether, KindsOK, OutShape, tool \in {"bin", "obj"},
         NEW x, x \in {Empty, Part}
  PROVE  /\ out' = [out EXCEPT ![tool].h = x] =>
              /\ (OutputsTogether /\ KindsOK /\ OutShape)'
              /\ out'[tool].h = x /\ out'[tool].cpp = out[tool].cpp
         /\ out' = [out EXCEPT ![tool].cpp = x] =>
              /\ (OutputsTogether /\ KindsOK /\ OutShape)'
              /\ out'[tool].cpp = x /\ out'[tool].h = out[tool].h
<1>1. x.kind \in {"empty", "part"}
  BY DEF Empty, Part
<1>2. PICK p : p = out[tool]
  OBVIOUS
<1>3. DOMAIN p = {"h", "cpp"} /\ Together(tool, p)
  BY <1>2, TogetherParts DEF OutShape
<1>4. ASSUME out' = [out EXCEPT ![tool].h = x]
      PROVE  /\ (OutputsTogether /\ KindsOK /\ OutShape)'
             /\ out'[tool].h = x /\ out'[tool].cpp = p.cpp
  <2>1. PICK o : o = [p EXCEPT !.h = x]
    OBVIOUS
  <2>2. o.h = x /\ o.cpp = p.cpp /\ DOMAIN o = {"h", "cpp"}
    BY <1>3, <2>1
  <2>3. Together(tool, o)
    BY <1>1, <1>3, <2>2 DEF Together
  <2>4. out' = [out EXCEPT ![tool] = o]
    BY <1>2, <1>4, <2>1
  <2> QED BY <2>2, <2>3, <2>4, OnePair
<1>5. ASSUME out' = [out EXCEPT ![tool].cpp = x]
      PROVE  /\ (OutputsTogether /\ KindsOK /\ OutShape)'
             /\ out'[tool].cpp = x /\ out'[tool].h = p.h
  <2>1. PICK o : o = [p EXCEPT !.cpp = x]
    OBVIOUS
  <2>2. o.cpp = x /\ o.h = p.h /\ DOMAIN o = {"h", "cpp"}
    BY <1>3, <2>1
  <2>3. Together(tool, o)
    BY <1>1, <1>3, <2>2 DEF Together
  <2>4. out' = [out EXCEPT ![tool] = o]
    BY <1>2, <1>5, <2>1
  <2> QED BY <2>2, <2>3, <2>4, OnePair
<1> QED BY <1>2, <1>4, <1>5

\* A file of the pair is written to its end, when the other one is not whole
\* or is the matching one.
LEMMA WholeFile ==
  ASSUME OutputsTogether, KindsOK, OutShape, tool \in {"bin", "obj"}, GenInv
  PROVE  /\ out' = [out EXCEPT ![tool].h = Full(gen.h)] /\ out[tool].cpp = Empty =>
              /\ (OutputsTogether /\ KindsOK /\ OutShape)'
              /\ out'[tool].h = Full(gen.h) /\ out'[tool].cpp = Empty
         /\ /\ out' = [out EXCEPT ![tool].cpp = Full(gen.cc)]
            /\ out[tool].h \in {Full(gen.h), Part}
            => (OutputsTogether /\ KindsOK /\ OutShape)'
<1>1. PICK p, h, c : p = out[tool] /\ h = Full(gen.h) /\ c = Full(gen.cc)
  OBVIOUS
<1>2. DOMAIN p = {"h", "cpp"} /\ Together(tool, p)
  BY <1>1, TogetherParts DEF OutShape
<1>3. h.kind = "full" /\ c.kind = "full" /\ h.classes = gen.h /\ c.classes = gen.cc
  BY <1>1 DEF Full
<1>4. Empty.kind = "empty" /\ Part.kind = "part"
  BY DEF Empty, Part
<1>5. DOMAIN gen.h = 1..Len(gen.h) /\ DOMAIN gen.cc = 1..Len(gen.h)
  BY LenProperties DEF GenInv, IsList
<1>6. ASSUME out' = [out EXCEPT ![tool].h = h], p.cpp = Empty
      PROVE  /\ (OutputsTogether /\ KindsOK /\ OutShape)'
             /\ out'[tool].h = h /\ out'[tool].cpp = Empty
  <2>1. PICK o : o = [p EXCEPT !.h = h]
    OBVIOUS
  <2>2. o.h = h /\ o.cpp = Empty /\ DOMAIN o = {"h", "cpp"}
    BY <1>2, <1>6, <2>1
  <2>3. Together(tool, o)
    BY <1>3, <1>4, <2>2 DEF Together
  <2>4. out' = [out EXCEPT ![tool] = o]
    BY <1>1, <1>6, <2>1
  <2> QED BY <2>2, <2>3, <2>4, OnePair
<1>7. ASSUME out' = [out EXCEPT ![tool].cpp = c], p.h \in {h, Part}
      PROVE  (OutputsTogether /\ KindsOK /\ OutShape)'
  <2>1. PICK o : o = [p EXCEPT !.cpp = c]
    OBVIOUS
  <2>2. o.cpp = c /\ o.h = p.h /\ DOMAIN o = {"h", "cpp"}
    BY <1>2, <2>1
  <2>3. CASE p.h = h
    <3>1. /\ o.h.kind = "full" /\ o.cpp.kind = "full"
          /\ o.h.classes = gen.h /\ o.cpp.classes = gen.cc
      BY <1>3, <2>2, <2>3
    <3>2. Together(tool, o)
      BY <1>5, <3>1 DEF Together, GenInv
    <3>3. out' = [out EXCEPT ![tool] = o]
      BY <1>1, <1>7, <2>1
    <3> QED BY <2>2, <3>2, <3>3, OnePair
  <2>4. CASE p.h = Part
    <3>1. o.h.kind = "part" /\ o.cpp.kind = "full"
      BY <1>3, <1>4, <2>2, <2>4
    <3>2. Together(tool, o)
      BY <3>1 DEF Together
    <3>3. out' = [out EXCEPT ![tool] = o]
      BY <1>1, <1>7, <2>1
    <3> QED BY <2>2, <3>2, <3>3, OnePair
  <2> QED BY <1>7, <2>3, <2>4
<1> QED BY <1>1, <1>6, <1>7

\* The output files are opened and written one after the other, and the run
\* may end at each of these steps.
LEMMA OutStep ==
  ASSUME OutputsTogether, KindsOK, ToolInv, GenInv, FilesInv, [Next]_vars
  PROVE  (OutputsTogether /\ KindsOK /\ OutShape /\ FilesInv)'
<1> DEFINE Goal == (OutputsTogether /\ KindsOK /\ OutShape)'
<1>0. OutShape
  BY DEF ToolInv
<1>1. ASSUME out' = out PROVE Goal
  BY <1>0, <1>1 DEF OutputsTogether, KindsOK, OutShape
<1>2. ASSUME pc' \notin {"opencpp", "gen", "write"} PROVE FilesInv'
  BY <1>2 DEF FilesInv
<1>3. CASE OpenHeader
  <2>1. tool \in {"bin", "obj"} /\ tool' = tool
    BY <1>3 DEF OpenHeader, ToolInv
  <2>2. CASE CannotOpen
    <3>1. Goal /\ pc' = "idle"
      BY <1>1, <2>2 DEF CannotOpen, End
    <3> QED BY <1>2, <3>1
  <2>3. CASE out' = [out EXCEPT ![tool].h = Empty] /\ pc' = "opencpp"
    <3>1. Goal /\ out'[tool].h = Empty
      BY <1>0, <2>1, <2>3, OneFile
    <3>2. FilesInv'
      BY <2>1, <2>3, <3>1 DEF FilesInv
    <3> QED BY <3>1, <3>2
  <2> QED BY <1>3, <2>2, <2>3 DEF OpenHeader
<1>4. CASE OpenCpp
  <2>1. /\ tool \in {"bin", "obj"} /\ tool' = tool /\ out[tool].h = Empty
    BY <1>4 DEF OpenCpp, ToolInv, FilesInv
  <2>2. CASE CannotOpen
    <3>1. Goal /\ pc' = "idle"
      BY <1>1, <2>2 DEF CannotOpen, End
    <3> QED BY <1>2, <3>1
  <2>3. CASE out' = [out EXCEPT ![tool].cpp = Empty] /\ CheckInstruct
    <3>1. Goal /\ out'[tool].cpp = Empty /\ out'[tool].h = Empty
      BY <1>0, <2>1, <2>3, OneFile
    <3>2. pc' \in {"idle", "gen"}
      BY <2>3 DEF CheckInstruct, End
    <3>3. FilesInv'
      BY <2>1, <3>1, <3>2 DEF FilesInv
    <3> QED BY <3>1, <3>3
  <2> QED BY <1>4, <2>2, <2>3 DEF OpenCpp
<1>5. CASE WriteHeader
  <2>1. /\ tool \in {"bin", "obj"} /\ tool' = tool /\ gen' = gen
        /\ out[tool].cpp = Empty /\ pc' \in {"write", "idle"}
    BY <1>5 DEF WriteHeader, ToolInv, FilesInv, End
  <2>2. CASE out' = [out EXCEPT ![tool].h = Full(gen.h)]
    <3>1. Goal /\ out'[tool].h = Full(gen.h) /\ out'[tool].cpp = Empty
      BY <1>0, <2>1, <2>2, WholeFile
    <3>2. FilesInv'
      BY <2>1, <3>1 DEF FilesInv
    <3> QED BY <3>1, <3>2
  <2>3. CASE out' = [out EXCEPT ![tool].h = Part]
    <3>1. Goal /\ out'[tool].h = Part /\ out'[tool].cpp = Empty
      BY <1>0, <2>1, <2>3, OneFile
    <3>2. FilesInv'
      BY <2>1, <3>1 DEF FilesInv
    <3> QED BY <3>1, <3>2
  <2> QED BY <1>5, <2>2, <2>3 DEF WriteHeader
<1>6. CASE WriteCpp
  <2>1. /\ tool \in {"bin", "obj"} /\ pc' = "idle"
        /\ out[tool].h \in {Full(gen.h), Part}
    BY <1>6 DEF WriteCpp, ToolInv, FilesInv, End
  <2>2. CASE out' = [out EXCEPT ![tool].cpp = Full(gen.cc)]
    <3>1. Goal
      BY <1>0, <2>1, <2>2, WholeFile
    <3> QED BY <1>2, <2>1, <3>1
  <2>3. CASE out' = [out EXCEPT ![tool].cpp = Part]
    <3>1. Goal
      BY <1>0, <2>1, <2>3, OneFile
    <3> QED BY <1>2, <2>1, <3>1
  <2> QED BY <1>6, <2>2, <2>3 DEF WriteCpp
<1>7. CASE Edit \/ HandleBin \/ HandleObj \/ \E r \in MsgNames : HandleConf(r)
  <2>1. out' = out /\ pc' \in {"idle", "read", "protoc"}
    BY <1>7 DEF Edit, HandleBin, HandleObj, HandleConf, files, End
  <2> QED BY <1>1, <1>2, <2>1
<1>8. CASE ReadLine \/ ReadEnd \/ GetProtodesc \/ GetDependency
  <2>1. out' = out /\ pc' \in {"idle", "read", "protoc", "conf", "open", "deps"}
    BY <1>8 DEF ReadLine, ReadEnd, GetProtodesc, GetDependency, files, End
  <2> QED BY <1>1, <1>2, <2>1
<1>9. CASE GenFieldBin \/ GenFieldObj \/ GenMessage
  <2>1. out' = out /\ tool' = tool /\ pc = "gen" /\ pc' \in {"idle", "gen"}
    <3>1. PICK r : r = FieldOutcome(class_name, field)
      OBVIOUS
    <3> QED BY <1>9, <3>1
            DEF GenFieldBin, GenFieldObj, GenMessage, AtField, files, End
  <2>2. FilesInv'
    BY <2>1 DEF FilesInv
  <2> QED BY <1>1, <2>1, <2>2
<1>10. CASE OpenConf \/ WriteConf
  <2>1. out' = out /\ pc' \in {"idle", "writeconf"}
    BY <1>10 DEF OpenConf, WriteConf, End
  <2> QED BY <1>1, <1>2, <2>1
<1>11. CASE UNCHANGED vars
  <2>1. out' = out /\ tool' = tool /\ pc' = pc /\ gen' = gen
    BY <1>11 DEF vars, files
  <2>2. FilesInv'
    BY <2>1 DEF FilesInv
  <2> QED BY <1>1, <2>1, <2>2
<1> QED BY <1>3, <1>4, <1>5, <1>6, <1>7, <1>8, <1>9, <1>10, <1>11 DEF Next

-----------------------------------------------------------------------------
(* What is read of the file *)

\* Every message read so far has a range that begins at a line up to line no.
DictOK(dict, no) ==
  \A m \in DOMAIN dict : /\ dict[m] \in Seq(Nat) /\ dict[m] # << >>
                         /\ dict[m][1] \in 1..no

\* A range that is ended begins where it began.
LEMMA RangeEnd ==
  ASSUME NEW no \in Nat, NEW k \in Nat, NEW s \in Seq(Nat), s # << >>, s[1] \in 1..no
  PROVE  /\ Append(s, k) \in Seq(Nat) /\ Append(s, k) # << >>
         /\ Append(s, k)[1] \in 1..no
<1>1. Len(s) \in Nat /\ Len(s) # 0
  BY EmptySeq, LenProperties
<1>2. 1 \in 1..Len(s)
  BY <1>1
<1>3. /\ Append(s, k) \in Seq(Nat) /\ Len(Append(s, k)) = Len(s) + 1
      /\ Append(s, k)[1] = s[1]
  BY <1>2, AppendProperties
<1>4. Append(s, k) # << >>
  BY <1>1, <1>3, EmptySeq
<1> QED BY <1>3, <1>4

\* The same for the ranges of a file, one of which is ended.
LEMMA DictEnd ==
  ASSUME NEW no \in Nat, NEW k \in Nat, NEW d, DictOK(d, no), NEW m \in DOMAIN d,
         NEW e, e = [d EXCEPT ![m] = Append(@, k)]
  PROVE  DictOK(e, no) /\ DOMAIN e = DOMAIN d
<1>1. DOMAIN e = DOMAIN d
  OBVIOUS
<1>2. ASSUME NEW x \in DOMAIN e
      PROVE  e[x] \in Seq(Nat) /\ e[x] # << >> /\ e[x][1] \in 1..no
  <2>1. d[x] \in Seq(Nat) /\ d[x] # << >> /\ d[x][1] \in 1..no
    BY <1>1 DEF DictOK
  <2>2. CASE x = m
    <3>1. PICK s : s = d[m]
      OBVIOUS
    <3>2. e[x] = Append(s, k)
      BY <2>2, <3>1
    <3>3. s \in Seq(Nat) /\ s # << >> /\ s[1] \in 1..no
      BY <2>1, <2>2, <3>1
    <3> QED BY <3>2, <3>3, RangeEnd
  <2>3. CASE x # m
    BY <1>1, <2>1, <2>3
  <2> QED BY <2>2, <2>3
<1> QED BY <1>1, <1>2 DEF DictOK

\* A line of the file.
LEMMA ReadLineInv ==
  ASSUME ReaderInv, RangesOK, ReadLine
  PROVE  /\ DOMAIN reader' = {"no", "begin", "end", "instructs", "dict", "last"}
         /\ reader'.no \in Nat /\ DictOK(reader'.dict, reader'.no)
         /\ reader'.last = "" \/ reader'.last \in DOMAIN reader'.dict
<1> DEFINE F == {"no", "begin", "end", "instructs", "dict", "last"}
<1>1. /\ DOMAIN reader = F /\ reader.no \in Nat /\ DictOK(reader.dict, reader.no)
      /\ reader.last = "" \/ reader.last \in DOMAIN reader.dict
  BY DEF ReaderInv, RangesOK, DictOK
<1>2. PICK n : n = reader.no + 1
  OBVIOUS
<1>3. n \in Nat /\ n >= 1 /\ n - 1 \in Nat /\ n \in 1..n /\ 1..reader.no \subseteq 1..n
  <2>1. PICK a \in Nat : a = reader.no
    BY <1>1
  <2>2. n = a + 1
    BY <1>2, <2>1
  <2>3. n \in Nat /\ n >= 1 /\ n - 1 \in Nat /\ n \in 1..n /\ 1..a \subseteq 1..n
    BY <2>2
  <2> QED BY <2>1, <2>3
<1>4. PICK l : l = proto.lines[n]
  OBVIOUS
<1>5. PICK q : q = GenInstruct(reader, l)
  OBVIOUS
<1>6. DOMAIN q = F /\ q.dict = reader.dict /\ q.last = reader.last
  BY <1>1, <1>5 DEF GenInstruct
<1>7. PICK r : r = [q EXCEPT !.no = n]
  OBVIOUS
<1>8. /\ DOMAIN r = F /\ r.no = n /\ r.dict = reader.dict /\ r.last = reader.last
  BY <1>6, <1>7
<1>9. DictOK(r.dict, n)
  <2>1. DictOK(r.dict, reader.no)
    BY <1>1, <1>8
  <2> QED BY <1>3, <2>1 DEF DictOK
<1>10. PICK d : d = [m \in DOMAIN r.dict \cup {l.name} |->
                       IF m = l.name THEN <<n>> ELSE r.dict[m]]
  OBVIOUS
<1>11. DictOK(d, n)
  <2>1. DOMAIN d = DOMAIN r.dict \cup {l.name}
    BY <1>10
  <2>2. ASSUME NEW m \in DOMAIN d
        PROVE  d[m] \in Seq(Nat) /\ d[m] # << >> /\ d[m][1] \in 1..n
    <3>1. CASE m = l.name
      <4>1. d[m] = <<n>>
        BY <1>10, <3>1
      <4> QED BY <1>3, <4>1
    <3>2. CASE m # l.name
      <4>1. m \in DOMAIN r.dict /\ d[m] = r.dict[m]
        BY <1>10, <3>2
      <4> QED BY <1>9, <4>1 DEF DictOK
    <3> QED BY <3>1, <3>2
  <2> QED BY <2>2 DEF DictOK
<1>12. PICK e : e = IF r.last = "" THEN d ELSE [d EXCEPT ![r.last] = Append(@, n - 1)]
  OBVIOUS
<1>13. DictOK(e, n) /\ DOMAIN e = DOMAIN d
  <2>1. CASE r.last = ""
    BY <1>11, <1>12, <2>1
  <2>2. CASE r.last # ""
    <3>1. PICK m, k : m = r.last /\ k = n - 1
      OBVIOUS
    <3>2. m \in DOMAIN d /\ k \in Nat
      BY <1>1, <1>3, <1>8, <1>10, <2>2, <3>1
    <3>3. e = [d EXCEPT ![m] = Append(@, k)]
      BY <1>12, <2>2, <3>1
    <3> QED BY <1>3, <1>11, <3>2, <3>3, DictEnd
  <2> QED BY <2>1, <2>2
<1>14. \/ reader' = reader
       \/ reader' = r
       \/ reader' = [r EXCEPT !.last = l.name, !.dict = e]
  <2>1. reader' = reader \/ reader' = StructDict(r, l, n)
    BY <1>2, <1>4, <1>5, <1>7 DEF ReadLine
  <2>2. StructDict(r, l, n) = IF l.messages = 0 THEN r
                              ELSE [r EXCEPT !.last = l.name, !.dict = e]
    BY <1>10, <1>12 DEF StructDict
  <2> QED BY <2>1, <2>2
<1>15. CASE reader' = reader
  BY <1>1, <1>15
<1>16. CASE reader' = r
  BY <1>1, <1>3, <1>8, <1>9, <1>16
<1>17. CASE reader' = [r EXCEPT !.last = l.name, !.dict = e]
  <2>1. /\ DOMAIN reader' = F /\ reader'.no = n /\ reader'.last = l.name
        /\ reader'.dict = e
    BY <1>8, <1>17
  <2>2. l.name \in DOMAIN e
    BY <1>10, <1>13
  <2> QED BY <1>3, <1>13, <2>1, <2>2
<1> QED BY <1>14, <1>15, <1>16, <1>17

\* The end of the file.
LEMMA ReadEndInv ==
  ASSUME ReaderInv, RangesOK, ReadEnd
  PROVE  /\ DOMAIN reader' = {"no", "begin", "end", "instructs", "dict", "last"}
         /\ reader'.no \in Nat /\ DictOK(reader'.dict, reader'.no)
         /\ reader'.last = "" \/ reader'.last \in DOMAIN reader'.dict
<1> DEFINE F == {"no", "begin", "end", "instructs", "dict", "last"}
<1>1. /\ DOMAIN reader = F /\ reader.no \in Nat /\ DictOK(reader.dict, reader.no)
      /\ reader.last = "" \/ reader.last \in DOMAIN reader.dict
  BY DEF ReaderInv, RangesOK, DictOK
<1>2. CASE reader' = reader
  BY <1>1, <1>2
<1>3. CASE reader.last # "" /\ reader' = [reader EXCEPT !.dict[reader.last] = Append(@, reader.no)]
  <2>1. PICK d, m, k, e : /\ d = reader.dict /\ m = reader.last /\ k = reader.no
                          /\ e = [d EXCEPT ![m] = Append(@, k)]
    OBVIOUS
  <2>2. /\ DOMAIN reader' = F /\ reader'.no = k /\ reader'.last = m
        /\ reader'.dict = e
    BY <1>1, <1>3, <2>1
  <2>3. k \in Nat /\ DictOK(d, k) /\ m \in DOMAIN d
    BY <1>1, <1>3, <2>1
  <2>4. DictOK(e, k) /\ DOMAIN e = DOMAIN d
    <3>1. PICK j : j = k
      OBVIOUS
    <3>2. j \in Nat /\ e = [d EXCEPT ![m] = Append(@, j)]
      BY <2>1, <2>3, <3>1
    <3> QED BY <2>3, <3>2, DictEnd
  <2> QED BY <2>2, <2>3, <2>4
<1> QED BY <1>2, <1>3 DEF ReadEnd

\* The descriptors: a run goes on only with those that could be read.
LEMMA DescAppend ==
  ASSUME IsList(g_all_proto), DescsOK, pc # "idle", NEW x,
         g_all_proto' = Append(g_all_proto, x), x = NoDesc => pc' = "idle"
  PROVE  IsList(g_all_proto') /\ DescsOK'
<1>1. PICK s, t : s = g_all_proto /\ t = g_all_proto'
  OBVIOUS
<1>2. /\ Len(s) \in Nat /\ DOMAIN s = 1..Len(s) /\ IsList(t)
      /\ DOMAIN t = 1..(Len(s) + 1)
      /\ \A i \in 1..Len(s) : t[i] = s[i]
      /\ t[Len(s) + 1] = x
  BY <1>1, ListAppend
<1>3. ASSUME NEW i \in DOMAIN t, t[i] = NoDesc PROVE pc' = "idle"
  <2>1. CASE i = Len(s) + 1
    BY <1>2, <1>3, <2>1
  <2>2. CASE i # Len(s) + 1
    <3>1. i \in 1..Len(s)
      BY <1>2, <2>2
    <3>2. s[i] = NoDesc /\ i \in DOMAIN s
      BY <1>2, <1>3, <3>1
    <3> QED BY <1>1, <3>2 DEF DescsOK, ToSet
  <2> QED BY <2>1, <2>2
<1> QED BY <1>1, <1>2, <1>3 DEF DescsOK, ToSet

\* The reader and the descriptors, in every step.
LEMMA ReaderStep ==
  ASSUME ReaderInv, RangesOK, DescsOK, [Next]_vars
  PROVE  (ReaderInv /\ RangesOK /\ DescsOK)'
<1>1. IsList(g_all_proto)
  BY DEF ReaderInv
<1>2. ASSUME DOMAIN reader' = {"no", "begin", "end", "instructs", "dict", "last"},
             reader'.no \in Nat, DictOK(reader'.dict, reader'.no),
             reader'.last = "" \/ reader'.last \in DOMAIN reader'.dict,
             IsList(g_all_proto'), DescsOK'
      PROVE  (ReaderInv /\ RangesOK /\ DescsOK)'
  BY <1>2 DEF ReaderInv, RangesOK, DictOK
<1>3. ASSUME g_all_proto' = g_all_proto, pc' = "idle" \/ pc # "idle" \/ pc' = pc
      PROVE  IsList(g_all_proto') /\ DescsOK'
  BY <1>1, <1>3 DEF DescsOK
<1>4. ASSUME reader' = reader, IsList(g_all_proto'), DescsOK'
      PROVE  (ReaderInv /\ RangesOK /\ DescsOK)'
  BY <1>4 DEF ReaderInv, RangesOK
<1>5. CASE HandleBin \/ HandleObj \/ \E r \in MsgNames : HandleConf(r)
  <2>1. reader' = ReaderInit /\ g_all_proto' = << >>
    BY <1>5 DEF HandleBin, HandleObj, HandleConf, Begin
  <2>2. /\ DOMAIN reader' = {"no", "begin", "end", "instructs", "dict", "last"}
        /\ reader'.no = 0 /\ reader'.dict = << >> /\ reader'.last = ""
    BY <2>1 DEF ReaderInit
  <2>3. DictOK(reader'.dict, reader'.no)
    BY <2>2, ListEmpty DEF DictOK
  <2>4. IsList(g_all_proto') /\ DescsOK'
    BY <2>1, ListEmpty DEF DescsOK, ToSet
  <2>5. reader'.no \in Nat
    BY <2>1 DEF ReaderInit
  <2>6. DOMAIN reader' = {"no", "begin", "end", "instructs", "dict", "last"}
    BY <2>2
  <2>7. reader'.last = ""
    BY <2>2
  <2> QED BY <1>2, <2>3, <2>4, <2>5, <2>6, <2>7
<1>6. CASE ReadLine
  <2>1. g_all_proto' = g_all_proto /\ pc = "read"
    BY <1>6 DEF ReadLine
  <2> QED BY <1>2, <1>3, <1>6, <2>1, ReadLineInv
<1>7. CASE ReadEnd
  <2>1. g_all_proto' = g_all_proto /\ pc = "read"
    BY <1>7 DEF ReadEnd
  <2> QED BY <1>2, <1>3, <1>7, <2>1, ReadEndInv
<1>8. CASE GetProtodesc
  <2>1. PICK x : x = pb2'[Own]
    OBVIOUS
  <2>2. /\ pc # "idle" /\ reader' = reader /\ g_all_proto' = Append(g_all_proto, x)
        /\ x = NoDesc => pc' = "idle"
    BY <1>8, <2>1 DEF GetProtodesc, Protoc, End
  <2> QED BY <1>1, <1>4, <2>2, DescAppend
<1>9. CASE GetDependency
  <2>1. PICK x : x = pb2'[g_all_proto[1].deps[Len(g_all_proto)]]
    OBVIOUS
  <2>2. /\ pc # "idle" /\ reader' = reader /\ g_all_proto' = Append(g_all_proto, x)
        /\ x = NoDesc => pc' = "idle"
    BY <1>9, <2>1 DEF GetDependency, Protoc, End
  <2> QED BY <1>1, <1>4, <2>2, DescAppend
<1>10. CASE Edit \/ OpenHeader \/ OpenCpp \/ UNCHANGED vars
  <2>1. /\ reader' = reader /\ g_all_proto' = g_all_proto
        /\ pc' = "idle" \/ pc # "idle" \/ pc' = pc
    BY <1>10 DEF Edit, OpenHeader, OpenCpp, vars
  <2> QED BY <1>3, <1>4, <2>1
<1>11. CASE GenFieldBin \/ GenFieldObj \/ GenMessage \/ WriteHeader \/ WriteCpp
            \/ OpenConf \/ WriteConf
  <2>1. reader' = reader /\ g_all_proto' = g_all_proto /\ pc # "idle"
    BY <1>11 DEF GenFieldBin, GenFieldObj, AtField, GenMessage, WriteHeader, WriteCpp,
                 OpenConf, WriteConf
  <2> QED BY <1>3, <1>4, <2>1
<1> QED BY <1>5, <1>6, <1>7, <1>8, <1>9, <1>10, <1>11 DEF Next

-----------------------------------------------------------------------------
(* The theorems *)

\* The invariant holds at the beginning.
LEMMA ProtoInit == Init => ProtoInv
<1> SUFFICES ASSUME Init PROVE ProtoInv
  OBVIOUS
<1>1. ControlOK /\ ToolInv /\ KindsOK /\ FilesInv
  BY DEF Init, ControlOK, ToolInv, OutShape, KindsOK, FilesInv, Absent
<1>2. OutputsTogether
  <2>1. PICK a : a = Absent
    OBVIOUS
  <2>2. a.kind = "absent"
    BY <2>1 DEF Absent
  <2>3. out = [t \in {"bin", "obj"} |-> [h |-> a, cpp |-> a]]
    BY <2>1 DEF Init
  <2> QED BY <2>2, <2>3 DEF OutputsTogether
<1>3. /\ DOMAIN reader = {"no", "begin", "end", "instructs", "dict", "last"}
      /\ reader.no = 0 /\ reader.dict = << >> /\ reader.last = ""
  BY DEF Init, ReaderInit
<1>4. ReaderInv /\ RangesOK /\ DescsOK
  <2>1. g_all_proto = << >>
    BY DEF Init
  <2>2. DOMAIN reader.dict = {} /\ DOMAIN g_all_proto = {}
    BY <1>3, <2>1, ListEmpty
  <2>3. IsList(g_all_proto)
    BY <2>1, ListEmpty
  <2>4. RangesOK /\ DescsOK
    BY <2>2 DEF RangesOK, DescsOK, ToSet
  <2>5. /\ DOMAIN reader = {"no", "begin", "end", "instructs", "dict", "last"}
        /\ reader.last = ""
    BY <1>3
  <2>6. reader.no \in Nat
    BY DEF Init, ReaderInit
  <2>7. ReaderInv
    BY <2>2, <2>3, <2>5, <2>6 DEF ReaderInv
  <2> QED BY <2>4, <2>7
<1>5. /\ DOMAIN gen = {"m", "f", "h", "cc", "fields", "opt", "code"}
      /\ gen.h = << >> /\ gen.cc = << >> /\ gen.fields = << >>
      /\ gen.opt = << >> /\ gen.code = << >>
  BY DEF Init, GenInit
<1>6. Codes(<< >>) = << >> /\ Firsts(<< >>) = << >>
  BY DEF Codes, Firsts
<1>7. GenInv
  BY <1>5, <1>6, NamesEmpty DEF GenInv
<1> QED BY <1>1, <1>2, <1>4, <1>7, TypeParts DEF ProtoInv

\* The generators keep the invariant, whatever the file holds and whichever
\* runs of them and of protoc fail.
THEOREM ProtoInvariant == Spec => []ProtoInv
<1>1. ASSUME ProtoInv, [Next]_vars PROVE ProtoInv'
  <2>1. /\ ControlOK /\ KindsOK /\ RangesOK /\ DescsOK /\ OutputsTogether
        /\ ToolInv /\ ReaderInv /\ GenInv /\ FilesInv
    BY <1>1, TypeParts DEF ProtoInv
  <2>2. (OutputsTogether /\ KindsOK /\ OutShape /\ FilesInv)'
    BY <1>1, <2>1, OutStep
  <2>3. ControlOK' /\ ToolInv'
    BY <1>1, <2>1, <2>2, ControlStep DEF ToolInv
  <2>4. GenInv'
    BY <1>1, <2>1, GenStep
  <2>5. (ReaderInv /\ RangesOK /\ DescsOK)'
    BY <1>1, <2>1, ReaderStep
  <2>6. TypeOK'
    BY <2>2, <2>3, <2>5 DEF TypeOK, ControlOK, KindsOK, RangesOK, DescsOK
  <2> QED BY <2>2, <2>3, <2>4, <2>5, <2>6 DEF ProtoInv
<1> QED BY <1>1, ProtoInit, PTL DEF Spec

\* The variables of the generators have their types; every range read_proto
\* keeps begins at a line it has read, and a process never goes on with a
\* descriptor that get_protodesc could not read.
THEOREM ProtoTypeCorrect == Spec => []TypeOK
<1>1. ProtoInv => TypeOK
  BY DEF ProtoInv
<1> QED BY <1>1, ProtoInvariant, PTL

\* A whole header and a whole cpp file are of one run, for every proto file,
\* every history of edits and every step at which a run may fail: the order
\* in which gen_code empties both and then writes them rules out that one is
\* of an older version than the other.
THEOREM OutputsAgree == Spec => []OutputsTogether
<1>1. ProtoInv => OutputsTogether
  BY DEF ProtoInv
<1> QED BY <1>1, ProtoInvariant, PTL
=============================================================================
