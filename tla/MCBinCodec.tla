----------------------------- MODULE MCBinCodec -----------------------------
(***************************************************************************)
(* A type with a field of every kind and two types nested in it.           *)
(***************************************************************************)
EXTENDS BinCodec

CONSTANT MaxElems  \* elements of the vector of messages

MCFields ==
  [leaf  |-> <<[kind |-> "simple", width |-> 1]>>,
   inner |-> <<[kind |-> "string", max |-> 1],
               [kind |-> "struct", sub |-> "leaf"],
               [kind |-> "simple", width |-> 2]>>,
   outer |-> <<[kind |-> "simple_vec", width |-> 1, max |-> 1],
               [kind |-> "struct", sub |-> "inner"],
               [kind |-> "struct_vec", sub |-> "inner", max |-> 2],
               [kind |-> "simple", width |-> 4]>>]

Upto(n, S) == UNION {[1..k -> S] : k \in 0..n}

Leaf == {<<5>>}

Inner ==
  {<<s, l, v>> : s \in Upto(1, {3}), l \in Leaf, v \in {6, 19}}
    \cup {<<<<0, 1>>, <<5>>, 0>>}

Outer ==
  {<<vec, s, sv, v>> : vec \in Upto(2, {2}), s \in Inner,
                       sv \in Upto(MaxElems, Inner), v \in {83}}

MCMessage == [leaf |-> Leaf, inner |-> Inner, outer |-> Outer]

LegalInner == {m \in Inner : Len(m[1]) <= 1}

MCLegal ==
  [leaf  |-> Leaf,
   inner |-> LegalInner,
   outer |-> {m \in Outer : /\ Len(m[1]) <= 1 /\ m[2] \in LegalInner
                            /\ Len(m[3]) <= 2
                            /\ \A i \in DOMAIN m[3] : m[3][i] \in LegalInner}]

-----------------------------------------------------------------------------
(* The image of a message, field by field. *)

RECURSIVE ImageOf(_, _)
ImageOf(t, m) ==
  LET Sub(s, x) == ToNet(Len(ImageOf(s, x)), SizeWidth) \o ImageOf(s, x)
      Flat(ss) == LET f[i \in 0..Len(ss)] ==
                        IF i = 0 THEN << >> ELSE f[i - 1] \o ss[i]
                  IN  f[Len(ss)]
      Of(fd, v) ==
        CASE fd.kind = "simple" -> ToNet(v, fd.width)
          [] fd.kind = "string" -> ToNet(Len(v), SizeWidth) \o v
          [] fd.kind = "simple_vec" -> ToNet(Len(v), SizeWidth) \o
               Flat([i \in DOMAIN v |-> ToNet(v[i], fd.width)])
          [] fd.kind = "struct" -> Sub(fd.sub, v)
          [] fd.kind = "struct_vec" -> ToNet(Len(v), SizeWidth) \o
               Flat([i \in DOMAIN v |-> Sub(fd.sub, v[i])])
  IN  Flat([i \in DOMAIN m |-> Of(MCFields[t][i], m[i])])

MCImage == [t \in Type |-> [m \in MCMessage[t] |-> ImageOf(t, m)]]

\* The theorems about the codec apply where vectors of messages have at most
\* one element.
ASSUME MCOneElement == MaxElems <= 1 => OneElement
=============================================================================
