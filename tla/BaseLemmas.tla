---------------------------- MODULE BaseLemmas ----------------------------
(***************************************************************************)
(* Facts about natural numbers, about functions defined by recursion on    *)
(* them, and about sequences, that the proofs of several components use.   *)
(***************************************************************************)
EXTENDS Integers, Sequences, WellFoundedInduction, SequenceTheorems, TLAPS

\* A set of natural numbers that is not empty has a least element: the first
\* key of a map, the first element of a list with a property.
LEMMA LeastElement ==
  ASSUME NEW S \in SUBSET Nat, S # {}
  PROVE  \E x \in S : \A y \in S : x <= y
<1> DEFINE R == {ss \in Nat \X Nat : ss[1] < ss[2]}
<1>1. IsWellFoundedOn(R, Nat)
  BY NatLessThanWellFounded DEF OpToRel
<1> HIDE DEF R
<1>2. PICK x \in S : \A y \in S : ~(<<y, x>> \in R)
  BY <1>1, WFMin
<1>3. \A y \in S : ~(y < x)
  BY <1>2 DEF R
<1> QED BY <1>3

\* The remainder of a division by a positive number.
LEMMA ModBounds ==
  \A x \in Int, c \in Nat \ {0} : x % c \in 0 .. c - 1
  OBVIOUS

\* Two functions that agree at 0 and, wherever they agree, agree at the next
\* number too.
LEMMA AgreeUpTo ==
  ASSUME NEW n \in Nat, NEW f, NEW g, f[0] = g[0],
         \A i \in 1..n : f[i - 1] = g[i - 1] => f[i] = g[i]
  PROVE  \A i \in 0..n : f[i] = g[i]
<1> SUFFICES ASSUME NEW k \in 0..n, f[k] # g[k] PROVE FALSE
  OBVIOUS
<1> DEFINE S == {i \in 0..n : f[i] # g[i]}
<1>1. S \in SUBSET Nat /\ k \in S
  OBVIOUS
<1>2. PICK x \in S : \A y \in S : x <= y
  BY <1>1, LeastElement
<1>3. x \in 1..n
  BY <1>2
<1>4. x - 1 \in 0..n /\ ~(x <= x - 1)
  BY <1>3
<1>5. f[x - 1] = g[x - 1]
  BY <1>2, <1>4
<1> QED BY <1>2, <1>3, <1>5

\* A recursion on 1..n whose step stays in a set has a solution there: the
\* loops of the code that fold a list have a result, and its type.
LEMMA RecursionExists ==
  ASSUME NEW X, NEW b \in X, NEW n \in Nat, NEW step \in [1..n -> [X -> X]]
  PROVE  \E f \in [0..n -> X] :
           f[0] = b /\ \A i \in 1..n : f[i] = step[i][f[i - 1]]
<1> DEFINE Solves(f, k) == /\ f \in [0..k -> X] /\ f[0] = b
                           /\ \A i \in 1..k : f[i] = step[i][f[i - 1]]
           S == {k \in 0..n : ~\E f : Solves(f, k)}
<1> HIDE DEF Solves
<1>1. SUFFICES ASSUME S # {} PROVE FALSE
  <2>1. n \in 0..n
    OBVIOUS
  <2>2. n \notin S
    <3> HIDE DEF S
    <3> QED BY <1>1
  <2>3. PICK f : Solves(f, n)
    BY <2>1, <2>2
  <2> QED BY <2>3 DEF Solves
<1>2. PICK x \in S : \A y \in S : x <= y
  <2>1. S \in SUBSET Nat
    OBVIOUS
  <2> QED BY <1>1, <2>1, LeastElement
<1>3. x # 0
  <2>1. Solves([i \in 0..0 |-> b], 0)
    BY DEF Solves
  <2> QED BY <1>2, <2>1
<1>4. x - 1 \in 0..n /\ ~(x <= x - 1) /\ x \in 1..n
  BY <1>2, <1>3
<1>5. PICK f \in [0..(x - 1) -> X] :
        f[0] = b /\ \A i \in 1..(x - 1) : f[i] = step[i][f[i - 1]]
  <2>1. x - 1 \notin S
    <3> HIDE DEF S
    <3> QED BY <1>2, <1>4
  <2>2. PICK f : Solves(f, x - 1)
    BY <1>4, <2>1
  <2> QED BY <2>2 DEF Solves
<1> DEFINE g == [i \in 0..x |-> IF i = x THEN step[x][f[x - 1]] ELSE f[i]]
<1>6. step[x][f[x - 1]] \in X
  <2>1. f[x - 1] \in X
    BY <1>4, <1>5
  <2> QED BY <1>4, <2>1
<1>7. g \in [0..x -> X]
  <2>1. \A i \in 0..x : i # x => f[i] \in X
    BY <1>4, <1>5
  <2> QED BY <1>6, <2>1
<1>8. g[0] = b
  BY <1>4, <1>5
<1>9. ASSUME NEW i \in 1..x PROVE g[i] = step[i][g[i - 1]]
  <2>1. g[i - 1] = f[i - 1]
    BY <1>4
  <2>2. CASE i = x
    <3>1. g[x] = step[x][f[x - 1]]
      BY <1>4
    <3> QED BY <2>1, <2>2, <3>1
  <2>3. CASE i # x
    <3>1. i \in 1..(x - 1) /\ g[i] = f[i]
      BY <1>4, <2>3
    <3> QED BY <1>5, <2>1, <3>1
  <2> QED BY <2>2, <2>3
<1>10. Solves(g, x)
  BY <1>7, <1>8, <1>9 DEF Solves
<1> QED BY <1>2, <1>10

-----------------------------------------------------------------------------
\* A sequence, of whatever it holds.
IsList(s) == s \in Seq({s[i] : i \in DOMAIN s})

\* What is a sequence over some set is one over its own elements.
LEMMA ListOf ==
  ASSUME NEW S, NEW s \in Seq(S)
  PROVE  IsList(s)
<1>1. Len(s) \in Nat /\ DOMAIN s = 1..Len(s) /\ s \in [1..Len(s) -> S]
  BY LenProperties
<1> DEFINE T == {s[i] : i \in DOMAIN s}
<1>2. s \in [1..Len(s) -> T]
  <2>1. \A i \in 1..Len(s) : s[i] \in T
    BY <1>1
  <2> HIDE DEF T
  <2> QED BY <1>1, <2>1
<1>3. s \in Seq(T)
  <2> HIDE DEF T
  <2> QED BY <1>1, <1>2
<1> QED BY <1>3 DEF IsList

\* A list and one more element.
LEMMA ListAppend ==
  ASSUME NEW s, IsList(s), NEW e
  PROVE  /\ Len(s) \in Nat /\ DOMAIN s = 1..Len(s)
         /\ IsList(Append(s, e)) /\ Len(Append(s, e)) = Len(s) + 1
         /\ DOMAIN Append(s, e) = 1..(Len(s) + 1)
         /\ \A i \in 1..Len(s) : Append(s, e)[i] = s[i]
         /\ Append(s, e)[Len(s) + 1] = e
<1> DEFINE S == {s[i] : i \in DOMAIN s} \cup {e}
           t == Append(s, e)
<1>1. s \in Seq(S)
  BY SeqMonotonic DEF IsList
<1>2. e \in S
  OBVIOUS
<1>3. Len(s) \in Nat /\ DOMAIN s = 1..Len(s)
  BY <1>1, LenProperties
<1> HIDE DEF S
<1>4. /\ t \in Seq(S) /\ Len(t) = Len(s) + 1 /\ t[Len(s) + 1] = e
      /\ \A i \in 1..Len(s) : t[i] = s[i]
  BY <1>1, <1>2, AppendProperties
<1> HIDE DEF t
<1>5. DOMAIN t = 1..(Len(s) + 1) /\ IsList(t)
  BY <1>4, ListOf, LenProperties
<1> QED BY <1>3, <1>4, <1>5 DEF t

\* The empty list.
LEMMA ListEmpty == \A d : d = << >> => DOMAIN d = {} /\ IsList(d)
<1> SUFFICES ASSUME NEW d, d = << >> PROVE DOMAIN d = {} /\ IsList(d)
  OBVIOUS
<1>1. DOMAIN d = {}
  OBVIOUS
<1>2. d \in Seq({})
  OBVIOUS
<1> QED BY <1>1, <1>2, ListOf
=============================================================================
