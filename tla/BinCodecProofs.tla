--------------------------- MODULE BinCodecProofs ---------------------------
(***************************************************************************)
(* Proofs about the codec of BinCodec: for every set of message types,     *)
(* what Encode writes is the image of the message, and Decode gets the     *)
(* message back from all of it and refuses less.                           *)
(***************************************************************************)
EXTENDS BinCodec, BaseLemmas

-----------------------------------------------------------------------------
(* Integers in network byte order.                                         *)

\* Division with remainder.
LEMMA DivMod ==
  ASSUME NEW x \in Nat, NEW c \in Nat \ {0}
  PROVE  /\ x \div c \in Nat /\ (x % c) \in 0..(c - 1)
         /\ x = (x \div c) * c + (x % c)
  OBVIOUS

\* A byte has at least two values, and a size at least one byte.
LEMMA BaseNat == Base \in Nat \ {0, 1} /\ SizeWidth \in Nat \ {0}
  BY CodecAssumption

\* The function that Shifted defines by recursion.
Shifts(v, n) ==
  LET q[k \in 0..n] == IF k = 0 THEN v ELSE q[k - 1] \div Base
  IN  q

\* It satisfies its recursion.
LEMMA ShiftsSolution ==
  ASSUME NEW v \in Nat, NEW n \in Nat
  PROVE  /\ Shifts(v, n) \in [0..n -> Nat] /\ Shifts(v, n)[0] = v
         /\ \A i \in 1..n : Shifts(v, n)[i] = Shifts(v, n)[i - 1] \div Base
<1> DEFINE step == [i \in 1..n |-> [x \in Nat |-> x \div Base]]
           Def(h) == [k \in 0..n |-> IF k = 0 THEN v ELSE h[k - 1] \div Base]
<1>1. step \in [1..n -> [Nat -> Nat]]
  <2>1. \A x \in Nat : x \div Base \in Nat
    BY DivMod, BaseNat
  <2> QED BY <2>1
<1>2. PICK f : /\ f \in [0..n -> Nat] /\ f[0] = v
               /\ \A i \in 1..n : f[i] = step[i][f[i - 1]]
  <2>1. PICK next, X, b : next = step /\ X = Nat /\ b = v
    OBVIOUS
  <2>2. next \in [1..n -> [X -> X]] /\ b \in X
    BY <1>1, <2>1
  <2> HIDE DEF step
  <2>3. \E f \in [0..n -> X] :
          f[0] = b /\ \A i \in 1..n : f[i] = next[i][f[i - 1]]
    BY <2>2, RecursionExists
  <2> QED BY <2>1, <2>3
<1>3. ASSUME NEW i \in 1..n PROVE f[i] = f[i - 1] \div Base
  <2>1. f[i - 1] \in Nat
    BY <1>2
  <2> QED BY <1>2, <2>1
<1>4. f = Def(f)
  BY <1>2, <1>3
<1>5. PICK q : q = CHOOSE h : h = Def(h)
  OBVIOUS
<1>6. q = Def(q)
  BY <1>4, <1>5
<1>7. q[0] = v /\ \A i \in 1..n : q[i] = q[i - 1] \div Base
  BY <1>6
<1>8. \A i \in 0..n : f[i] = q[i]
  <2>1. PICK g : g = f
    OBVIOUS
  <2>2. g[0] = q[0] /\ \A i \in 1..n : g[i - 1] = q[i - 1] => g[i] = q[i]
    BY <1>2, <1>3, <1>7, <2>1
  <2> HIDE DEF Def
  <2>3. \A i \in 0..n : g[i] = q[i]
    BY <2>2, AgreeUpTo
  <2> QED BY <2>1, <2>3
<1>9. q = Shifts(v, n)
  BY <1>5 DEF Shifts
<1> QED BY <1>2, <1>6, <1>7, <1>8, <1>9

\* What is left of a number, byte by byte.
LEMMA ShiftedStep ==
  ASSUME NEW v \in Nat, NEW n \in Nat
  PROVE  /\ Shifted(v, n) \in Nat /\ Shifted(v, 0) = v
         /\ Shifted(v, n + 1) = Shifted(v, n) \div Base
<1>1. PICK z, m, q, r : /\ z = 0 /\ m = n + 1
                        /\ q = Shifts(v, n) /\ r = Shifts(v, m)
  OBVIOUS
<1>2. /\ Shifted(v, 0) = Shifts(v, z)[z] /\ Shifted(v, n) = q[n]
      /\ Shifted(v, n + 1) = r[m]
  BY <1>1 DEF Shifted, Shifts
<1>3. z \in Nat /\ m \in Nat
  BY <1>1
<1>4. Shifts(v, z)[0] = v
  BY <1>3, ShiftsSolution
<1>5. /\ q \in [0..n -> Nat] /\ q[0] = v
      /\ \A i \in 1..n : q[i] = q[i - 1] \div Base
  BY <1>1, ShiftsSolution
<1>6. /\ r \in [0..m -> Nat] /\ r[0] = v
      /\ \A i \in 1..m : r[i] = r[i - 1] \div Base
  <2>1. /\ Shifts(v, m) \in [0..m -> Nat] /\ Shifts(v, m)[0] = v
        /\ \A i \in 1..m : Shifts(v, m)[i] = Shifts(v, m)[i - 1] \div Base
    BY <1>3, ShiftsSolution
  <2> QED BY <1>1, <2>1
<1>7. \A i \in 0..n : q[i] = r[i]
  <2>1. \A i \in 1..n : q[i - 1] = r[i - 1] => q[i] = r[i]
    BY <1>1, <1>5, <1>6
  <2>2. q[0] = r[0]
    BY <1>5, <1>6
  <2> QED BY <2>1, <2>2, AgreeUpTo
<1>8. q[n] = r[n] /\ q[n] \in Nat
  BY <1>5, <1>7
<1>9. r[m] = r[n] \div Base
  <2>1. m \in 1..m /\ m - 1 = n
    BY <1>1
  <2> QED BY <1>6, <2>1
<1> QED BY <1>1, <1>2, <1>4, <1>8, <1>9

\* The bytes of a number.
LEMMA ToNetBytes ==
  ASSUME NEW v \in Nat, NEW w \in Nat
  PROVE  /\ ToNet(v, w) \in Seq(Byte) /\ Len(ToNet(v, w)) = w
         /\ \A i \in 1..w : ToNet(v, w)[i] = Shifted(v, w - i) % Base
<1>1. ASSUME NEW i \in 1..w PROVE Shifted(v, w - i) % Base \in Byte
  <2>1. PICK k \in Nat : k = w - i
    OBVIOUS
  <2>2. Shifted(v, k) \in Nat
    BY ShiftedStep
  <2>3. PICK x \in Nat : x = Shifted(v, k)
    BY <2>2
  <2>4. (x % Base) \in 0..(Base - 1)
    BY DivMod, BaseNat
  <2> QED BY <2>1, <2>3, <2>4 DEF Byte
<1> QED BY <1>1 DEF ToNet

\* The function that FromNet defines by recursion.
Vals(bytes) ==
  LET w == Len(bytes)
      val[i \in 0..w] == IF i = 0 THEN 0 ELSE val[i - 1] * Base + bytes[i]
  IN  val

\* It satisfies its recursion.
LEMMA ValsSolution ==
  ASSUME NEW bytes \in Seq(Byte)
  PROVE  /\ Vals(bytes) \in [0..Len(bytes) -> Nat] /\ Vals(bytes)[0] = 0
         /\ \A i \in 1..Len(bytes) :
              Vals(bytes)[i] = Vals(bytes)[i - 1] * Base + bytes[i]
<1>1. PICK n \in Nat : n = Len(bytes)
  OBVIOUS
<1> DEFINE step == [i \in 1..n |-> [x \in Nat |-> x * Base + bytes[i]]]
           Def(h) == [i \in 0..n |-> IF i = 0 THEN 0
                                     ELSE h[i - 1] * Base + bytes[i]]
<1>2. step \in [1..n -> [Nat -> Nat]]
  <2>1. ASSUME NEW i \in 1..n, NEW x \in Nat PROVE x * Base + bytes[i] \in Nat
    <3>1. bytes[i] \in Nat
      BY <1>1, BaseNat DEF Byte
    <3>2. \A a, b, c \in Nat : a * b + c \in Nat
      OBVIOUS
    <3> QED BY <3>1, <3>2, BaseNat
  <2> QED BY <2>1
<1>3. PICK f : /\ f \in [0..n -> Nat] /\ f[0] = 0
               /\ \A i \in 1..n : f[i] = step[i][f[i - 1]]
  <2>1. PICK next, X, b : next = step /\ X = Nat /\ b = 0
    OBVIOUS
  <2>2. next \in [1..n -> [X -> X]] /\ b \in X
    BY <1>2, <2>1
  <2> HIDE DEF step
  <2>3. \E f \in [0..n -> X] :
          f[0] = b /\ \A i \in 1..n : f[i] = next[i][f[i - 1]]
    BY <2>2, RecursionExists
  <2> QED BY <2>1, <2>3
<1>4. ASSUME NEW i \in 1..n PROVE f[i] = f[i - 1] * Base + bytes[i]
  <2>1. f[i - 1] \in Nat
    BY <1>3
  <2> QED BY <1>3, <2>1
<1>5. f = Def(f)
  BY <1>3, <1>4
<1>6. PICK q : q = CHOOSE h : h = Def(h)
  OBVIOUS
<1>7. q = Def(q)
  BY <1>5, <1>6
<1>8. q[0] = 0 /\ \A i \in 1..n : q[i] = q[i - 1] * Base + bytes[i]
  BY <1>7
<1>9. \A i \in 0..n : f[i] = q[i]
  <2>1. PICK g : g = f
    OBVIOUS
  <2>2. g[0] = q[0] /\ \A i \in 1..n : g[i - 1] = q[i - 1] => g[i] = q[i]
    BY <1>3, <1>4, <1>8, <2>1
  <2> HIDE DEF Def
  <2>3. \A i \in 0..n : g[i] = q[i]
    BY <2>2, AgreeUpTo, ZenonT(40)
  <2> QED BY <2>1, <2>3
<1>10. q = Vals(bytes)
  BY <1>1, <1>6 DEF Vals
<1> QED BY <1>1, <1>3, <1>7, <1>8, <1>9, <1>10

\* A number read from bytes.
LEMMA FromNetNat ==
  ASSUME NEW bytes \in Seq(Byte)
  PROVE  FromNet(bytes) \in Nat
<1>1. FromNet(bytes) = Vals(bytes)[Len(bytes)]
  BY DEF FromNet, Vals
<1>2. Len(bytes) \in 0..Len(bytes)
  OBVIOUS
<1> QED BY <1>1, <1>2, ValsSolution

\* A number that fits in w bytes is read back from them.
LEMMA FromNetToNet ==
  ASSUME NEW v \in Nat, NEW w \in Nat, Shifted(v, w) = 0
  PROVE  FromNet(ToNet(v, w)) = v
<1>1. PICK b : b = ToNet(v, w)
  OBVIOUS
<1>2. /\ b \in Seq(Byte) /\ Len(b) = w
      /\ \A i \in 1..w : b[i] = Shifted(v, w - i) % Base
  BY <1>1, ToNetBytes
<1>3. PICK f : f = Vals(b)
  OBVIOUS
<1>4. f[0] = 0 /\ \A i \in 1..w : f[i] = f[i - 1] * Base + b[i]
  BY <1>2, <1>3, ValsSolution
<1>5. PICK g : g = [i \in 0..w |-> Shifted(v, w - i)]
  OBVIOUS
<1>6. ASSUME NEW i \in 1..w, f[i - 1] = g[i - 1] PROVE f[i] = g[i]
  <2>1. PICK k \in Nat : k = w - i
    OBVIOUS
  <2>2. g[i] = Shifted(v, k) /\ g[i - 1] = Shifted(v, k + 1)
    BY <1>5, <2>1
  <2>3. Shifted(v, k) \in Nat /\ Shifted(v, k + 1) = Shifted(v, k) \div Base
    BY ShiftedStep
  <2>4. PICK x \in Nat : x = Shifted(v, k)
    BY <2>3
  <2>5. b[i] = x % Base
    BY <1>2, <2>1, <2>4
  <2>6. x = (x \div Base) * Base + (x % Base)
    BY DivMod, BaseNat
  <2> QED BY <1>4, <1>6, <2>2, <2>3, <2>4, <2>5, <2>6
<1>7. f[0] = g[0]
  BY <1>4, <1>5
<1>8. \A i \in 0..w : f[i] = g[i]
  <2>1. \A i \in 1..w : f[i - 1] = g[i - 1] => f[i] = g[i]
    BY <1>6
  <2> QED BY <1>7, <2>1, AgreeUpTo
<1>9. g[w] = v
  <2>1. g[w] = Shifted(v, 0)
    BY <1>5
  <2>2. Shifted(v, 0) = v
    BY ShiftedStep
  <2> QED BY <2>1, <2>2
<1>10. FromNet(b) = f[w]
  BY <1>2, <1>3 DEF FromNet, Vals
<1> QED BY <1>1, <1>8, <1>9, <1>10

-----------------------------------------------------------------------------
(* Sequences one behind the other.                                         *)

\* Sequences over S.
IsSeqs(ss, S) == ss \in Seq(Seq(S))

\* The function that Concat defines by recursion.
Concats(ss) ==
  LET f[i \in 0..Len(ss)] == IF i = 0 THEN << >> ELSE f[i - 1] \o ss[i]
  IN  f

\* It satisfies its recursion.
LEMMA ConcatsSolution ==
  ASSUME NEW S, NEW ss, IsSeqs(ss, S)
  PROVE  /\ Concats(ss) \in [0..Len(ss) -> Seq(S)] /\ Concats(ss)[0] = << >>
         /\ \A i \in 1..Len(ss) : Concats(ss)[i] = Concats(ss)[i - 1] \o ss[i]
<1>1. PICK n \in Nat : n = Len(ss) /\ \A i \in 1..n : ss[i] \in Seq(S)
  BY DEF IsSeqs
<1> DEFINE step == [i \in 1..n |-> [x \in Seq(S) |-> x \o ss[i]]]
           Def(h) == [i \in 0..n |-> IF i = 0 THEN << >> ELSE h[i - 1] \o ss[i]]
<1>2. step \in [1..n -> [Seq(S) -> Seq(S)]]
  <2>1. ASSUME NEW i \in 1..n, NEW x \in Seq(S) PROVE x \o ss[i] \in Seq(S)
    <3>1. ss[i] \in Seq(S)
      BY <1>1
    <3> QED BY <3>1
  <2> QED BY <2>1
<1>3. PICK f : /\ f \in [0..n -> Seq(S)] /\ f[0] = << >>
               /\ \A i \in 1..n : f[i] = step[i][f[i - 1]]
  <2>1. PICK next, X, b : next = step /\ X = Seq(S) /\ b = << >>
    OBVIOUS
  <2>2. next \in [1..n -> [X -> X]] /\ b \in X
    BY <1>2, <2>1
  <2> HIDE DEF step
  <2>3. \E f \in [0..n -> X] :
          f[0] = b /\ \A i \in 1..n : f[i] = next[i][f[i - 1]]
    BY <2>2, RecursionExists
  <2> QED BY <2>1, <2>3
<1>4. ASSUME NEW i \in 1..n PROVE f[i] = f[i - 1] \o ss[i]
  <2>1. f[i - 1] \in Seq(S)
    BY <1>3
  <2> QED BY <1>3, <2>1
<1>5. f = Def(f)
  <2>1. ASSUME NEW i \in 0..n PROVE f[i] = Def(f)[i]
    <3>1. CASE i = 0
      BY <1>3, <3>1
    <3>2. CASE i # 0
      <4>1. i \in 1..n
        BY <3>2
      <4> QED BY <1>4, <3>2, <4>1
    <3> QED BY <3>1, <3>2
  <2>2. DOMAIN f = 0..n /\ DOMAIN Def(f) = 0..n
    BY <1>3
  <2> QED BY <1>3, <2>1, <2>2
<1>6. PICK q : q = CHOOSE h : h = Def(h)
  OBVIOUS
<1>7. q = Def(q)
  BY <1>5, <1>6
<1>8. q[0] = << >> /\ \A i \in 1..n : q[i] = q[i - 1] \o ss[i]
  <2>1. q[0] = << >>
    BY <1>7
  <2>2. ASSUME NEW i \in 1..n PROVE q[i] = q[i - 1] \o ss[i]
    <3>1. i \in 0..n /\ i # 0
      OBVIOUS
    <3> QED BY <1>7, <3>1
  <2> QED BY <2>1, <2>2
<1>9. \A i \in 0..n : f[i] = q[i]
  <2>1. PICK g : g = f
    OBVIOUS
  <2>2. g[0] = q[0] /\ \A i \in 1..n : g[i - 1] = q[i - 1] => g[i] = q[i]
    BY <1>3, <1>4, <1>8, <2>1
  <2> HIDE DEF Def
  <2>3. \A i \in 0..n : g[i] = q[i]
    BY <2>2, AgreeUpTo
  <2> QED BY <2>1, <2>3
<1>10. q = Concats(ss)
  BY <1>1, <1>6 DEF Concats
<1> QED BY <1>1, <1>3, <1>7, <1>8, <1>9, <1>10

\* One sequence after the other.
LEMMA ConcatStep ==
  ASSUME NEW S, NEW ss, IsSeqs(ss, S), NEW k \in 0..Len(ss)
  PROVE  /\ Concat(ss, k) \in Seq(S) /\ Concat(ss, 0) = << >>
         /\ k > 0 => Concat(ss, k) = Concat(ss, k - 1) \o ss[k]
<1>1. \A i : Concat(ss, i) = Concats(ss)[i]
  BY DEF Concat, Concats
<1>2. Len(ss) \in Nat
  BY DEF IsSeqs
<1>3. PICK f : f = Concats(ss)
  OBVIOUS
<1>4. /\ f \in [0..Len(ss) -> Seq(S)] /\ f[0] = << >>
      /\ \A i \in 1..Len(ss) : f[i] = f[i - 1] \o ss[i]
  BY <1>3, ConcatsSolution
<1>5. k > 0 => k \in 1..Len(ss)
  BY <1>2
<1>6. f[k] \in Seq(S)
  BY <1>4
<1>7. Concat(ss, k) = f[k] /\ Concat(ss, k - 1) = f[k - 1] /\ Concat(ss, 0) = f[0]
  BY <1>1, <1>3
<1> QED BY <1>4, <1>5, <1>6, <1>7

\* s begins with p.
Starts(s, p) == Len(p) <= Len(s) /\ \A j \in 1..Len(p) : s[j] = p[j]

\* Two strings, one behind the other, are as long as both together.
LEMMA StartsLess ==
  ASSUME NEW S, NEW a \in Seq(S), NEW b \in Seq(S)
  PROVE  Starts(a \o b, a) /\ Starts(a, a) /\ Len(a \o b) = Len(a) + Len(b)
  BY DEF Starts

\* The start of a start is a start.
LEMMA StartsTrans ==
  ASSUME NEW S, NEW a \in Seq(S), NEW b \in Seq(S), NEW c \in Seq(S),
         Starts(b, a), Starts(c, b)
  PROVE  Starts(c, a)
  BY DEF Starts

\* A start stays one behind the same string.
LEMMA StartsMore ==
  ASSUME NEW S, NEW a \in Seq(S), NEW b \in Seq(S), NEW c \in Seq(S),
         Starts(c, b)
  PROVE  Starts(a \o c, a \o b)
<1>1. Len(a \o b) = Len(a) + Len(b) /\ Len(a \o c) = Len(a) + Len(c)
  OBVIOUS
<1>2. Len(b) <= Len(c)
  BY DEF Starts
<1>3. ASSUME NEW j \in 1..Len(a \o b) PROVE (a \o c)[j] = (a \o b)[j]
  <2>1. CASE j <= Len(a)
    BY <2>1, <1>1
  <2>2. CASE j > Len(a)
    <3>1. j - Len(a) \in 1..Len(b)
      BY <1>1, <2>2
    <3>2. (a \o b)[j] = b[j - Len(a)] /\ (a \o c)[j] = c[j - Len(a)]
      BY <1>1, <1>2, <2>2, <3>1
    <3> QED BY <3>1, <3>2 DEF Starts
  <2>3. j <= Len(a) \/ j > Len(a)
    OBVIOUS
  <2> QED BY <2>1, <2>2, <2>3, Zenon
<1> QED BY <1>1, <1>2, <1>3 DEF Starts

\* What the first k sequences give is the beginning of what all give.
LEMMA ConcatStarts ==
  ASSUME NEW S, NEW ss, IsSeqs(ss, S), NEW k \in 0..Len(ss)
  PROVE  Starts(Concat(ss, Len(ss)), Concat(ss, k))
<1>1. PICK n \in Nat : n = Len(ss) /\ \A i \in 1..n : ss[i] \in Seq(S)
  BY DEF IsSeqs
<1>2. \A i \in 0..n : Concat(ss, i) \in Seq(S)
  BY <1>1, ConcatStep
<1> DEFINE Bad == {i \in k..n : ~Starts(Concat(ss, i), Concat(ss, k))}
<1>3. Bad = {}
  <2> SUFFICES ASSUME Bad # {} PROVE FALSE
    OBVIOUS
  <2>1. Bad \in SUBSET Nat
    BY <1>1
  <2>2. PICK x \in Bad : \A y \in Bad : x <= y
    BY <2>1, LeastElement
  <2>3. Concat(ss, k) \in Seq(S) /\ Starts(Concat(ss, k), Concat(ss, k))
    BY <1>1, <1>2, StartsLess
  <2>4. x # k
    BY <2>2, <2>3
  <2>5. x - 1 \in k..n /\ x \in 1..n /\ x - 1 \in 0..n /\ ~(x <= x - 1)
    BY <1>1, <2>2, <2>4
  <2>6. Starts(Concat(ss, x - 1), Concat(ss, k))
    BY <2>2, <2>5
  <2>7. Concat(ss, x) = Concat(ss, x - 1) \o ss[x]
    <3>1. PICK i : i = x
      OBVIOUS
    <3>2. i \in 0..Len(ss) /\ i > 0
      BY <1>1, <2>5, <3>1
    <3>3. Concat(ss, i) = Concat(ss, i - 1) \o ss[i]
      BY <3>2, ConcatStep
    <3> QED BY <3>1, <3>3
  <2>8. PICK a, b, c : a = Concat(ss, k) /\ b = Concat(ss, x - 1) /\ c = ss[x]
    OBVIOUS
  <2>9. a \in Seq(S) /\ b \in Seq(S) /\ c \in Seq(S) /\ Starts(b, a)
    BY <1>1, <1>2, <2>3, <2>5, <2>6, <2>8
  <2>10. b \o c \in Seq(S) /\ Starts(b \o c, b)
    BY <2>9, StartsLess
  <2>11. Starts(b \o c, a)
    <3>1. PICK d : d = b \o c
      OBVIOUS
    <3>2. d \in Seq(S) /\ Starts(d, b)
      BY <2>10, <3>1
    <3>3. Starts(d, a)
      BY <2>9, <3>2, StartsTrans
    <3> QED BY <3>1, <3>3
  <2> QED BY <2>2, <2>7, <2>8, <2>11
<1> HIDE DEF Bad
<1>4. n \in k..n
  BY <1>1
<1> QED BY <1>1, <1>3, <1>4 DEF Bad

-----------------------------------------------------------------------------
(* The format.                                                             *)

\* The values of a message are those of the fields of its type.
LEMMA MessageOf ==
  ASSUME NEW t \in Type, NEW m \in Message[t]
  PROVE  /\ Len(Fields[t]) \in Nat /\ DOMAIN Fields[t] = 1..Len(Fields[t])
         /\ DOMAIN m = 1..Len(Fields[t]) /\ Image[t][m] \in Seq(Byte)
         /\ Image[t][m] = Concat(FieldImages(t, m), Len(Fields[t]))
         /\ \A i \in 1..Len(Fields[t]) :
              IsField(Fields[t][i]) /\ IsValue(Fields[t][i], m[i])
<1>1. PICK fs : fs = Fields[t]
  OBVIOUS
<1>2. /\ fs \in Seq({fs[i] : i \in DOMAIN fs})
      /\ \A i \in DOMAIN fs : IsField(fs[i])
  BY <1>1, CodecAssumption
<1>3. Len(fs) \in Nat /\ DOMAIN fs = 1..Len(fs)
  BY <1>2, LenProperties
<1>4. /\ m = [i \in DOMAIN fs |-> m[i]] /\ Image[t][m] \in Seq(Byte)
      /\ \A i \in DOMAIN m : IsValue(fs[i], m[i])
      /\ Image[t][m] = Concat(FieldImages(t, m), Len(fs))
  BY <1>1, FormatAssumption
<1>5. DOMAIN m = DOMAIN fs
  BY <1>4
<1> QED BY <1>1, <1>2, <1>3, <1>4, <1>5

\* A message in another one.
LEMMA SubImageSeq ==
  ASSUME NEW t \in Type, NEW m \in Message[t]
  PROVE  /\ SubImage(t, m) \in Seq(Byte) /\ Len(Image[t][m]) \in Nat
         /\ Len(SubImage(t, m)) = SizeWidth + Len(Image[t][m])
<1>1. PICK s : s = Image[t][m]
  OBVIOUS
<1>2. s \in Seq(Byte)
  BY <1>1, MessageOf
<1>3. PICK n \in Nat : n = Len(s)
  BY <1>2
<1>4. PICK c : c = ToNet(n, SizeWidth)
  OBVIOUS
<1>5. c \in Seq(Byte) /\ Len(c) = SizeWidth
  BY <1>4, ToNetBytes, BaseNat
<1>6. SubImage(t, m) = c \o s
  BY <1>1, <1>3, <1>4 DEF SubImage
<1>7. c \o s \in Seq(Byte) /\ Len(c \o s) = Len(c) + Len(s)
  BY <1>2, <1>5
<1> QED BY <1>1, <1>3, <1>5, <1>6, <1>7

\* The elements behind a beginning.
LEMMA ConcatBehind ==
  ASSUME NEW S, NEW a \in Seq(S), NEW g \in Seq(S), NEW i \in 1..Len(g)
  PROVE  (a \o g)[Len(a) + i] = g[i]
<1>1. PICK k : k = Len(a) + i
  OBVIOUS
<1>2. k \in 1..(Len(a) + Len(g)) /\ ~(k <= Len(a)) /\ k - Len(a) = i
  BY <1>1
<1>3. (a \o g)[k] = IF k <= Len(a) THEN a[k] ELSE g[k - Len(a)]
  BY <1>2, ConcatProperties
<1> QED BY <1>1, <1>2, <1>3, Zenon

\* A size in front of elements.
LEMMA FrontSeq ==
  ASSUME NEW S, NEW x \in S, NEW n \in Nat, NEW g \in [1..n -> S],
         NEW h, h = <<x>> \o g
  PROVE  /\ h \in Seq(S) /\ Len(h) = n + 1 /\ h[1] = x
         /\ \A i \in 1..n : h[i + 1] = g[i]
<1>1. PICK a : a = <<x>>
  OBVIOUS
<1>2. a \in Seq(S) /\ Len(a) = 1 /\ a[1] = x
  BY <1>1
<1>3. g \in Seq(S) /\ Len(g) = n
  OBVIOUS
<1>4. h = a \o g
  BY <1>1
<1>5. h \in Seq(S) /\ Len(h) = n + 1 /\ h[1] = a[1]
  BY <1>2, <1>3, <1>4
<1>6. ASSUME NEW i \in 1..n PROVE h[i + 1] = g[i]
  <2>1. i \in 1..Len(g) /\ Len(a) + i = i + 1
    BY <1>2, <1>3
  <2>2. (a \o g)[Len(a) + i] = g[i]
    BY <1>2, <1>3, <2>1, ConcatBehind, ZenonT(40)
  <2> QED BY <1>4, <2>1, <2>2
<1> QED BY <1>2, <1>5, <1>6

\* The bytes of a size.
LEMMA SizeBytes ==
  ASSUME NEW n \in Nat
  PROVE  ToNet(n, SizeWidth) \in Seq(Byte) /\ Len(ToNet(n, SizeWidth)) = SizeWidth
  BY ToNetBytes, BaseNat

\* The parts of a field, kind by kind.
LEMMA PartsSimple ==
  ASSUME NEW fd, NEW v, IsField(fd), IsValue(fd, v), fd.kind = "simple"
  PROVE  /\ v \in Nat /\ fd.width \in Nat /\ Shifted(v, fd.width) = 0
         /\ IsSeqs(Parts(fd, v), Byte) /\ Len(Parts(fd, v)) = 1
         /\ Parts(fd, v)[1] = ToNet(v, fd.width)
         /\ Writes(fd, v) = Parts(fd, v) /\ Calls(fd, v) = << >>
<1>1. v \in Nat /\ fd.width \in Nat /\ Shifted(v, fd.width) = 0
  BY DEF IsField, IsValue
<1>2. PICK b : b = ToNet(v, fd.width)
  OBVIOUS
<1>3. b \in Seq(Byte)
  BY <1>1, <1>2, ToNetBytes
<1>4. Parts(fd, v) = <<b>> /\ Writes(fd, v) = <<b>> /\ Calls(fd, v) = << >>
  BY <1>2 DEF Parts, Writes, Calls
<1>5. <<b>> \in Seq(Seq(Byte)) /\ Len(<<b>>) = 1 /\ <<b>>[1] = b
  BY <1>3
<1> QED BY <1>1, <1>2, <1>4, <1>5 DEF IsSeqs

\* A string is its size and its bytes.
LEMMA PartsString ==
  ASSUME NEW fd, NEW v, IsField(fd), IsValue(fd, v), fd.kind = "string"
  PROVE  /\ v \in Seq(Byte) /\ Fits32(Len(v)) /\ fd.max \in Nat
         /\ IsSeqs(Parts(fd, v), Byte) /\ Len(Parts(fd, v)) = 2
         /\ Parts(fd, v)[1] = ToNet(Len(v), SizeWidth) /\ Parts(fd, v)[2] = v
         /\ Writes(fd, v) = Parts(fd, v) /\ Calls(fd, v) = << >>
<1>1. v \in Seq(Byte) /\ Fits32(Len(v)) /\ fd.max \in Nat
  BY DEF IsField, IsValue
<1>2. PICK b : b = ToNet(Len(v), SizeWidth)
  OBVIOUS
<1>3. b \in Seq(Byte)
  <2>1. Len(v) \in Nat
    BY <1>1
  <2> QED BY <1>2, <2>1, SizeBytes
<1>4. Parts(fd, v) = <<b, v>> /\ Writes(fd, v) = <<b, v>> /\ Calls(fd, v) = << >>
  BY <1>2 DEF Parts, Writes, Calls
<1>5. <<b, v>> \in Seq(Seq(Byte)) /\ Len(<<b, v>>) = 2
  <2>1. PICK S : S = Seq(Byte)
    OBVIOUS
  <2>2. b \in S /\ v \in S
    BY <1>1, <1>3, <2>1
  <2>3. <<b, v>> \in Seq(S)
    BY <2>2
  <2> QED BY <2>1, <2>3
<1>6. <<b, v>>[1] = b /\ <<b, v>>[2] = v
  OBVIOUS
<1> QED BY <1>1, <1>2, <1>4, <1>5, <1>6 DEF IsSeqs

\* A vector of integers is its size and its elements.
LEMMA PartsSimpleVec ==
  ASSUME NEW fd, NEW v, IsField(fd), IsValue(fd, v), fd.kind = "simple_vec"
  PROVE  /\ v \in Seq(Nat) /\ Fits32(Len(v)) /\ fd.max \in Nat /\ fd.width \in Nat
         /\ IsSeqs(Parts(fd, v), Byte) /\ Len(Parts(fd, v)) = Len(v) + 1
         /\ Parts(fd, v)[1] = ToNet(Len(v), SizeWidth)
         /\ \A i \in 1..Len(v) : /\ Parts(fd, v)[i + 1] = ToNet(v[i], fd.width)
                                 /\ v[i] \in Nat /\ Shifted(v[i], fd.width) = 0
         /\ Writes(fd, v) = Parts(fd, v) /\ Calls(fd, v) = << >>
<1>1. /\ v \in Seq(Nat) /\ Fits32(Len(v)) /\ fd.max \in Nat /\ fd.width \in Nat
      /\ \A i \in DOMAIN v : Shifted(v[i], fd.width) = 0
  BY DEF IsField, IsValue
<1>2. PICK n \in Nat : n = Len(v) /\ DOMAIN v = 1..n
  BY <1>1
<1>3. \A i \in 1..n : v[i] \in Nat /\ Shifted(v[i], fd.width) = 0
  BY <1>1, <1>2
<1>4. PICK x, g : /\ x = ToNet(n, SizeWidth)
                  /\ g = [i \in 1..n |-> ToNet(v[i], fd.width)]
  OBVIOUS
<1>5. PICK S : S = Seq(Byte)
  OBVIOUS
<1>6. x \in S
  BY <1>4, <1>5, SizeBytes
<1>7. g \in [1..n -> S]
  <2>1. ASSUME NEW i \in 1..n PROVE ToNet(v[i], fd.width) \in S
    BY <1>1, <1>3, <1>5, ToNetBytes
  <2> QED BY <1>4, <2>1
<1>8. PICK h : h = <<x>> \o g
  OBVIOUS
<1>9. Parts(fd, v) = h /\ Writes(fd, v) = h /\ Calls(fd, v) = << >>
  BY <1>2, <1>4, <1>8 DEF Parts, Writes, Calls
<1>10. /\ h \in Seq(S) /\ Len(h) = n + 1 /\ h[1] = x
       /\ \A i \in 1..n : h[i + 1] = g[i]
  BY <1>6, <1>7, <1>8, FrontSeq
<1>11. IsSeqs(h, Byte)
  BY <1>5, <1>10 DEF IsSeqs
<1>12. \A i \in 1..n : h[i + 1] = ToNet(v[i], fd.width)
  BY <1>4, <1>10
<1> QED BY <1>1, <1>2, <1>3, <1>4, <1>9, <1>10, <1>11, <1>12

\* A message is one part: its length and its image.
LEMMA PartsStruct ==
  ASSUME NEW fd, NEW v, IsField(fd), IsValue(fd, v), fd.kind = "struct"
  PROVE  /\ fd.sub \in Type /\ v \in Message[fd.sub] /\ SubFits(fd.sub, v)
         /\ IsSeqs(Parts(fd, v), Byte) /\ Len(Parts(fd, v)) = 1
         /\ Parts(fd, v)[1] = SubImage(fd.sub, v)
         /\ Writes(fd, v) = << >> /\ Calls(fd, v) = <<v>>
<1>1. fd.sub \in Type /\ v \in Message[fd.sub] /\ SubFits(fd.sub, v)
  BY DEF IsField, IsValue
<1>2. PICK b : b = SubImage(fd.sub, v)
  OBVIOUS
<1>3. b \in Seq(Byte)
  BY <1>1, <1>2, SubImageSeq
<1>4. Parts(fd, v) = <<b>> /\ Writes(fd, v) = << >> /\ Calls(fd, v) = <<v>>
  BY <1>2 DEF Parts, Writes, Calls
<1>5. <<b>> \in Seq(Seq(Byte)) /\ Len(<<b>>) = 1 /\ <<b>>[1] = b
  BY <1>3
<1> QED BY <1>1, <1>2, <1>4, <1>5 DEF IsSeqs

\* A vector of messages is its size and the parts of its elements.
LEMMA PartsStructVec ==
  ASSUME NEW fd, NEW v, IsField(fd), IsValue(fd, v), fd.kind = "struct_vec"
  PROVE  /\ v \in Seq(Message[fd.sub]) /\ Fits32(Len(v)) /\ fd.max \in Nat
         /\ fd.sub \in Type
         /\ IsSeqs(Parts(fd, v), Byte) /\ Len(Parts(fd, v)) = Len(v) + 1
         /\ Parts(fd, v)[1] = ToNet(Len(v), SizeWidth)
         /\ \A i \in 1..Len(v) : /\ Parts(fd, v)[i + 1] = SubImage(fd.sub, v[i])
                                 /\ v[i] \in Message[fd.sub]
                                 /\ SubFits(fd.sub, v[i])
         /\ Writes(fd, v) = <<ToNet(Len(v), SizeWidth)>>
         /\ v = << >> => Calls(fd, v) = << >>
         /\ v # << >> => Calls(fd, v) = <<v[1]>>
<1>1. /\ v \in Seq(Message[fd.sub]) /\ Fits32(Len(v)) /\ fd.max \in Nat
      /\ fd.sub \in Type /\ \A i \in DOMAIN v : SubFits(fd.sub, v[i])
  BY DEF IsField, IsValue
<1>2. PICK n \in Nat : n = Len(v) /\ DOMAIN v = 1..n
  BY <1>1
<1>3. \A i \in 1..n : v[i] \in Message[fd.sub] /\ SubFits(fd.sub, v[i])
  BY <1>1, <1>2
<1>4. PICK x, g : /\ x = ToNet(n, SizeWidth)
                  /\ g = [i \in 1..n |-> SubImage(fd.sub, v[i])]
  OBVIOUS
<1>5. PICK S : S = Seq(Byte)
  OBVIOUS
<1>6. x \in S
  BY <1>4, <1>5, SizeBytes
<1>7. g \in [1..n -> S]
  <2>1. ASSUME NEW i \in 1..n PROVE SubImage(fd.sub, v[i]) \in S
    BY <1>1, <1>3, <1>5, SubImageSeq
  <2> QED BY <1>4, <2>1
<1>8. PICK h : h = <<x>> \o g
  OBVIOUS
<1>9. /\ Parts(fd, v) = h /\ Writes(fd, v) = <<x>>
      /\ Calls(fd, v) = IF v = << >> THEN << >> ELSE <<Head(v)>>
  BY <1>2, <1>4, <1>8 DEF Parts, Writes, Calls
<1>10. /\ h \in Seq(S) /\ Len(h) = n + 1 /\ h[1] = x
       /\ \A i \in 1..n : h[i + 1] = g[i]
  BY <1>6, <1>7, <1>8, FrontSeq
<1>11. IsSeqs(h, Byte)
  BY <1>5, <1>10 DEF IsSeqs
<1>12. \A i \in 1..n : h[i + 1] = SubImage(fd.sub, v[i])
  BY <1>4, <1>10
<1>13. v # << >> => Head(v) = v[1]
  BY <1>1
<1> QED BY <1>1, <1>2, <1>3, <1>4, <1>9, <1>10, <1>11, <1>12, <1>13

\* The kinds of a field are five.
LEMMA KindCases ==
  ASSUME NEW fd, IsField(fd)
  PROVE  \/ fd.kind = "simple" \/ fd.kind = "string" \/ fd.kind = "simple_vec"
         \/ fd.kind = "struct" \/ fd.kind = "struct_vec"
  BY DEF IsField, Kind

\* What the template of a field writes and calls.
LEMMA FieldSteps ==
  ASSUME NEW fd, NEW v, IsField(fd), IsValue(fd, v)
  PROVE  /\ IsSeqs(Parts(fd, v), Byte) /\ Len(Parts(fd, v)) \in Nat \ {0}
         /\ IsSeqs(Writes(fd, v), Byte)
         /\ Len(Writes(fd, v)) \in Nat /\ Len(Calls(fd, v)) \in Nat
         /\ Len(Writes(fd, v)) + Len(Calls(fd, v)) > 0
         /\ \A k \in 1..Len(Calls(fd, v)) :
              /\ fd.kind \in {"struct", "struct_vec"} /\ fd.sub \in Type
              /\ Calls(fd, v)[k] \in Message[fd.sub]
              /\ SubFits(fd.sub, Calls(fd, v)[k])
<1>1. CASE fd.kind = "simple"
  <2>1. /\ IsSeqs(Parts(fd, v), Byte) /\ Len(Parts(fd, v)) = 1
        /\ Writes(fd, v) = Parts(fd, v) /\ Calls(fd, v) = << >>
    BY <1>1, PartsSimple
  <2> QED BY <2>1
<1>2. CASE fd.kind = "string"
  <2>1. /\ IsSeqs(Parts(fd, v), Byte) /\ Len(Parts(fd, v)) = 2
        /\ Writes(fd, v) = Parts(fd, v) /\ Calls(fd, v) = << >>
    BY <1>2, PartsString
  <2> QED BY <2>1
<1>3. CASE fd.kind = "simple_vec"
  <2>1. /\ IsSeqs(Parts(fd, v), Byte) /\ Len(Parts(fd, v)) = Len(v) + 1
        /\ Writes(fd, v) = Parts(fd, v) /\ Calls(fd, v) = << >> /\ v \in Seq(Nat)
    BY <1>3, PartsSimpleVec
  <2>2. Len(v) \in Nat
    BY <2>1
  <2> QED BY <2>1, <2>2
<1>4. CASE fd.kind = "struct"
  <2>1. /\ IsSeqs(Parts(fd, v), Byte) /\ Len(Parts(fd, v)) = 1
        /\ Writes(fd, v) = << >> /\ Calls(fd, v) = <<v>>
        /\ fd.sub \in Type /\ v \in Message[fd.sub] /\ SubFits(fd.sub, v)
    BY <1>4, PartsStruct
  <2>2. PICK w, c : w = << >> /\ c = <<v>>
    OBVIOUS
  <2>3. Len(w) = 0 /\ IsSeqs(w, Byte) /\ Len(c) = 1 /\ c[1] = v
    BY <2>2 DEF IsSeqs
  <2> QED BY <1>4, <2>1, <2>2, <2>3
<1>5. CASE fd.kind = "struct_vec"
  <2>1. /\ IsSeqs(Parts(fd, v), Byte) /\ Len(Parts(fd, v)) = Len(v) + 1
        /\ Writes(fd, v) = <<ToNet(Len(v), SizeWidth)>>
        /\ v = << >> => Calls(fd, v) = << >>
        /\ v # << >> => Calls(fd, v) = <<v[1]>>
        /\ fd.sub \in Type /\ v \in Seq(Message[fd.sub])
        /\ \A i \in 1..Len(v) : v[i] \in Message[fd.sub] /\ SubFits(fd.sub, v[i])
    BY <1>5, PartsStructVec
  <2>2. Len(v) \in Nat /\ (v # << >> => 1 \in 1..Len(v))
    BY <2>1
  <2>3. PICK x : x = ToNet(Len(v), SizeWidth)
    OBVIOUS
  <2>4. x \in Seq(Byte)
    BY <2>2, <2>3, SizeBytes
  <2>5. <<x>> \in Seq(Seq(Byte)) /\ Len(<<x>>) = 1
    BY <2>4
  <2>6. IsSeqs(Writes(fd, v), Byte) /\ Len(Writes(fd, v)) = 1
    BY <2>1, <2>3, <2>5 DEF IsSeqs
  <2>7. CASE v = << >>
    <3>1. Len(Calls(fd, v)) = 0
      BY <2>1, <2>7
    <3> QED BY <2>1, <2>2, <2>6, <3>1
  <2>8. CASE v # << >>
    <3>1. PICK e, c : e = v[1] /\ c = <<e>>
      OBVIOUS
    <3>2. Calls(fd, v) = c /\ e \in Message[fd.sub] /\ SubFits(fd.sub, e)
      BY <2>1, <2>2, <2>8, <3>1
    <3>3. Len(c) = 1 /\ c[1] = e
      BY <3>1
    <3>4. \A k \in 1..Len(c) : c[k] = e
      BY <3>3
    <3> QED BY <1>5, <2>1, <2>2, <2>6, <3>2, <3>3, <3>4
  <2> QED BY <2>7, <2>8
<1> QED BY <1>1, <1>2, <1>3, <1>4, <1>5, KindCases

\* The parts of such a value are what the template writes, and the messages
\* it calls Encode for.
LEMMA PartsSteps ==
  ASSUME NEW fd, NEW v, IsField(fd), IsValue(fd, v), OneIn(fd, v)
  PROVE  /\ Len(Parts(fd, v)) = Len(Writes(fd, v)) + Len(Calls(fd, v))
         /\ \A k \in 1..Len(Writes(fd, v)) : Parts(fd, v)[k] = Writes(fd, v)[k]
         /\ \A k \in 1..Len(Calls(fd, v)) :
              Parts(fd, v)[Len(Writes(fd, v)) + k] = SubImage(fd.sub, Calls(fd, v)[k])
<1>1. CASE fd.kind \in {"simple", "string", "simple_vec"}
  <2>1. /\ Writes(fd, v) = Parts(fd, v) /\ Calls(fd, v) = << >>
    BY <1>1, PartsSimple, PartsString, PartsSimpleVec
  <2>2. Len(Writes(fd, v)) \in Nat
    BY FieldSteps
  <2> QED BY <2>1, <2>2
<1>2. CASE fd.kind = "struct"
  <2>1. /\ Len(Parts(fd, v)) = 1 /\ Parts(fd, v)[1] = SubImage(fd.sub, v)
        /\ Writes(fd, v) = << >> /\ Calls(fd, v) = <<v>>
    BY <1>2, PartsStruct
  <2>2. PICK w, c : w = << >> /\ c = <<v>>
    OBVIOUS
  <2>3. Len(w) = 0 /\ Len(c) = 1 /\ c[1] = v
    BY <2>2
  <2> QED BY <2>1, <2>2, <2>3
<1>3. CASE fd.kind = "struct_vec"
  <2>1. /\ Len(Parts(fd, v)) = Len(v) + 1
        /\ Parts(fd, v)[1] = ToNet(Len(v), SizeWidth)
        /\ \A i \in 1..Len(v) : Parts(fd, v)[i + 1] = SubImage(fd.sub, v[i])
        /\ Writes(fd, v) = <<ToNet(Len(v), SizeWidth)>>
        /\ v = << >> => Calls(fd, v) = << >>
        /\ v # << >> => Calls(fd, v) = <<v[1]>>
        /\ v \in Seq(Message[fd.sub])
    BY <1>3, PartsStructVec
  <2>2. Len(v) \in Nat /\ Len(v) <= 1 /\ (v = << >> <=> Len(v) = 0)
    BY <1>3, <2>1 DEF OneIn
  <2>3. PICK x : x = ToNet(Len(v), SizeWidth)
    OBVIOUS
  <2>4. PICK w : w = Writes(fd, v)
    OBVIOUS
  <2>5. Len(w) = 1 /\ w[1] = x
    BY <2>1, <2>3, <2>4
  <2>6. CASE v = << >>
    <3>1. Len(Calls(fd, v)) = 0
      BY <2>1, <2>6
    <3> QED BY <2>1, <2>2, <2>3, <2>4, <2>5, <2>6, <3>1
  <2>7. CASE v # << >>
    <3>1. PICK e, c : e = v[1] /\ c = <<e>>
      OBVIOUS
    <3>2. Calls(fd, v) = c /\ Len(c) = 1 /\ c[1] = e
      BY <2>1, <2>7, <3>1
    <3>3. Len(v) = 1 /\ Parts(fd, v)[1 + 1] = SubImage(fd.sub, e)
      BY <2>1, <2>2, <2>7, <3>1
    <3> QED BY <2>1, <2>3, <2>4, <2>5, <3>2, <3>3
  <2> QED BY <2>6, <2>7
<1> QED BY <1>1, <1>2, <1>3, KindCases

-----------------------------------------------------------------------------
(* A place in a message: in front of part s + 1 of field f.                *)

PartsAt(t, m, f) == Parts(Fields[t][f], m[f])

Place(t, m, f, s) ==
  /\ f \in 1..(Len(Fields[t]) + 1) /\ s \in Nat
  /\ f <= Len(Fields[t]) => s < Len(PartsAt(t, m, f))
  /\ f > Len(Fields[t]) => s = 0

\* The bytes in front of it.
Done(t, m, f, s) ==
  Concat(FieldImages(t, m), f - 1) \o
    (IF f <= Len(Fields[t]) THEN Concat(PartsAt(t, m, f), s) ELSE << >>)

\* The parts of a field of a message are strings of bytes.
LEMMA PartsAtSeqs ==
  ASSUME NEW t \in Type, NEW m \in Message[t], NEW f \in 1..Len(Fields[t])
  PROVE  IsSeqs(PartsAt(t, m, f), Byte) /\ Len(PartsAt(t, m, f)) \in Nat \ {0}
<1>1. IsField(Fields[t][f]) /\ IsValue(Fields[t][f], m[f])
  BY MessageOf
<1> QED BY <1>1, FieldSteps DEF PartsAt

\* So are the images of its fields.
LEMMA FieldImagesSeqs ==
  ASSUME NEW t \in Type, NEW m \in Message[t]
  PROVE  /\ IsSeqs(FieldImages(t, m), Byte)
         /\ Len(FieldImages(t, m)) = Len(Fields[t])
         /\ \A f \in 1..Len(Fields[t]) :
              FieldImages(t, m)[f] = Concat(PartsAt(t, m, f), Len(PartsAt(t, m, f)))
<1>1. PICK n \in Nat : n = Len(Fields[t]) /\ DOMAIN m = 1..n
  BY MessageOf
<1>2. FieldImages(t, m) = [f \in 1..n |-> FieldImage(Fields[t][f], m[f])]
  BY <1>1 DEF FieldImages
<1>3. ASSUME NEW f \in 1..n
      PROVE  /\ FieldImage(Fields[t][f], m[f]) =
                  Concat(PartsAt(t, m, f), Len(PartsAt(t, m, f)))
             /\ FieldImage(Fields[t][f], m[f]) \in Seq(Byte)
  <2>1. FieldImage(Fields[t][f], m[f]) =
          Concat(PartsAt(t, m, f), Len(PartsAt(t, m, f)))
    BY DEF FieldImage, PartsAt
  <2>2. PICK ps, k : ps = PartsAt(t, m, f) /\ k = Len(ps)
    OBVIOUS
  <2>3. IsSeqs(ps, Byte) /\ Len(ps) \in Nat
    BY <1>1, <2>2, PartsAtSeqs
  <2>4. k \in 0..Len(ps)
    BY <2>2, <2>3
  <2>5. Concat(ps, k) \in Seq(Byte)
    BY <2>3, <2>4, ConcatStep
  <2> QED BY <2>1, <2>2, <2>5
<1>4. PICK S : S = Seq(Byte)
  OBVIOUS
<1>5. [f \in 1..n |-> FieldImage(Fields[t][f], m[f])] \in Seq(S)
  BY <1>3, <1>4
<1>6. Len([f \in 1..n |-> FieldImage(Fields[t][f], m[f])]) = n
  OBVIOUS
<1>7. \A f \in 1..n : FieldImages(t, m)[f] = FieldImage(Fields[t][f], m[f])
  BY <1>2
<1> QED BY <1>1, <1>2, <1>3, <1>4, <1>5, <1>6, <1>7 DEF IsSeqs

\* The two halves of Done.
LEMMA DoneHalves ==
  ASSUME NEW t \in Type, NEW m \in Message[t], NEW f, NEW s, Place(t, m, f, s)
  PROVE  /\ Len(Fields[t]) \in Nat /\ f \in Nat /\ f - 1 \in 0..Len(Fields[t])
         /\ Concat(FieldImages(t, m), f - 1) \in Seq(Byte)
         /\ f <= Len(Fields[t]) =>
              /\ f \in 1..Len(Fields[t]) /\ s \in 0..Len(PartsAt(t, m, f))
              /\ IsSeqs(PartsAt(t, m, f), Byte)
              /\ Len(PartsAt(t, m, f)) \in Nat \ {0}
              /\ Concat(PartsAt(t, m, f), s) \in Seq(Byte)
              /\ PartsAt(t, m, f)[s + 1] \in Seq(Byte)
         /\ Done(t, m, f, s) \in Seq(Byte)
<1>1. PICK n \in Nat : n = Len(Fields[t])
  BY MessageOf
<1>2. f \in 1..(n + 1) /\ s \in Nat
  BY <1>1 DEF Place
<1>3. f - 1 \in 0..n
  BY <1>2
<1>4. PICK a, k, fi : k = f - 1 /\ a = Concat(fi, k) /\ fi = FieldImages(t, m)
  OBVIOUS
<1>5. a \in Seq(Byte)
  <2>1. IsSeqs(fi, Byte) /\ k \in 0..Len(fi)
    BY <1>1, <1>3, <1>4, FieldImagesSeqs
  <2> QED BY <1>4, <2>1, ConcatStep
<1>6. CASE f <= n
  <2>1. f \in 1..n
    BY <1>2, <1>6
  <2>2. PICK ps : ps = PartsAt(t, m, f)
    OBVIOUS
  <2>3. IsSeqs(ps, Byte) /\ Len(ps) \in Nat \ {0}
    BY <1>1, <2>1, <2>2, PartsAtSeqs
  <2>4. s \in 0..Len(ps) /\ s + 1 \in 1..Len(ps)
    BY <1>1, <1>2, <1>6, <2>2, <2>3 DEF Place
  <2>5. Concat(ps, s) \in Seq(Byte)
    BY <2>3, <2>4, ConcatStep
  <2>6. ps[s + 1] \in Seq(Byte)
    BY <2>3, <2>4 DEF IsSeqs
  <2>7. Done(t, m, f, s) = a \o Concat(ps, s)
    BY <1>1, <1>4, <1>6, <2>2 DEF Done
  <2>8. PICK b : b = Concat(ps, s)
    OBVIOUS
  <2>9. b \in Seq(Byte) /\ a \o b \in Seq(Byte)
    BY <1>5, <2>5, <2>8
  <2>10. Done(t, m, f, s) \in Seq(Byte)
    BY <2>7, <2>8, <2>9
  <2> QED BY <1>1, <1>2, <1>3, <1>4, <1>5, <1>6, <2>1, <2>2, <2>3, <2>4, <2>5,
             <2>6, <2>10
<1>7. CASE ~(f <= n)
  <2>1. Done(t, m, f, s) = a \o << >>
    BY <1>1, <1>4, <1>7 DEF Done
  <2>2. a \o << >> \in Seq(Byte)
    BY <1>5
  <2> QED BY <1>1, <1>2, <1>3, <1>4, <1>5, <1>7, <2>1, <2>2
<1> QED BY <1>6, <1>7

\* Nothing is in front of the first part.
LEMMA DoneFirst ==
  ASSUME NEW t \in Type, NEW m \in Message[t]
  PROVE  Place(t, m, 1, 0) /\ Done(t, m, 1, 0) = << >>
<1>1. PICK n \in Nat : n = Len(Fields[t])
  BY MessageOf
<1>2. 1 <= n => Len(PartsAt(t, m, 1)) \in Nat \ {0} /\ IsSeqs(PartsAt(t, m, 1), Byte)
  <2>1. ASSUME 1 <= n PROVE 1 \in 1..Len(Fields[t])
    BY <1>1, <2>1
  <2> QED BY <2>1, PartsAtSeqs
<1>3. Place(t, m, 1, 0)
  BY <1>1, <1>2 DEF Place
<1>4. Concat(FieldImages(t, m), 0) = << >>
  <2>1. PICK fi : fi = FieldImages(t, m)
    OBVIOUS
  <2>2. IsSeqs(fi, Byte) /\ 0 \in 0..Len(fi)
    BY <1>1, <2>1, FieldImagesSeqs
  <2> QED BY <2>1, <2>2, ConcatStep
<1>5. CASE 1 <= n
  <2>1. PICK ps : ps = PartsAt(t, m, 1)
    OBVIOUS
  <2>2. IsSeqs(ps, Byte) /\ 0 \in 0..Len(ps)
    BY <1>2, <1>5, <2>1
  <2>3. Concat(ps, 0) = << >>
    BY <2>2, ConcatStep
  <2>4. Done(t, m, 1, 0) = << >> \o << >>
    BY <1>1, <1>4, <1>5, <2>1, <2>3 DEF Done
  <2> QED BY <1>3, <2>4
<1>6. CASE ~(1 <= n)
  <2>1. Done(t, m, 1, 0) = << >> \o << >>
    BY <1>1, <1>4, <1>6 DEF Done
  <2> QED BY <1>3, <2>1
<1> QED BY <1>5, <1>6

\* Everything is in front of the end.
LEMMA DoneEnd ==
  ASSUME NEW t \in Type, NEW m \in Message[t], NEW f, NEW s,
         Place(t, m, f, s), f > Len(Fields[t])
  PROVE  Done(t, m, f, s) = Image[t][m]
<1>1. PICK n \in Nat : n = Len(Fields[t])
  BY MessageOf
<1>2. f - 1 = n /\ ~(f <= n)
  BY <1>1 DEF Place
<1>3. PICK im : im = Image[t][m]
  OBVIOUS
<1>4. im \in Seq(Byte) /\ im = Concat(FieldImages(t, m), f - 1)
  BY <1>1, <1>2, <1>3, MessageOf
<1>5. Done(t, m, f, s) = im \o << >>
  BY <1>1, <1>2, <1>4 DEF Done
<1> QED BY <1>3, <1>4, <1>5

\* One part further.
NextField(t, m, f, s) == IF s + 1 = Len(PartsAt(t, m, f)) THEN f + 1 ELSE f
NextStep(t, m, f, s) == IF s + 1 = Len(PartsAt(t, m, f)) THEN 0 ELSE s + 1

\* Strings can be joined in any grouping.
LEMMA ConcatAssoc ==
  ASSUME NEW S, NEW a \in Seq(S), NEW b \in Seq(S), NEW c \in Seq(S)
  PROVE  (a \o b) \o c = a \o (b \o c) /\ a \o << >> = a /\ << >> \o a = a
  OBVIOUS

\* The next part in front of the next place.
LEMMA DoneNext ==
  ASSUME NEW t \in Type, NEW m \in Message[t], NEW f, NEW s,
         Place(t, m, f, s), f <= Len(Fields[t])
  PROVE  /\ Place(t, m, NextField(t, m, f, s), NextStep(t, m, f, s))
         /\ Done(t, m, NextField(t, m, f, s), NextStep(t, m, f, s)) =
              Done(t, m, f, s) \o PartsAt(t, m, f)[s + 1]
<1>1. PICK n \in Nat : n = Len(Fields[t])
  BY MessageOf
<1>2. PICK ps, fi : ps = PartsAt(t, m, f) /\ fi = FieldImages(t, m)
  OBVIOUS
<1>3. /\ f \in 1..n /\ s \in Nat /\ s < Len(ps) /\ s + 1 \in 0..Len(ps)
      /\ s \in 0..Len(ps) /\ IsSeqs(ps, Byte) /\ Len(ps) \in Nat \ {0}
      /\ Concat(fi, f - 1) \in Seq(Byte) /\ Concat(ps, s) \in Seq(Byte)
      /\ ps[s + 1] \in Seq(Byte)
  <2>1. s \in Nat /\ s < Len(ps)
    BY <1>2 DEF Place
  <2>2. /\ f \in 1..n /\ s \in 0..Len(ps) /\ IsSeqs(ps, Byte)
        /\ Len(ps) \in Nat \ {0}
        /\ Concat(fi, f - 1) \in Seq(Byte) /\ Concat(ps, s) \in Seq(Byte)
        /\ ps[s + 1] \in Seq(Byte)
    BY <1>1, <1>2, DoneHalves
  <2> QED BY <2>1, <2>2
<1>4. PICK a, b, c : a = Concat(fi, f - 1) /\ b = Concat(ps, s) /\ c = ps[s + 1]
  OBVIOUS
<1>5. a \in Seq(Byte) /\ b \in Seq(Byte) /\ c \in Seq(Byte)
  BY <1>3, <1>4
<1>6. Concat(ps, s + 1) = b \o c
  <2>1. PICK k : k = s + 1
    OBVIOUS
  <2>2. k \in 0..Len(ps) /\ k > 0 /\ k - 1 = s
    BY <1>3, <2>1
  <2>3. Concat(ps, k) = Concat(ps, k - 1) \o ps[k]
    BY <1>3, <2>2, ConcatStep
  <2> QED BY <1>4, <2>1, <2>2, <2>3
<1>7. Done(t, m, f, s) = a \o b
  BY <1>2, <1>4 DEF Done
<1>8. (a \o b) \o c = a \o (b \o c)
  BY <1>5, ConcatAssoc
<1>9. CASE s + 1 # Len(ps)
  <2>1. NextField(t, m, f, s) = f /\ NextStep(t, m, f, s) = s + 1
    BY <1>2, <1>9 DEF NextField, NextStep
  <2>2. Place(t, m, f, s + 1)
    BY <1>1, <1>2, <1>3, <1>9 DEF Place
  <2>3. Done(t, m, f, s + 1) = a \o (b \o c)
    BY <1>2, <1>4, <1>6 DEF Done
  <2> QED BY <1>2, <1>4, <1>7, <1>8, <2>1, <2>2, <2>3
<1>10. CASE s + 1 = Len(ps)
  <2>1. NextField(t, m, f, s) = f + 1 /\ NextStep(t, m, f, s) = 0
    BY <1>2, <1>10 DEF NextField, NextStep
  <2>2. f + 1 <= n => /\ IsSeqs(PartsAt(t, m, f + 1), Byte)
                      /\ Len(PartsAt(t, m, f + 1)) \in Nat \ {0}
    <3> SUFFICES ASSUME f + 1 <= n
                 PROVE  /\ IsSeqs(PartsAt(t, m, f + 1), Byte)
                        /\ Len(PartsAt(t, m, f + 1)) \in Nat \ {0}
      OBVIOUS
    <3>1. PICK g : g = f + 1
      OBVIOUS
    <3>2. g \in 1..Len(Fields[t])
      BY <1>1, <1>3, <3>1
    <3> QED BY <3>1, <3>2, PartsAtSeqs
  <2>3. Place(t, m, f + 1, 0)
    BY <1>1, <1>3, <2>2 DEF Place
  <2>4. Concat(fi, f) = a \o (b \o c)
    <3>1. IsSeqs(fi, Byte) /\ f \in 0..Len(fi) /\ f > 0
      BY <1>1, <1>2, <1>3, FieldImagesSeqs
    <3>2. Concat(fi, f) = Concat(fi, f - 1) \o fi[f]
      BY <3>1, ConcatStep
    <3>3. fi[f] = Concat(ps, Len(ps))
      BY <1>1, <1>2, <1>3, FieldImagesSeqs
    <3>4. fi[f] = b \o c
      BY <1>6, <1>10, <3>3
    <3> QED BY <1>4, <3>2, <3>4
  <2>5. b \o c \in Seq(Byte) /\ a \o (b \o c) \in Seq(Byte)
    BY <1>5
  <2>6. PICK d : d = a \o (b \o c)
    OBVIOUS
  <2>7. d \in Seq(Byte) /\ d \o << >> = d
    BY <2>5, <2>6
  <2>8. (f + 1) - 1 = f
    BY <1>3
  <2>9. Done(t, m, f + 1, 0) = d \o << >>
    <3>1. CASE f + 1 <= n
      <4>1. PICK qs : qs = PartsAt(t, m, f + 1)
        OBVIOUS
      <4>2. IsSeqs(qs, Byte) /\ 0 \in 0..Len(qs)
        BY <2>2, <3>1, <4>1
      <4>3. Concat(qs, 0) = << >>
        BY <4>2, ConcatStep
      <4> QED BY <1>1, <1>2, <2>4, <2>6, <2>8, <3>1, <4>1, <4>3 DEF Done
    <3>2. CASE ~(f + 1 <= n)
      BY <1>1, <1>2, <2>4, <2>6, <2>8, <3>2 DEF Done
    <3> QED BY <3>1, <3>2
  <2> QED BY <1>2, <1>4, <1>7, <1>8, <2>1, <2>3, <2>6, <2>7, <2>9
<1> QED BY <1>9, <1>10

\* What is in front of a place, with the next part, begins the image.
LEMMA DoneStarts ==
  ASSUME NEW t \in Type, NEW m \in Message[t], NEW f, NEW s,
         Place(t, m, f, s), f <= Len(Fields[t])
  PROVE  Starts(Image[t][m], Done(t, m, f, s) \o PartsAt(t, m, f)[s + 1])
<1>1. PICK n \in Nat : n = Len(Fields[t])
  BY MessageOf
<1>2. PICK ps, fi : ps = PartsAt(t, m, f) /\ fi = FieldImages(t, m)
  OBVIOUS
<1>3. /\ f \in 1..n /\ s \in Nat /\ s < Len(ps) /\ s + 1 \in 0..Len(ps)
      /\ s \in 0..Len(ps) /\ IsSeqs(ps, Byte) /\ Len(ps) \in Nat \ {0}
      /\ Concat(fi, f - 1) \in Seq(Byte) /\ Concat(ps, s) \in Seq(Byte)
      /\ ps[s + 1] \in Seq(Byte)
  <2>1. s \in Nat /\ s < Len(ps)
    BY <1>2 DEF Place
  <2>2. /\ f \in 1..n /\ s \in 0..Len(ps) /\ IsSeqs(ps, Byte)
        /\ Len(ps) \in Nat \ {0}
        /\ Concat(fi, f - 1) \in Seq(Byte) /\ Concat(ps, s) \in Seq(Byte)
        /\ ps[s + 1] \in Seq(Byte)
    BY <1>1, <1>2, DoneHalves
  <2> QED BY <2>1, <2>2
<1>4. PICK a, b, c, k : /\ a = Concat(fi, f - 1) /\ b = Concat(ps, s)
                        /\ c = ps[s + 1] /\ k = s + 1
  OBVIOUS
<1>5. a \in Seq(Byte) /\ b \in Seq(Byte) /\ c \in Seq(Byte)
  BY <1>3, <1>4
<1>6. Concat(ps, k) = b \o c
  <2>1. k \in 0..Len(ps) /\ k > 0 /\ k - 1 = s
    BY <1>3, <1>4
  <2>2. Concat(ps, k) = Concat(ps, k - 1) \o ps[k]
    BY <1>3, <2>1, ConcatStep
  <2> QED BY <1>4, <2>1, <2>2
<1>7. Done(t, m, f, s) \o ps[s + 1] = a \o (b \o c)
  <2>1. Done(t, m, f, s) = a \o b
    BY <1>2, <1>4 DEF Done
  <2>2. (a \o b) \o c = a \o (b \o c)
    BY <1>5, ConcatAssoc
  <2> QED BY <1>4, <2>1, <2>2
<1>8. PICK e, d : e = b \o c /\ d = Concat(ps, Len(ps))
  OBVIOUS
<1>9. e \in Seq(Byte) /\ d \in Seq(Byte) /\ Starts(d, e)
  <2>1. k \in 0..Len(ps)
    BY <1>3, <1>4
  <2>2. Starts(d, Concat(ps, k))
    BY <1>3, <1>8, <2>1, ConcatStarts
  <2>3. PICK j : j = Len(ps)
    OBVIOUS
  <2>4. j \in 0..Len(ps)
    BY <1>3, <2>3
  <2>5. Concat(ps, j) \in Seq(Byte)
    BY <1>3, <2>4, ConcatStep
  <2>6. b \o c \in Seq(Byte)
    BY <1>5
  <2> QED BY <1>6, <1>8, <2>2, <2>3, <2>5, <2>6
<1>10. Starts(a \o d, a \o e)
  BY <1>5, <1>9, StartsMore
<1>11. a \o d = Concat(fi, f)
  <2>1. IsSeqs(fi, Byte) /\ f \in 0..Len(fi) /\ f > 0
    BY <1>1, <1>2, <1>3, FieldImagesSeqs
  <2>2. Concat(fi, f) = Concat(fi, f - 1) \o fi[f]
    BY <2>1, ConcatStep
  <2>3. fi[f] = d
    BY <1>1, <1>2, <1>3, <1>8, FieldImagesSeqs
  <2> QED BY <1>4, <2>2, <2>3
<1>12. PICK im : im = Image[t][m]
  OBVIOUS
<1>13. im \in Seq(Byte) /\ Starts(im, Concat(fi, f))
  <2>1. IsSeqs(fi, Byte) /\ f \in 0..Len(fi) /\ Len(fi) = n
    BY <1>1, <1>2, <1>3, FieldImagesSeqs
  <2>2. Starts(Concat(fi, Len(fi)), Concat(fi, f))
    BY <2>1, ConcatStarts
  <2> QED BY <1>1, <1>2, <1>12, <2>1, <2>2, MessageOf
<1>14. PICK x, y : x = a \o e /\ y = a \o d
  OBVIOUS
<1>15. x \in Seq(Byte) /\ y \in Seq(Byte) /\ Starts(y, x) /\ Starts(im, y)
  <2>1. a \o e \in Seq(Byte) /\ a \o d \in Seq(Byte)
    BY <1>5, <1>9
  <2> QED BY <1>10, <1>11, <1>13, <1>14, <2>1
<1>16. Starts(im, x)
  BY <1>13, <1>15, StartsTrans
<1> QED BY <1>2, <1>7, <1>8, <1>12, <1>14, <1>16

-----------------------------------------------------------------------------
(* Memory and the stack.                                                   *)

\* The bytes s are at b of the memory, as far as they are below r.
Holds(mm, b, s, r) == \A j \in 1..Len(s) : b + j - 1 < r => mm[b + j - 1] = s[j]

PutIn(mm, at, bytes) ==
  [i \in DOMAIN mm |->
     IF i \in at..(at + Len(bytes) - 1) THEN bytes[i - at + 1] ELSE mm[i]]

TakeFrom(mm, at, n) ==
  [i \in 1..n |-> IF at + i - 1 \in DOMAIN mm THEN mm[at + i - 1] ELSE 0]

\* Memory that holds a string holds its start.
LEMMA HoldsStart ==
  ASSUME NEW mm, NEW b, NEW r, NEW S, NEW s \in Seq(S), NEW p \in Seq(S),
         Starts(s, p), Holds(mm, b, s, r)
  PROVE  Holds(mm, b, p, r)
<1>1. \A j \in 1..Len(p) : j \in 1..Len(s) /\ s[j] = p[j]
  BY DEF Starts
<1> QED BY <1>1 DEF Holds

\* Memory holds two joined strings when it holds each in its place.
LEMMA HoldsConcat ==
  ASSUME NEW mm, NEW b \in Nat, NEW r \in Nat, NEW S,
         NEW p \in Seq(S), NEW q \in Seq(S)
  PROVE  Holds(mm, b, p \o q, r) <=> Holds(mm, b, p, r) /\ Holds(mm, b + Len(p), q, r)
<1>1. Len(p \o q) = Len(p) + Len(q) /\ Len(p) \in Nat /\ Len(q) \in Nat
  OBVIOUS
<1>2. PICK s : s = p \o q
  OBVIOUS
<1>3. Starts(s, p)
  BY <1>2, StartsLess
<1>4. \A j \in 1..Len(q) : s[Len(p) + j] = q[j]
  BY <1>2, ConcatBehind
<1>5. ASSUME Holds(mm, b, s, r) PROVE Holds(mm, b, p, r) /\ Holds(mm, b + Len(p), q, r)
  <2>1. s \in Seq(S)
    BY <1>2
  <2>2. Holds(mm, b, p, r)
    BY <1>3, <1>5, <2>1, HoldsStart
  <2>3. ASSUME NEW j \in 1..Len(q), (b + Len(p)) + j - 1 < r
        PROVE  mm[(b + Len(p)) + j - 1] = q[j]
    <3>1. PICK k : k = Len(p) + j
      OBVIOUS
    <3>2. k \in 1..Len(s) /\ (b + Len(p)) + j - 1 = b + k - 1
      BY <1>1, <1>2, <3>1
    <3>3. mm[b + k - 1] = s[k]
      BY <1>5, <2>3, <3>2 DEF Holds
    <3> QED BY <1>4, <3>1, <3>2, <3>3
  <2> QED BY <2>2, <2>3 DEF Holds
<1>6. ASSUME Holds(mm, b, p, r), Holds(mm, b + Len(p), q, r) PROVE Holds(mm, b, s, r)
  <2> SUFFICES ASSUME NEW j \in 1..Len(s), b + j - 1 < r
               PROVE  mm[b + j - 1] = s[j]
    BY DEF Holds
  <2>1. CASE j <= Len(p)
    <3>1. j \in 1..Len(p) /\ s[j] = p[j]
      BY <1>1, <1>2, <1>3, <2>1 DEF Starts
    <3> QED BY <1>6, <3>1 DEF Holds
  <2>2. CASE ~(j <= Len(p))
    <3>1. PICK k : k = j - Len(p)
      OBVIOUS
    <3>2. k \in 1..Len(q) /\ Len(p) + k = j /\ (b + Len(p)) + k - 1 = b + j - 1
      BY <1>1, <1>2, <2>2, <3>1
    <3>3. mm[(b + Len(p)) + k - 1] = q[k]
      BY <1>6, <3>2 DEF Holds
    <3> QED BY <1>4, <3>2, <3>3
  <2> QED BY <2>1, <2>2
<1> QED BY <1>2, <1>5, <1>6

\* What a Write leaves.
LEMMA PutInHolds ==
  ASSUME NEW n \in Nat, NEW mm \in [0..(n - 1) -> Byte], NEW at \in Nat,
         NEW bytes \in Seq(Byte)
  PROVE  /\ PutIn(mm, at, bytes) \in [0..(n - 1) -> Byte]
         /\ Holds(PutIn(mm, at, bytes), at, bytes, n)
<1>1. ASSUME NEW i \in 0..(n - 1), i \in at..(at + Len(bytes) - 1)
      PROVE  bytes[i - at + 1] \in Byte
  <2>1. i - at + 1 \in 1..Len(bytes)
    BY <1>1
  <2> QED BY <2>1
<1>2. PutIn(mm, at, bytes) \in [0..(n - 1) -> Byte]
  BY <1>1 DEF PutIn
<1>3. ASSUME NEW j \in 1..Len(bytes), at + j - 1 < n
      PROVE  PutIn(mm, at, bytes)[at + j - 1] = bytes[j]
  <2>1. PICK i : i = at + j - 1
    OBVIOUS
  <2>2. i \in 0..(n - 1) /\ i \in at..(at + Len(bytes) - 1) /\ i - at + 1 = j
    BY <1>3, <2>1
  <2>3. PutIn(mm, at, bytes)[i] = bytes[i - at + 1]
    BY <2>2 DEF PutIn
  <2> QED BY <2>1, <2>2, <2>3
<1> QED BY <1>2, <1>3 DEF Holds

\* What it does not touch.
LEMMA PutInKeeps ==
  ASSUME NEW n \in Nat, NEW mm \in [0..(n - 1) -> Byte], NEW at \in Nat,
         NEW bytes \in Seq(Byte), NEW b \in Nat, NEW s \in Seq(Byte),
         b + Len(s) <= at \/ at + Len(bytes) <= b, Holds(mm, b, s, n)
  PROVE  Holds(PutIn(mm, at, bytes), b, s, n)
<1> SUFFICES ASSUME NEW j \in 1..Len(s), b + j - 1 < n
             PROVE  PutIn(mm, at, bytes)[b + j - 1] = s[j]
  BY DEF Holds
<1>1. PICK i : i = b + j - 1
  OBVIOUS
<1>2. i \in 0..(n - 1) /\ i \notin at..(at + Len(bytes) - 1)
  BY <1>1
<1>3. PutIn(mm, at, bytes)[i] = mm[i]
  BY <1>2 DEF PutIn
<1>4. mm[i] = s[j]
  BY <1>1 DEF Holds
<1> QED BY <1>1, <1>3, <1>4

\* What a Read gets.
LEMMA TakeFromBytes ==
  ASSUME NEW n \in Nat, NEW mm \in [0..(n - 1) -> Byte], NEW at \in Nat, NEW k \in Nat
  PROVE  TakeFrom(mm, at, k) \in Seq(Byte) /\ Len(TakeFrom(mm, at, k)) = k
<1>1. 0 \in Byte
  BY BaseNat DEF Byte
<1>2. \A i \in 1..k :
        (IF at + i - 1 \in DOMAIN mm THEN mm[at + i - 1] ELSE 0) \in Byte
  BY <1>1
<1> QED BY <1>2 DEF TakeFrom

\* A Read of a string that memory holds gets the string.
LEMMA TakeFromHeld ==
  ASSUME NEW n \in Nat, NEW mm \in [0..(n - 1) -> Byte], NEW at \in Nat,
         NEW s \in Seq(Byte), NEW r \in Nat, Holds(mm, at, s, r),
         at + Len(s) <= r, r <= n
  PROVE  TakeFrom(mm, at, Len(s)) = s
<1>1. PICK k \in Nat : k = Len(s)
  OBVIOUS
<1>2. ASSUME NEW i \in 1..k PROVE TakeFrom(mm, at, k)[i] = s[i]
  <2>1. PICK x : x = at + i - 1
    OBVIOUS
  <2>2. x \in DOMAIN mm /\ x < r
    BY <1>1, <2>1
  <2>3. TakeFrom(mm, at, k)[i] = mm[x]
    BY <2>1, <2>2 DEF TakeFrom
  <2>4. mm[x] = s[i]
    BY <1>1, <2>1, <2>2 DEF Holds
  <2> QED BY <2>3, <2>4
<1>3. PICK u : u = TakeFrom(mm, at, k)
  OBVIOUS
<1>4. u \in Seq(Byte) /\ Len(u) = k
  BY <1>3, TakeFromBytes
<1>5. \A i \in 1..k : u[i] = s[i]
  BY <1>2, <1>3
<1>6. u = s
  BY <1>1, <1>4, <1>5
<1> QED BY <1>1, <1>3, <1>6

\* The first k frames of the stack, and one more.
Onto(st, k, e) == Append(SubSeq(st, 1, k), e)
Pushed(st, e) == Append(st, e)

\* The stack on which the first k calls stay and another one follows.
LEMMA StackKeep ==
  ASSUME NEW st, IsList(st), NEW k \in 0..Len(st), NEW e, NEW r,
         r = Onto(st, k, e)
  PROVE  /\ IsList(r) /\ Len(r) = k + 1 /\ r[k + 1] = e
         /\ \A i \in 1..k : r[i] = st[i]
<1>1. PICK S : st \in Seq(S)
  BY DEF IsList
<1>2. k \in Nat /\ k <= Len(st) /\ Len(st) \in Nat
  BY <1>1
<1>3. PICK h : h = SubSeq(st, 1, k)
  OBVIOUS
<1>4. h \in Seq(S) /\ Len(h) = k /\ \A i \in 1..k : h[i] = st[i]
  BY <1>1, <1>2, <1>3
<1>5. IsList(h)
  BY <1>4, ListOf
<1>6. /\ IsList(Append(h, e)) /\ Len(Append(h, e)) = Len(h) + 1
      /\ \A i \in 1..Len(h) : Append(h, e)[i] = h[i]
      /\ Append(h, e)[Len(h) + 1] = e
  BY <1>5, ListAppend
<1> QED BY <1>3, <1>4, <1>6 DEF Onto

-----------------------------------------------------------------------------
(* The frames of Encode.                                                   *)

\* A frame has these fields.
EncShape(f) ==
  f = [type |-> f.type, msg |-> f.msg, base |-> f.base, len |-> f.len,
       pos |-> f.pos, field |-> f.field, step |-> f.step]

\* A call of Encode with a buffer that ends where the caller's ends.
EncF(f, rm) ==
  /\ EncShape(f) /\ f.type \in Type /\ f.msg \in Message[f.type]
  /\ f.base \in Nat /\ f.pos \in Nat /\ f.len \in Int /\ f.base + f.len = rm
  /\ f.field \in 1..(Len(Fields[f.type]) + 1) /\ f.step \in Nat
  /\ ~AtEnd(f) => f.step < NWrites(f) + NCalls(f)
  /\ AtEnd(f) => f.step = 0

\* g is the call that f waits for.
EncNest(f, g) ==
  /\ ~AtEnd(f) /\ f.step >= NWrites(f)
  /\ g.type = FieldOf(f).sub
  /\ g.msg = Calls(FieldOf(f), Value(f))[f.step - NWrites(f) + 1]
  /\ g.base = f.base + f.pos + SizeWidth

\* The calls work one behind the other.
Ordered(st) ==
  \A i \in 1..Len(st), j \in 1..Len(st) :
    i < j => st[j].base >= st[i].base + st[i].pos

EncStack(st, m, rm) ==
  /\ IsList(st) /\ Len(st) \in Nat \ {0}
  /\ st[1].type = Root /\ st[1].msg = m /\ st[1].base = 0
  /\ \A i \in 1..Len(st) : EncF(st[i], rm)
  /\ \A i \in 1..(Len(st) - 1) : EncNest(st[i], st[i + 1])
  /\ Ordered(st)

\* The field at which a frame is, and what its template does with it.
LEMMA AtField ==
  ASSUME NEW f, NEW rm, EncF(f, rm), ~AtEnd(f)
  PROVE  /\ f.field \in 1..Len(Fields[f.type])
         /\ IsField(FieldOf(f)) /\ IsValue(FieldOf(f), Value(f))
         /\ IsSeqs(Writes(FieldOf(f), Value(f)), Byte)
         /\ NWrites(f) \in Nat /\ NCalls(f) \in Nat
         /\ \A k \in 1..NCalls(f) :
              /\ FieldOf(f).kind \in {"struct", "struct_vec"}
              /\ FieldOf(f).sub \in Type
              /\ Calls(FieldOf(f), Value(f))[k] \in Message[FieldOf(f).sub]
<1>1. PICK t, m, k, n : /\ t = f.type /\ m = f.msg /\ k = f.field
                        /\ n = Len(Fields[t])
  OBVIOUS
<1>2. t \in Type /\ m \in Message[t] /\ k \in 1..(n + 1) /\ ~(k > n)
  BY <1>1 DEF EncF, AtEnd
<1>3. n \in Nat
  BY <1>1, <1>2, MessageOf
<1>4. k \in 1..n
  BY <1>2, <1>3
<1>5. PICK fd, v : fd = Fields[t][k] /\ v = m[k]
  OBVIOUS
<1>6. IsField(fd) /\ IsValue(fd, v)
  BY <1>1, <1>2, <1>4, <1>5, MessageOf
<1>7. fd = FieldOf(f) /\ v = Value(f)
  BY <1>1, <1>5 DEF FieldOf, Value
<1>8. /\ IsSeqs(Writes(fd, v), Byte)
      /\ Len(Writes(fd, v)) \in Nat /\ Len(Calls(fd, v)) \in Nat
      /\ \A i \in 1..Len(Calls(fd, v)) :
           /\ fd.kind \in {"struct", "struct_vec"} /\ fd.sub \in Type
           /\ Calls(fd, v)[i] \in Message[fd.sub]
  BY <1>6, FieldSteps
<1> QED BY <1>1, <1>4, <1>6, <1>7, <1>8 DEF NWrites, NCalls

\* A call that begins.
EndsAt(b, n, rm) == b \in Nat /\ n \in Int /\ b + n = rm

\* The frame of an Encode that begins.
LEMMA EncodeFrameOf ==
  ASSUME NEW t \in Type, NEW m \in Message[t], NEW b, NEW n, NEW rm,
         EndsAt(b, n, rm), NEW f, f = EncodeFrame(t, m, b, n)
  PROVE  /\ EncF(f, rm) /\ f.type = t /\ f.msg = m /\ f.base = b /\ f.len = n
         /\ f.pos = 0 /\ f.field = 1 /\ f.step = 0
<1>1. /\ EncShape(f) /\ f.type = t /\ f.msg = m /\ f.base = b /\ f.len = n
      /\ f.pos = 0 /\ f.field = 1 /\ f.step = 0
  BY DEF EncodeFrame, EncShape
<1>2. Len(Fields[t]) \in Nat
  BY MessageOf
<1>3. ASSUME ~AtEnd(f) PROVE 0 < NWrites(f) + NCalls(f)
  <2>1. 1 \in 1..Len(Fields[t])
    BY <1>1, <1>2, <1>3 DEF AtEnd
  <2>2. IsField(Fields[t][1]) /\ IsValue(Fields[t][1], m[1])
    BY <2>1, MessageOf
  <2>3. PICK fd, v : fd = Fields[t][1] /\ v = m[1]
    OBVIOUS
  <2>4. Len(Writes(fd, v)) + Len(Calls(fd, v)) > 0
    /\ Len(Writes(fd, v)) \in Nat /\ Len(Calls(fd, v)) \in Nat
    BY <2>2, <2>3, FieldSteps
  <2>5. NWrites(f) = Len(Writes(fd, v)) /\ NCalls(f) = Len(Calls(fd, v))
    BY <1>1, <2>3 DEF NWrites, NCalls, FieldOf, Value
  <2> QED BY <2>4, <2>5
<1> QED BY <1>1, <1>2, <1>3 DEF EncF, EndsAt

\* A call that goes on after one of its steps.
LEMMA StepDoneOf ==
  ASSUME NEW f, NEW rm, EncF(f, rm), ~AtEnd(f), NEW p \in Nat,
         NEW g, g = StepDone([f EXCEPT !.pos = p])
  PROVE  /\ EncF(g, rm) /\ g.type = f.type /\ g.msg = f.msg /\ g.base = f.base
         /\ g.len = f.len /\ g.pos = p
         /\ IF f.step + 1 = NWrites(f) + NCalls(f)
            THEN g.field = f.field + 1 /\ g.step = 0
            ELSE g.field = f.field /\ g.step = f.step + 1
<1>1. PICK h : h = [f EXCEPT !.pos = p]
  OBVIOUS
<1>2. EncShape(f)
  BY DEF EncF
<1>3. /\ EncShape(h) /\ h.type = f.type /\ h.msg = f.msg /\ h.base = f.base
      /\ h.len = f.len /\ h.pos = p /\ h.field = f.field /\ h.step = f.step
  BY <1>1, <1>2 DEF EncShape
<1>4. NWrites(h) = NWrites(f) /\ NCalls(h) = NCalls(f)
  BY <1>3 DEF NWrites, NCalls, FieldOf, Value
<1>5. /\ f.field \in 1..Len(Fields[f.type]) /\ NWrites(f) \in Nat /\ NCalls(f) \in Nat
  BY AtField
<1>6. /\ f.step \in Nat /\ f.step < NWrites(f) + NCalls(f)
      /\ f.type \in Type /\ f.msg \in Message[f.type] /\ f.base \in Nat
      /\ f.len \in Int /\ f.base + f.len = rm
  BY DEF EncF
<1>7. CASE f.step + 1 = NWrites(f) + NCalls(f)
  <2>1. g = [h EXCEPT !.step = 0, !.field = @ + 1]
    BY <1>1, <1>3, <1>4, <1>7 DEF StepDone
  <2>2. /\ EncShape(g) /\ g.type = f.type /\ g.msg = f.msg /\ g.base = f.base
        /\ g.len = f.len /\ g.pos = p /\ g.field = f.field + 1 /\ g.step = 0
    BY <1>3, <2>1 DEF EncShape
  <2>3. PICK t, m, k, n : /\ t = f.type /\ m = f.msg /\ k = f.field + 1
                          /\ n = Len(Fields[t])
    OBVIOUS
  <2>4. n \in Nat /\ k \in 1..(n + 1)
    BY <1>5, <1>6, <2>3, MessageOf, SMTT(30)
  <2>5. ASSUME ~AtEnd(g) PROVE 0 < NWrites(g) + NCalls(g)
    <3>1. k \in 1..n
      BY <2>2, <2>3, <2>4, <2>5 DEF AtEnd
    <3>2. PICK fd, v : fd = Fields[t][k] /\ v = m[k]
      OBVIOUS
    <3>3. IsField(fd) /\ IsValue(fd, v)
      BY <1>6, <2>3, <3>1, <3>2, MessageOf
    <3>4. Len(Writes(fd, v)) + Len(Calls(fd, v)) > 0
      /\ Len(Writes(fd, v)) \in Nat /\ Len(Calls(fd, v)) \in Nat
      BY <3>3, FieldSteps
    <3>5. NWrites(g) = Len(Writes(fd, v)) /\ NCalls(g) = Len(Calls(fd, v))
      BY <2>2, <2>3, <3>2 DEF NWrites, NCalls, FieldOf, Value
    <3> QED BY <3>4, <3>5
  <2> QED BY <1>6, <1>7, <2>2, <2>3, <2>4, <2>5, SMTT(30) DEF EncF
<1>8. CASE f.step + 1 # NWrites(f) + NCalls(f)
  <2>1. g = [h EXCEPT !.step = @ + 1]
    BY <1>1, <1>3, <1>4, <1>8 DEF StepDone
  <2>2. /\ EncShape(g) /\ g.type = f.type /\ g.msg = f.msg /\ g.base = f.base
        /\ g.len = f.len /\ g.pos = p /\ g.field = f.field /\ g.step = f.step + 1
    BY <1>3, <2>1 DEF EncShape
  <2>3. NWrites(g) = NWrites(f) /\ NCalls(g) = NCalls(f) /\ ~AtEnd(g)
    BY <2>2 DEF NWrites, NCalls, FieldOf, Value, AtEnd
  <2>4. g.step < NWrites(g) + NCalls(g) /\ g.step \in Nat
    BY <1>5, <1>6, <1>8, <2>2, <2>3
  <2>5. g.field \in 1..(Len(Fields[g.type]) + 1)
    BY <2>2 DEF EncF
  <2> QED BY <1>6, <1>8, <2>2, <2>3, <2>4, <2>5 DEF EncF
<1> QED BY <1>7, <1>8

\* The frames below k, and one instead of k.
LEMMA OrderedKeep ==
  ASSUME NEW st, IsList(st), Ordered(st), NEW k \in 1..Len(st), NEW e, NEW r,
         r = Onto(st, k - 1, e), e.base = st[k].base
  PROVE  /\ IsList(r) /\ Len(r) = k /\ r[k] = e /\ Ordered(r)
         /\ \A i \in 1..(k - 1) : r[i] = st[i]
<1>1. Len(st) \in Nat
  BY LenProperties DEF IsList
<1>2. PICK j : j = k - 1
  OBVIOUS
<1>3. j \in 0..Len(st) /\ j + 1 = k /\ r = Onto(st, j, e)
  BY <1>1, <1>2
<1>4. /\ IsList(r) /\ Len(r) = j + 1 /\ r[j + 1] = e
      /\ \A i \in 1..j : r[i] = st[i]
  BY <1>3, StackKeep
<1>5. /\ IsList(r) /\ Len(r) = k /\ r[k] = e /\ \A i \in 1..(k - 1) : r[i] = st[i]
  BY <1>2, <1>3, <1>4
<1>6. ASSUME NEW a \in 1..k, NEW b \in 1..k, a < b
      PROVE  r[b].base >= r[a].base + r[a].pos
  <2>1. a \in 1..(k - 1) /\ a \in 1..Len(st) /\ b \in 1..Len(st)
    BY <1>1, <1>6
  <2>2. r[a] = st[a] /\ r[b].base = st[b].base
    <3>1. CASE b = k
      BY <1>5, <2>1, <3>1
    <3>2. CASE b # k
      <4>1. b \in 1..(k - 1)
        BY <3>2
      <4> QED BY <1>5, <2>1, <4>1
    <3> QED BY <3>1, <3>2
  <2> QED BY <1>6, <2>1, <2>2 DEF Ordered
<1> QED BY <1>5, <1>6 DEF Ordered

\* The bytes of the calls stay in their order when a call begins.
LEMMA OrderedPush ==
  ASSUME NEW st, IsList(st), Ordered(st), Len(st) \in Nat \ {0},
         \A i \in 1..Len(st) : st[i].base \in Nat /\ st[i].pos \in Nat,
         NEW e, e.base \in Nat, e.base >= st[Len(st)].base + st[Len(st)].pos,
         NEW r, r = Pushed(st, e)
  PROVE  /\ IsList(r) /\ Len(r) = Len(st) + 1 /\ r[Len(st) + 1] = e /\ Ordered(r)
         /\ \A i \in 1..Len(st) : r[i] = st[i]
<1>1. PICK n \in Nat \ {0} : n = Len(st)
  OBVIOUS
<1>2. /\ IsList(r) /\ Len(r) = n + 1 /\ r[n + 1] = e
      /\ \A i \in 1..n : r[i] = st[i]
  BY <1>1, ListAppend DEF Pushed
<1>3. ASSUME NEW a \in 1..(n + 1), NEW b \in 1..(n + 1), a < b
      PROVE  r[b].base >= r[a].base + r[a].pos
  <2>1. a \in 1..n /\ r[a] = st[a] /\ st[a].base \in Nat /\ st[a].pos \in Nat
    BY <1>1, <1>2, <1>3
  <2>2. CASE b = n + 1
    <3>1. r[b] = e
      BY <1>2, <2>2
    <3>2. n \in 1..n /\ st[n].base \in Nat /\ st[n].pos \in Nat
      BY <1>1
    <3>3. a # n => st[n].base >= st[a].base + st[a].pos
      <4>1. a # n => a < n
        BY <2>1
      <4> QED BY <1>1, <2>1, <3>2, <4>1 DEF Ordered
    <3>4. CASE a = n
      BY <1>1, <2>1, <3>1, <3>4
    <3>5. CASE a # n
      BY <1>1, <2>1, <3>1, <3>2, <3>3, <3>5, SMTT(30)
    <3> QED BY <3>4, <3>5
  <2>3. CASE b # n + 1
    <3>1. b \in 1..n /\ r[b] = st[b]
      BY <1>2, <2>3
    <3> QED BY <1>1, <1>3, <2>1, <3>1 DEF Ordered
  <2> QED BY <2>2, <2>3
<1> QED BY <1>1, <1>2, <1>3 DEF Ordered

\* The call at k of Encode has gone on, and is the innermost one.
LEMMA EncKeep ==
  ASSUME NEW st, NEW m, NEW rm, EncStack(st, m, rm), NEW k \in 1..Len(st),
         NEW e, EncF(e, rm), e.type = st[k].type, e.msg = st[k].msg,
         e.base = st[k].base, NEW r, r = Onto(st, k - 1, e)
  PROVE  /\ EncStack(r, m, rm) /\ Len(r) = k /\ r[k] = e
         /\ \A i \in 1..(k - 1) : r[i] = st[i]
<1>1. IsList(st) /\ Ordered(st) /\ Len(st) \in Nat \ {0}
  BY DEF EncStack
<1>2. /\ IsList(r) /\ Len(r) = k /\ r[k] = e /\ Ordered(r)
      /\ \A i \in 1..(k - 1) : r[i] = st[i]
  BY <1>1, OrderedKeep
<1>3. k \in Nat \ {0} /\ k <= Len(st)
  BY <1>1
<1>4. r[1].type = Root /\ r[1].msg = m /\ r[1].base = 0
  <2>1. CASE k = 1
    BY <1>2, <2>1 DEF EncStack
  <2>2. CASE k # 1
    <3>1. r[1] = st[1]
      BY <1>2, <1>3, <2>2
    <3> QED BY <3>1 DEF EncStack
  <2> QED BY <2>1, <2>2
<1>5. ASSUME NEW i \in 1..k PROVE EncF(r[i], rm)
  <2>1. CASE i = k
    BY <1>2, <2>1
  <2>2. CASE i # k
    <3>1. i \in 1..Len(st) /\ r[i] = st[i]
      BY <1>2, <1>3, <2>2
    <3> QED BY <3>1 DEF EncStack
  <2> QED BY <2>1, <2>2
<1>6. ASSUME NEW i \in 1..(k - 1) PROVE EncNest(r[i], r[i + 1])
  <2>0. i \in 1..(Len(st) - 1)
    BY <1>1, <1>3
  <2>1. r[i] = st[i] /\ EncNest(st[i], st[i + 1])
    BY <1>2, <2>0 DEF EncStack
  <2>2. /\ r[i + 1].type = st[i + 1].type /\ r[i + 1].msg = st[i + 1].msg
        /\ r[i + 1].base = st[i + 1].base
    <3>1. CASE i + 1 = k
      BY <1>2, <3>1
    <3>2. CASE i + 1 # k
      <4>1. i + 1 \in 1..(k - 1)
        BY <1>3, <3>2
      <4> QED BY <1>2, <4>1
    <3> QED BY <3>1, <3>2
  <2> QED BY <2>1, <2>2 DEF EncNest
<1> QED BY <1>2, <1>3, <1>4, <1>5, <1>6 DEF EncStack

\* A stack of calls of Encode on which an inner call begins.
LEMMA EncPush ==
  ASSUME NEW st, NEW m, NEW rm, EncStack(st, m, rm),
         NEW e, EncF(e, rm), EncNest(st[Len(st)], e), NEW r, r = Pushed(st, e)
  PROVE  /\ EncStack(r, m, rm) /\ Len(r) = Len(st) + 1 /\ r[Len(st) + 1] = e
         /\ \A i \in 1..Len(st) : r[i] = st[i]
<1>1. PICK n \in Nat \ {0} : n = Len(st)
  BY DEF EncStack
<1>2. IsList(st) /\ Ordered(st)
  BY DEF EncStack
<1>3. \A i \in 1..n : st[i].base \in Nat /\ st[i].pos \in Nat /\ EncF(st[i], rm)
  BY <1>1 DEF EncStack, EncF
<1>4. e.base \in Nat /\ e.base >= st[n].base + st[n].pos
  <2>1. e.base = st[n].base + st[n].pos + SizeWidth
    BY <1>1 DEF EncNest
  <2>2. n \in 1..n
    OBVIOUS
  <2> QED BY <1>3, <2>1, <2>2, BaseNat
<1>5. /\ IsList(r) /\ Len(r) = n + 1 /\ r[n + 1] = e /\ Ordered(r)
      /\ \A i \in 1..n : r[i] = st[i]
  <2>1. \A i \in 1..Len(st) : st[i].base \in Nat /\ st[i].pos \in Nat
    BY <1>1, <1>3
  <2>2. Len(st) \in Nat \ {0} /\ e.base >= st[Len(st)].base + st[Len(st)].pos
    BY <1>1, <1>4
  <2>3. /\ IsList(r) /\ Len(r) = Len(st) + 1 /\ r[Len(st) + 1] = e /\ Ordered(r)
        /\ \A i \in 1..Len(st) : r[i] = st[i]
    BY <1>2, <1>4, <2>1, <2>2, OrderedPush
  <2> QED BY <1>1, <2>3
<1>6. r[1].type = Root /\ r[1].msg = m /\ r[1].base = 0
  BY <1>5 DEF EncStack
<1>7. \A i \in 1..(n + 1) : EncF(r[i], rm)
  BY <1>3, <1>5
<1>8. ASSUME NEW i \in 1..n PROVE EncNest(r[i], r[i + 1])
  <2>1. CASE i = n
    BY <1>1, <1>5, <2>1
  <2>2. CASE i # n
    <3>1. i \in 1..(n - 1) /\ i + 1 \in 1..n
      BY <2>2
    <3>2. EncNest(st[i], st[i + 1])
      BY <1>1, <3>1 DEF EncStack
    <3> QED BY <1>5, <3>1, <3>2
  <2> QED BY <2>1, <2>2
<1>9. (n + 1) - 1 = n /\ n + 1 \in Nat \ {0}
  OBVIOUS
<1> QED BY <1>1, <1>5, <1>6, <1>7, <1>8, <1>9 DEF EncStack

-----------------------------------------------------------------------------
(* The frames of Decode.                                                   *)

DecShape(f) ==
  f = [type |-> f.type, base |-> f.base, size |-> f.size, len |-> f.len,
       pos |-> f.pos, field |-> f.field, step |-> f.step, count |-> f.count,
       value |-> f.value, msg |-> f.msg]

DecF(f) ==
  /\ DecShape(f) /\ f.type \in Type
  /\ f.base \in Nat /\ f.size \in Nat /\ f.pos \in Nat /\ f.step \in Nat
  /\ f.count \in Nat /\ f.len = IntOf(f.size)
  /\ f.field \in 1..(Len(Fields[f.type]) + 1)

\* g is the call that f waits for.
DecNest(f, g) ==
  /\ ~AtEnd(f) /\ ReadsSubLen(f)
  /\ g.type = FieldOf(f).sub /\ g.base = f.base + f.pos

DecStack(st, sz) ==
  /\ IsList(st) /\ Len(st) \in Nat \ {0}
  /\ st[1].type = Root /\ st[1].size = sz /\ st[1].base = 0
  /\ \A i \in 1..Len(st) : DecF(st[i])
  /\ \A i \in 1..(Len(st) - 1) : DecNest(st[i], st[i + 1])
  /\ Ordered(st)

\* The call at k of Decode has gone on, and is the innermost one.
LEMMA DecKeep ==
  ASSUME NEW st, NEW sz, DecStack(st, sz), NEW k \in 1..Len(st),
         NEW e, DecF(e), e.type = st[k].type, e.size = st[k].size,
         e.base = st[k].base, NEW r, r = Onto(st, k - 1, e)
  PROVE  /\ DecStack(r, sz) /\ Len(r) = k /\ r[k] = e
         /\ \A i \in 1..(k - 1) : r[i] = st[i]
<1>1. IsList(st) /\ Ordered(st) /\ Len(st) \in Nat \ {0}
  BY DEF DecStack
<1>2. /\ IsList(r) /\ Len(r) = k /\ r[k] = e /\ Ordered(r)
      /\ \A i \in 1..(k - 1) : r[i] = st[i]
  BY <1>1, OrderedKeep
<1>3. k \in Nat \ {0} /\ k <= Len(st)
  BY <1>1
<1>4. r[1].type = Root /\ r[1].size = sz /\ r[1].base = 0
  <2>1. CASE k = 1
    BY <1>2, <2>1 DEF DecStack
  <2>2. CASE k # 1
    <3>1. r[1] = st[1]
      BY <1>2, <1>3, <2>2
    <3> QED BY <3>1 DEF DecStack
  <2> QED BY <2>1, <2>2
<1>5. ASSUME NEW i \in 1..k PROVE DecF(r[i])
  <2>1. CASE i = k
    BY <1>2, <2>1
  <2>2. CASE i # k
    <3>1. i \in 1..Len(st) /\ r[i] = st[i]
      BY <1>2, <1>3, <2>2
    <3> QED BY <3>1 DEF DecStack
  <2> QED BY <2>1, <2>2
<1>6. ASSUME NEW i \in 1..(k - 1) PROVE DecNest(r[i], r[i + 1])
  <2>0. i \in 1..(Len(st) - 1)
    BY <1>1, <1>3
  <2>1. r[i] = st[i] /\ DecNest(st[i], st[i + 1])
    BY <1>2, <2>0 DEF DecStack
  <2>2. /\ r[i + 1].type = st[i + 1].type /\ r[i + 1].size = st[i + 1].size
        /\ r[i + 1].base = st[i + 1].base
    <3>1. CASE i + 1 = k
      BY <1>2, <3>1
    <3>2. CASE i + 1 # k
      <4>1. i + 1 \in 1..(k - 1)
        BY <1>3, <3>2
      <4> QED BY <1>2, <4>1
    <3> QED BY <3>1, <3>2
  <2> QED BY <2>1, <2>2 DEF DecNest
<1> QED BY <1>2, <1>3, <1>4, <1>5, <1>6 DEF DecStack

\* A stack of calls of Decode on which an inner call begins.
LEMMA DecPush ==
  ASSUME NEW st, NEW sz, DecStack(st, sz),
         NEW e, DecF(e), DecNest(st[Len(st)], e), NEW r, r = Pushed(st, e)
  PROVE  /\ DecStack(r, sz) /\ Len(r) = Len(st) + 1 /\ r[Len(st) + 1] = e
         /\ \A i \in 1..Len(st) : r[i] = st[i]
<1>1. PICK n \in Nat \ {0} : n = Len(st)
  BY DEF DecStack
<1>2. IsList(st) /\ Ordered(st)
  BY DEF DecStack
<1>3. \A i \in 1..n : st[i].base \in Nat /\ st[i].pos \in Nat /\ DecF(st[i])
  BY <1>1 DEF DecStack, DecF
<1>4. e.base \in Nat /\ e.base >= st[n].base + st[n].pos
  <2>1. e.base = st[n].base + st[n].pos
    BY <1>1 DEF DecNest
  <2>2. n \in 1..n
    OBVIOUS
  <2> QED BY <1>3, <2>1, <2>2
<1>5. /\ IsList(r) /\ Len(r) = n + 1 /\ r[n + 1] = e /\ Ordered(r)
      /\ \A i \in 1..n : r[i] = st[i]
  <2>1. \A i \in 1..Len(st) : st[i].base \in Nat /\ st[i].pos \in Nat
    BY <1>1, <1>3
  <2>2. Len(st) \in Nat \ {0} /\ e.base >= st[Len(st)].base + st[Len(st)].pos
    BY <1>1, <1>4
  <2>3. /\ IsList(r) /\ Len(r) = Len(st) + 1 /\ r[Len(st) + 1] = e /\ Ordered(r)
        /\ \A i \in 1..Len(st) : r[i] = st[i]
    BY <1>2, <1>4, <2>1, <2>2, OrderedPush
  <2> QED BY <1>1, <2>3
<1>6. r[1].type = Root /\ r[1].size = sz /\ r[1].base = 0
  BY <1>5 DEF DecStack
<1>7. \A i \in 1..(n + 1) : DecF(r[i])
  BY <1>3, <1>5
<1>8. ASSUME NEW i \in 1..n PROVE DecNest(r[i], r[i + 1])
  <2>1. CASE i = n
    BY <1>1, <1>5, <2>1
  <2>2. CASE i # n
    <3>1. i \in 1..(n - 1) /\ i + 1 \in 1..n
      BY <2>2
    <3>2. DecNest(st[i], st[i + 1])
      BY <1>1, <3>1 DEF DecStack
    <3> QED BY <1>5, <3>1, <3>2
  <2> QED BY <2>1, <2>2
<1>9. (n + 1) - 1 = n /\ n + 1 \in Nat \ {0}
  OBVIOUS
<1> QED BY <1>1, <1>5, <1>6, <1>7, <1>8, <1>9 DEF DecStack

\* The field at which a frame is.
LEMMA AtDecField ==
  ASSUME NEW f, DecF(f), ~AtEnd(f)
  PROVE  /\ Len(Fields[f.type]) \in Nat /\ f.field \in 1..Len(Fields[f.type])
         /\ IsField(FieldOf(f)) /\ ReadSize(f) \in Nat
<1>1. PICK fs, k : fs = Fields[f.type] /\ k = f.field
  OBVIOUS
<1>2. /\ fs \in Seq({fs[i] : i \in DOMAIN fs})
      /\ \A i \in DOMAIN fs : IsField(fs[i])
  BY <1>1, CodecAssumption DEF DecF
<1>3. Len(fs) \in Nat /\ DOMAIN fs = 1..Len(fs)
  BY <1>2, LenProperties
<1>4. k \in 1..(Len(fs) + 1) /\ ~(k > Len(fs))
  BY <1>1 DEF DecF, AtEnd
<1>5. k \in 1..Len(fs)
  BY <1>3, <1>4
<1>6. IsField(FieldOf(f))
  BY <1>1, <1>2, <1>3, <1>5 DEF FieldOf
<1>7. ReadSize(f) \in Nat
  <2>1. f.count \in Nat /\ SizeWidth \in Nat
    BY BaseNat DEF DecF
  <2>2. PICK fd : fd = FieldOf(f)
    OBVIOUS
  <2>3. fd.kind \in {"simple", "simple_vec"} => fd.width \in Nat
    BY <1>6, <2>2 DEF IsField
  <2>4. CASE fd.kind = "simple"
    <3>1. ReadSize(f) = fd.width
      BY <2>2, <2>4 DEF ReadSize
    <3> QED BY <2>3, <2>4, <3>1
  <2>5. CASE fd.kind = "string"
    <3>1. ReadSize(f) = IF f.step = 0 THEN SizeWidth ELSE f.count
      BY <2>2, <2>5 DEF ReadSize
    <3> QED BY <2>1, <3>1
  <2>6. CASE fd.kind = "simple_vec"
    <3>1. ReadSize(f) = IF f.step = 0 THEN SizeWidth ELSE fd.width
      BY <2>2, <2>6 DEF ReadSize
    <3> QED BY <2>1, <2>3, <2>6, <3>1
  <2>7. CASE fd.kind = "struct" \/ fd.kind = "struct_vec"
    <3>1. ReadSize(f) = SizeWidth
      BY <2>2, <2>7 DEF ReadSize
    <3> QED BY <2>1, <3>1
  <2> QED BY <1>6, <2>2, <2>4, <2>5, <2>6, <2>7, KindCases
<1> QED BY <1>1, <1>3, <1>5, <1>6, <1>7

\* A call that begins.
LEMMA DecodeFrameOf ==
  ASSUME NEW t \in Type, NEW b \in Nat, NEW n \in Nat, NEW f, f = DecodeFrame(t, b, n)
  PROVE  /\ DecF(f) /\ f.type = t /\ f.base = b /\ f.size = n /\ f.pos = 0
         /\ f.field = 1 /\ f.step = 0 /\ f.count = 0 /\ f.value = << >>
         /\ f.msg = << >>
<1>1. /\ DecShape(f) /\ f.type = t /\ f.base = b /\ f.size = n /\ f.pos = 0
      /\ f.field = 1 /\ f.step = 0 /\ f.count = 0 /\ f.value = << >>
      /\ f.msg = << >> /\ f.len = IntOf(n)
  BY DEF DecodeFrame, DecShape
<1>2. Len(Fields[t]) \in Nat
  BY CodecAssumption, LenProperties
<1> QED BY <1>1, <1>2 DEF DecF

\* h is f at another position, with another count.
Moved(f, h, p, c) ==
  /\ DecF(h) /\ h.type = f.type /\ h.base = f.base /\ h.size = f.size
  /\ h.len = f.len /\ h.pos = p /\ h.field = f.field /\ h.step = f.step
  /\ h.count = c /\ h.value = f.value /\ h.msg = f.msg

\* A call that has read on.
LEMMA AdvancedOf ==
  ASSUME NEW f, DecF(f), NEW p \in Nat, NEW g, g = [f EXCEPT !.pos = p]
  PROVE  Moved(f, g, p, f.count)
<1>1. DecShape(f)
  BY DEF DecF
<1>2. /\ DecShape(g) /\ g.type = f.type /\ g.base = f.base /\ g.size = f.size
      /\ g.len = f.len /\ g.pos = p /\ g.field = f.field /\ g.step = f.step
      /\ g.count = f.count /\ g.value = f.value /\ g.msg = f.msg
  BY <1>1 DEF DecShape
<1> QED BY <1>2 DEF DecF, Moved

\* A call that has read on and keeps the size it read.
LEMMA CountedOf ==
  ASSUME NEW f, NEW h, NEW p, Moved(f, h, p, f.count), NEW c \in Nat,
         NEW g, g = [h EXCEPT !.count = c]
  PROVE  Moved(f, g, p, c)
<1>1. DecShape(h)
  BY DEF DecF, Moved
<1>2. /\ DecShape(g) /\ g.type = h.type /\ g.base = h.base /\ g.size = h.size
      /\ g.len = h.len /\ g.pos = h.pos /\ g.field = h.field /\ g.step = h.step
      /\ g.count = c /\ g.value = h.value /\ g.msg = h.msg
  BY <1>1 DEF DecShape
<1> QED BY <1>2 DEF DecF, Moved

\* g is f after a step that read v.
Stepped(f, g, v) ==
  /\ DecF(g) /\ g.type = f.type /\ g.base = f.base /\ g.size = f.size
  /\ g.len = f.len /\ g.pos = f.pos
  /\ f.step = LastStep(f) =>
       /\ g.field = f.field + 1 /\ g.step = 0 /\ g.count = 0
       /\ g.value = << >> /\ g.msg = Append(f.msg, v)
  /\ f.step # LastStep(f) =>
       /\ g.field = f.field /\ g.step = f.step + 1 /\ g.count = f.count
       /\ g.value = v /\ g.msg = f.msg

\* A call that goes on after one of its steps.
LEMMA ReadDoneOf ==
  ASSUME NEW f, DecF(f), ~AtEnd(f), NEW v, NEW g, g = ReadDone(f, v)
  PROVE  Stepped(f, g, v)
<1>1. DecShape(f)
  BY DEF DecF
<1>2. Len(Fields[f.type]) \in Nat /\ f.field \in 1..Len(Fields[f.type])
  BY AtDecField
<1>3. CASE f.step = LastStep(f)
  <2>1. g = [f EXCEPT !.msg = Append(@, v), !.field = @ + 1, !.step = 0,
                      !.count = 0, !.value = << >>]
    BY <1>3 DEF ReadDone, FieldDone
  <2>2. /\ DecShape(g) /\ g.type = f.type /\ g.base = f.base /\ g.size = f.size
        /\ g.len = f.len /\ g.pos = f.pos /\ g.field = f.field + 1 /\ g.step = 0
        /\ g.count = 0 /\ g.value = << >> /\ g.msg = Append(f.msg, v)
    BY <1>1, <2>1 DEF DecShape
  <2> QED BY <1>2, <1>3, <2>2 DEF DecF, Stepped
<1>4. CASE f.step # LastStep(f)
  <2>1. g = [f EXCEPT !.step = @ + 1, !.value = v]
    BY <1>4 DEF ReadDone
  <2>2. /\ DecShape(g) /\ g.type = f.type /\ g.base = f.base /\ g.size = f.size
        /\ g.len = f.len /\ g.pos = f.pos /\ g.field = f.field
        /\ g.step = f.step + 1
        /\ g.count = f.count /\ g.value = v /\ g.msg = f.msg
    BY <1>1, <2>1 DEF DecShape
  <2> QED BY <1>2, <1>4, <2>2 DEF DecF, Stepped
<1> QED BY <1>3, <1>4

-----------------------------------------------------------------------------
(* The steps of Encode.                                                    *)

FramesInv ==
  /\ msg \in Message[Root] /\ room \in BufLens /\ len \in Nat /\ rcv \in Nat
  /\ mem \in [0..(MemSize - 1) -> Byte] /\ ok \in BOOLEAN
  /\ pc \in {"encode", "encoded", "decode", "done"}
  /\ pc \in {"encoded", "done"} => stack = << >>
  /\ pc = "encode" => EncStack(stack, msg, room)
  /\ pc = "decode" => DecStack(stack, rcv)

\* The innermost call of Encode.
LEMMA EncTop ==
  ASSUME FramesInv, pc = "encode"
  PROVE  \E n, f : /\ n \in Nat \ {0} /\ n = Len(stack)
                   /\ f = stack[n] /\ f = Top /\ EncF(f, room)
<1>1. EncStack(stack, msg, room)
  BY DEF FramesInv
<1>2. PICK n \in Nat \ {0} : n = Len(stack)
  BY <1>1 DEF EncStack
<1>3. EncF(stack[n], room)
  <2>1. n \in 1..n
    OBVIOUS
  <2> QED BY <1>1, <1>2, <2>1 DEF EncStack
<1> QED BY <1>2, <1>3 DEF Top

\* A Write: of bytes of the field, where the call has come to.
LEMMA WriteStep ==
  ASSUME FramesInv, EncodeWrite
  PROVE  \E n, f, e, b :
           /\ n \in Nat \ {0}
           /\ n = Len(stack) /\ f = stack[n] /\ EncF(f, room) /\ ~AtEnd(f)
           /\ f.step < NWrites(f)
           /\ ~(f.step = 0 /\ TooMany(FieldOf(f), Value(f)))
           /\ b = Writes(FieldOf(f), Value(f))[f.step + 1] /\ b \in Seq(Byte)
           /\ Fits(f, Len(b)) /\ mem' = PutIn(mem, f.base + f.pos, b)
           /\ e = StepDone([f EXCEPT !.pos = f.pos + Len(b)])
           /\ f.pos + Len(b) \in Nat
           /\ EncStack(stack', msg, room) /\ Len(stack') = n /\ stack'[n] = e
           /\ \A i \in 1..(n - 1) : stack'[i] = stack[i]
<1>1. pc = "encode"
  BY DEF EncodeWrite
<1>2. PICK n, f : /\ n \in Nat \ {0} /\ n = Len(stack)
                 /\ f = stack[n] /\ f = Top /\ EncF(f, room)
  BY <1>1, EncTop
<1>3. PICK b, e : /\ b = Writes(FieldOf(f), Value(f))[f.step + 1]
                  /\ e = StepDone([f EXCEPT !.pos = f.pos + Len(b)])
  OBVIOUS
<1>4. /\ ~AtEnd(f) /\ f.step < NWrites(f)
      /\ ~(f.step = 0 /\ TooMany(FieldOf(f), Value(f)))
      /\ Fits(f, Len(b)) /\ mem' = PutIn(mem, f.base + f.pos, b)
      /\ stack' = Append(SubSeq(stack, 1, n - 1), e)
  BY <1>2, <1>3 DEF EncodeWrite, Put, PutIn, Below
<1>5. b \in Seq(Byte)
  <2>1. PICK w, k : w = Writes(FieldOf(f), Value(f)) /\ k = f.step + 1
    OBVIOUS
  <2>2. IsSeqs(w, Byte) /\ NWrites(f) \in Nat /\ NWrites(f) = Len(w)
    BY <1>2, <1>4, <2>1, AtField DEF NWrites
  <2>3. f.step \in Nat
    BY <1>2 DEF EncF
  <2>4. k \in 1..Len(w)
    BY <1>4, <2>1, <2>2, <2>3
  <2> QED BY <1>3, <2>1, <2>2, <2>4 DEF IsSeqs
<1>6. PICK p \in Nat : p = f.pos + Len(b)
  BY <1>2, <1>5 DEF EncF
<1>7. EncF(e, room) /\ e.type = f.type /\ e.msg = f.msg /\ e.base = f.base
  <2>1. e = StepDone([f EXCEPT !.pos = p])
    BY <1>3, <1>6
  <2> QED BY <1>2, <1>4, <2>1, StepDoneOf
<1>8. PICK st, r : st = stack /\ r = stack'
  OBVIOUS
<1>9. /\ EncStack(st, msg, room) /\ n \in 1..Len(st) /\ r = Onto(st, n - 1, e)
      /\ e.type = st[n].type /\ e.msg = st[n].msg /\ e.base = st[n].base
  <2>1. EncStack(st, msg, room)
    BY <1>1, <1>8 DEF FramesInv
  <2>2. r = Onto(st, n - 1, e)
    BY <1>4, <1>8 DEF Onto
  <2>3. n \in 1..Len(st)
    BY <1>2, <1>8
  <2>4. st[n] = f
    BY <1>2, <1>8
  <2> QED BY <1>7, <2>1, <2>2, <2>3, <2>4
<1>10. /\ EncStack(r, msg, room) /\ Len(r) = n /\ r[n] = e
       /\ \A i \in 1..(n - 1) : r[i] = st[i]
  BY <1>7, <1>9, EncKeep
<1> QED BY <1>2, <1>3, <1>4, <1>5, <1>6, <1>8, <1>10

\* A call of Encode, for a message of the field.
LEMMA CallStep ==
  ASSUME FramesInv, EncodeCall
  PROVE  \E n, f, e :
           /\ n \in Nat \ {0}
           /\ n = Len(stack) /\ f = stack[n] /\ EncF(f, room) /\ EncF(e, room)
           /\ EncNest(f, e) /\ f.step - NWrites(f) + 1 \in 1..NCalls(f)
           /\ e.pos = 0 /\ e.field = 1 /\ e.step = 0
           /\ EncStack(stack', msg, room) /\ Len(stack') = n + 1
           /\ stack'[n + 1] = e /\ \A i \in 1..n : stack'[i] = stack[i]
<1>1. pc = "encode"
  BY DEF EncodeCall
<1>2. PICK n, f : /\ n \in Nat \ {0} /\ n = Len(stack)
                 /\ f = stack[n] /\ f = Top /\ EncF(f, room)
  BY <1>1, EncTop
<1>3. PICK k, t, m, b, l :
        /\ k = f.step - NWrites(f) + 1 /\ t = FieldOf(f).sub
        /\ m = Calls(FieldOf(f), Value(f))[k]
        /\ b = f.base + (f.pos + SizeWidth) /\ l = f.len - (f.pos + SizeWidth)
  OBVIOUS
<1>4. PICK e : e = EncodeFrame(t, m, b, l)
  OBVIOUS
<1>5. ~AtEnd(f) /\ f.step >= NWrites(f) /\ stack' = Append(stack, e)
  BY <1>2, <1>3, <1>4 DEF EncodeCall
<1>6. /\ f.base \in Nat /\ f.pos \in Nat /\ f.len \in Int /\ f.step \in Nat
      /\ f.base + f.len = room /\ f.step < NWrites(f) + NCalls(f)
  BY <1>2, <1>5 DEF EncF
<1>7. /\ NWrites(f) \in Nat /\ NCalls(f) \in Nat
      /\ \A i \in 1..NCalls(f) :
           /\ FieldOf(f).sub \in Type
           /\ Calls(FieldOf(f), Value(f))[i] \in Message[FieldOf(f).sub]
  BY <1>2, <1>5, AtField
<1>8. k \in 1..NCalls(f)
  BY <1>3, <1>5, <1>6, <1>7, SMTT(30)
<1>9. b + l = room /\ b = f.base + f.pos + SizeWidth
  BY <1>3, <1>6, BaseNat
<1>10. /\ EncF(e, room) /\ e.type = t /\ e.msg = m /\ e.base = b
       /\ e.pos = 0 /\ e.field = 1 /\ e.step = 0
  <2>1. t \in Type /\ m \in Message[t]
    BY <1>3, <1>7, <1>8
  <2>2. b \in Nat /\ l \in Int
    BY <1>3, <1>6, BaseNat
  <2>3. PICK rm : rm = room
    OBVIOUS
  <2>4. EndsAt(b, l, rm)
    BY <1>9, <2>2, <2>3 DEF EndsAt
  <2>5. /\ EncF(e, rm) /\ e.type = t /\ e.msg = m /\ e.base = b
        /\ e.pos = 0 /\ e.field = 1 /\ e.step = 0
    BY <1>4, <2>1, <2>4, EncodeFrameOf
  <2> QED BY <2>3, <2>5
<1>11. EncNest(f, e)
  BY <1>3, <1>5, <1>9, <1>10 DEF EncNest
<1>12. PICK st, r : st = stack /\ r = stack'
  OBVIOUS
<1>13. /\ EncStack(st, msg, room) /\ EncNest(st[Len(st)], e) /\ r = Pushed(st, e)
  BY <1>1, <1>2, <1>5, <1>11, <1>12 DEF FramesInv, Pushed
<1>14. /\ EncStack(r, msg, room) /\ Len(r) = Len(st) + 1 /\ r[Len(st) + 1] = e
       /\ \A i \in 1..Len(st) : r[i] = st[i]
  BY <1>10, <1>13, EncPush
<1> QED BY <1>2, <1>3, <1>8, <1>10, <1>11, <1>12, <1>14

\* The return of an inner Encode: f is the caller, g the call.
LEMMA EncReturnStep ==
  ASSUME FramesInv, EncodeReturn
  PROVE  \E n, f, g :
           /\ n \in Nat \ {0}
           /\ n + 1 = Len(stack) /\ f = stack[n] /\ g = stack[n + 1] /\ AtEnd(g)
           /\ EncF(f, room) /\ EncF(g, room) /\ EncNest(f, g)
           /\ ToNet(g.pos, SizeWidth) \in Seq(Byte)
           /\ Len(ToNet(g.pos, SizeWidth)) = SizeWidth
           /\ \/ /\ Fits(f, SizeWidth + g.pos) /\ UNCHANGED <<pc, ok>>
                 /\ mem' = PutIn(mem, f.base + f.pos, ToNet(g.pos, SizeWidth))
                 /\ EncStack(stack', msg, room) /\ Len(stack') = n
                 /\ stack'[n] = StepDone([f EXCEPT !.pos = f.pos + SizeWidth + g.pos])
                 /\ f.pos + SizeWidth + g.pos \in Nat
                 /\ \A i \in 1..(n - 1) : stack'[i] = stack[i]
              \/ /\ ~Fits(f, SizeWidth + g.pos) /\ Return(FALSE)
                 /\ mem' \in {mem, PutIn(mem, f.base + f.pos, ToNet(g.pos, SizeWidth))}
<1>1. pc = "encode"
  BY DEF EncodeReturn
<1>2. PICK k, g : /\ k \in Nat \ {0} /\ k = Len(stack)
                 /\ g = stack[k] /\ g = Top /\ EncF(g, room)
  BY <1>1, EncTop
<1>3. PICK n, f : n \in Nat \ {0} /\ n + 1 = k /\ f = stack[n]
  <2>1. k > 1
    BY <1>2 DEF EncodeReturn
  <2>2. PICK i : i = k - 1
    OBVIOUS
  <2>3. i \in Nat \ {0} /\ i + 1 = k
    BY <1>2, <2>1, <2>2
  <2>4. PICK x : x = stack[i]
    OBVIOUS
  <2> QED BY <2>3, <2>4
<1>4. EncStack(stack, msg, room)
  BY <1>1 DEF FramesInv
<1>5. EncF(f, room) /\ EncNest(f, g)
  <2>1. n \in 1..Len(stack) /\ n \in 1..(Len(stack) - 1)
    BY <1>2, <1>3
  <2> QED BY <1>2, <1>3, <1>4, <2>1 DEF EncStack
<1>6. g.pos \in Nat /\ f.pos \in Nat /\ f.base \in Nat
  BY <1>2, <1>5 DEF EncF
<1>7. PICK b : b = ToNet(g.pos, SizeWidth)
  OBVIOUS
<1>8. b \in Seq(Byte) /\ Len(b) = SizeWidth
  BY <1>6, <1>7, SizeBytes
<1>9. AtEnd(g) /\ stack[Len(stack) - 1] = f /\ Len(stack) - 2 = n - 1
  BY <1>2, <1>3 DEF EncodeReturn
<1>10. CASE Fits(f, SizeWidth + g.pos)
  <2>1. PICK e : e = StepDone([f EXCEPT !.pos = f.pos + SizeWidth + g.pos])
    OBVIOUS
  <2>2. /\ mem' = PutIn(mem, f.base + f.pos, b) /\ UNCHANGED <<pc, ok>>
        /\ stack' = Append(SubSeq(stack, 1, n - 1), e)
    BY <1>2, <1>7, <1>9, <1>10, <2>1 DEF EncodeReturn, Put, PutIn
  <2>3. PICK p \in Nat : p = f.pos + SizeWidth + g.pos
    BY <1>6, BaseNat
  <2>4. EncF(e, room) /\ e.type = f.type /\ e.msg = f.msg /\ e.base = f.base
    <3>1. e = StepDone([f EXCEPT !.pos = p]) /\ ~AtEnd(f)
      BY <1>5, <2>1, <2>3 DEF EncNest
    <3> QED BY <1>5, <3>1, StepDoneOf
  <2>5. PICK st, r : st = stack /\ r = stack'
    OBVIOUS
  <2>6. /\ EncStack(st, msg, room) /\ n \in 1..Len(st) /\ r = Onto(st, n - 1, e)
        /\ e.type = st[n].type /\ e.msg = st[n].msg /\ e.base = st[n].base
    BY <1>2, <1>3, <1>4, <2>2, <2>4, <2>5 DEF Onto
  <2>7. /\ EncStack(r, msg, room) /\ Len(r) = n /\ r[n] = e
        /\ \A i \in 1..(n - 1) : r[i] = st[i]
    BY <2>4, <2>6, EncKeep
  <2> QED BY <1>2, <1>3, <1>5, <1>7, <1>8, <1>9, <1>10, <2>1, <2>2, <2>3, <2>5, <2>7
<1>11. CASE ~Fits(f, SizeWidth + g.pos)
  <2>1. /\ mem' \in {mem, PutIn(mem, f.base + f.pos, b)} /\ Return(FALSE)
    BY <1>2, <1>7, <1>9, <1>11 DEF EncodeReturn, Put, PutIn
  <2> QED BY <1>2, <1>3, <1>5, <1>7, <1>8, <1>9, <1>11, <2>1
<1> QED BY <1>10, <1>11

-----------------------------------------------------------------------------
(* The steps of Decode.                                                    *)

\* The innermost call of Decode.
LEMMA DecTop ==
  ASSUME FramesInv, pc = "decode"
  PROVE  \E n, f : /\ n \in Nat \ {0} /\ n = Len(stack)
                   /\ f = stack[n] /\ f = Top /\ DecF(f)
<1>1. DecStack(stack, rcv)
  BY DEF FramesInv
<1>2. PICK n \in Nat \ {0} : n = Len(stack)
  BY <1>1 DEF DecStack
<1>3. DecF(stack[n])
  <2>1. n \in 1..n
    OBVIOUS
  <2> QED BY <1>1, <1>2, <2>1 DEF DecStack
<1> QED BY <1>2, <1>3 DEF Top

\* The bytes of the next Read.
LEMMA NextReadOf ==
  ASSUME FramesInv, NEW f, DecF(f), ~AtEnd(f), f = Top
  PROVE  /\ NextRead = TakeFrom(mem, f.base + f.pos, ReadSize(f))
         /\ NextRead \in Seq(Byte) /\ FromNet(NextRead) \in Nat
         /\ f.pos + ReadSize(f) \in Nat
         /\ Advanced = [f EXCEPT !.pos = f.pos + ReadSize(f)]
<1>1. NextRead = TakeFrom(mem, f.base + f.pos, ReadSize(f))
  <2>1. NextRead = Take(f.base + f.pos, ReadSize(f))
    BY DEF NextRead
  <2> QED BY <2>1 DEF Take, TakeFrom
<1>2. f.base \in Nat /\ f.pos \in Nat /\ ReadSize(f) \in Nat
  BY AtDecField DEF DecF
<1>3. PICK n, mm, at, k : n = MemSize /\ mm = mem /\ at = f.base + f.pos /\ k = ReadSize(f)
  OBVIOUS
<1>4. n \in Nat /\ mm \in [0..(n - 1) -> Byte] /\ at \in Nat /\ k \in Nat
  BY <1>2, <1>3, CodecAssumption DEF FramesInv
<1>5. TakeFrom(mm, at, k) \in Seq(Byte)
  BY <1>4, TakeFromBytes
<1>6. PICK b : b = NextRead
  OBVIOUS
<1>7. b \in Seq(Byte)
  BY <1>1, <1>3, <1>5, <1>6
<1>8. FromNet(b) \in Nat
  BY <1>7, FromNetNat
<1>9. Advanced = [f EXCEPT !.pos = f.pos + ReadSize(f)]
  BY DEF Advanced
<1>10. f.pos + ReadSize(f) \in Nat
  BY <1>2
<1> QED BY <1>1, <1>6, <1>7, <1>8, <1>9, <1>10, Zenon

\* The frame k of the stack goes on as e, with the calls it waits for gone.
DecTo(k, e) ==
  /\ DecStack(stack', rcv) /\ Len(stack') = k /\ stack'[k] = e
  /\ \A i \in 1..(k - 1) : stack'[i] = stack[i]

\* A step of Decode after which the call at k is the innermost one.
LEMMA DecKeepStep ==
  ASSUME FramesInv, pc = "decode", NEW k \in 1..Len(stack), NEW f, f = stack[k],
         NEW e, DecF(e), e.type = f.type, e.base = f.base, e.size = f.size,
         stack' = Append(SubSeq(stack, 1, k - 1), e)
  PROVE  DecTo(k, e)
<1>1. PICK st, r : st = stack /\ r = stack'
  OBVIOUS
<1>2. DecStack(st, rcv)
  BY <1>1 DEF FramesInv
<1>3. r = Onto(st, k - 1, e) /\ k \in 1..Len(st)
  BY <1>1 DEF Onto
<1>4. e.type = st[k].type /\ e.size = st[k].size /\ e.base = st[k].base
  BY <1>1
<1>5. /\ DecStack(r, rcv) /\ Len(r) = k /\ r[k] = e
      /\ \A i \in 1..(k - 1) : r[i] = st[i]
  BY <1>2, <1>3, <1>4, DecKeep
<1> QED BY <1>1, <1>5 DEF DecTo

\* The size of a field is read.
LEMMA CountStep ==
  ASSUME FramesInv, DecodeCount
  PROVE  \E n, f, h, e, c :
           /\ n \in Nat \ {0} /\ c \in Nat
           /\ n = Len(stack) /\ f = stack[n] /\ DecF(f) /\ ~AtEnd(f)
           /\ Fits(f, ReadSize(f)) /\ ReadsCount(f) /\ ~CountRefused(f, c)
           /\ c = FromNet(TakeFrom(mem, f.base + f.pos, ReadSize(f)))
           /\ Moved(f, h, f.pos + ReadSize(f), c) /\ Stepped(h, e, << >>)
           /\ DecTo(n, e)
<1>1. pc = "decode" /\ ~AtEnd(Top)
  BY DEF DecodeCount, Decoding
<1>2. PICK n, f : /\ n \in Nat \ {0} /\ n = Len(stack)
                 /\ f = stack[n] /\ f = Top /\ DecF(f)
  BY <1>1, DecTop
<1>3. ~AtEnd(f)
  BY <1>1, <1>2
<1>4. PICK b, a : b = NextRead /\ a = Advanced
  OBVIOUS
<1>5. PICK c, p : c = FromNet(b) /\ p = f.pos + ReadSize(f)
  OBVIOUS
<1>6. /\ b = TakeFrom(mem, f.base + f.pos, ReadSize(f)) /\ c \in Nat /\ p \in Nat
      /\ a = [f EXCEPT !.pos = p]
  BY <1>2, <1>3, <1>4, <1>5, NextReadOf
<1>7. PICK h, e : h = [a EXCEPT !.count = c] /\ e = ReadDone(h, << >>)
  OBVIOUS
<1>8. /\ Fits(f, ReadSize(f)) /\ ReadsCount(f) /\ ~CountRefused(f, c)
      /\ stack' = Append(SubSeq(stack, 1, n - 1), e)
  BY <1>2, <1>4, <1>5, <1>7 DEF DecodeCount, Below
<1>9. Moved(f, a, p, f.count)
  BY <1>2, <1>6, AdvancedOf
<1>10. Moved(f, h, p, c)
  BY <1>6, <1>7, <1>9, CountedOf
<1>11. DecF(h) /\ ~AtEnd(h) /\ h.type = f.type /\ h.base = f.base /\ h.size = f.size
  BY <1>3, <1>10 DEF Moved, AtEnd
<1>12. Stepped(h, e, << >>)
  <2>1. PICK v : v = << >>
    OBVIOUS
  <2>2. Stepped(h, e, v)
    BY <1>7, <1>11, <2>1, ReadDoneOf
  <2> QED BY <2>1, <2>2
<1>13. DecTo(n, e)
  <2>1. DecF(e) /\ e.type = f.type /\ e.base = f.base /\ e.size = f.size
    BY <1>11, <1>12 DEF Stepped
  <2>2. n \in 1..Len(stack)
    BY <1>2
  <2> QED BY <1>1, <1>2, <1>8, <2>1, <2>2, DecKeepStep
<1>14. /\ c = FromNet(TakeFrom(mem, f.base + f.pos, ReadSize(f))) /\ c \in Nat
       /\ Moved(f, h, f.pos + ReadSize(f), c)
  BY <1>5, <1>6, <1>10
<1> QED BY <1>2, <1>3, <1>8, <1>12, <1>13, <1>14, Zenon

\* A value is read.
LEMMA ReadStep ==
  ASSUME FramesInv, DecodeRead
  PROVE  \E n, f, h, e, b, v :
           /\ n \in Nat \ {0}
           /\ n = Len(stack) /\ f = stack[n] /\ DecF(f) /\ ~AtEnd(f)
           /\ Fits(f, ReadSize(f)) /\ ~ReadsCount(f) /\ ~ReadsSubLen(f)
           /\ b = TakeFrom(mem, f.base + f.pos, ReadSize(f))
           /\ v = CASE FieldOf(f).kind = "simple" -> FromNet(b)
                    [] FieldOf(f).kind = "string" -> b
                    [] OTHER -> Append(f.value, FromNet(b))
           /\ Moved(f, h, f.pos + ReadSize(f), f.count) /\ Stepped(h, e, v)
           /\ DecTo(n, e)
<1>1. pc = "decode" /\ ~AtEnd(Top)
  BY DEF DecodeRead, Decoding
<1>2. PICK n, f : /\ n \in Nat \ {0} /\ n = Len(stack)
                 /\ f = stack[n] /\ f = Top /\ DecF(f)
  BY <1>1, DecTop
<1>3. ~AtEnd(f)
  BY <1>1, <1>2
<1>4. PICK b, h, p : b = NextRead /\ h = Advanced /\ p = f.pos + ReadSize(f)
  OBVIOUS
<1>5. /\ b = TakeFrom(mem, f.base + f.pos, ReadSize(f)) /\ p \in Nat
      /\ h = [f EXCEPT !.pos = p]
  BY <1>2, <1>3, <1>4, NextReadOf
<1>6. PICK v : v = CASE FieldOf(f).kind = "simple" -> FromNet(b)
                     [] FieldOf(f).kind = "string" -> b
                     [] OTHER -> Append(f.value, FromNet(b))
  OBVIOUS
<1>7. PICK e : e = ReadDone(h, v)
  OBVIOUS
<1>8. /\ Fits(f, ReadSize(f)) /\ ~ReadsCount(f) /\ ~ReadsSubLen(f)
      /\ stack' = Append(SubSeq(stack, 1, n - 1), e)
  BY <1>2, <1>4, <1>6, <1>7 DEF DecodeRead, Below
<1>9. Moved(f, h, p, f.count)
  BY <1>2, <1>5, AdvancedOf
<1>10. DecF(h) /\ ~AtEnd(h) /\ h.type = f.type /\ h.base = f.base /\ h.size = f.size
  BY <1>3, <1>9 DEF Moved, AtEnd
<1>11. Stepped(h, e, v)
  BY <1>7, <1>10, ReadDoneOf
<1>12. DecTo(n, e)
  <2>1. DecF(e) /\ e.type = f.type /\ e.base = f.base /\ e.size = f.size
    BY <1>10, <1>11 DEF Stepped
  <2>2. n \in 1..Len(stack)
    BY <1>2
  <2> QED BY <1>1, <1>2, <1>8, <2>1, <2>2, DecKeepStep
<1> QED BY <1>2, <1>3, <1>4, <1>5, <1>6, <1>8, <1>9, <1>11, <1>12

\* A message in a field: Decode is called with the length that is read.
LEMMA DecCallStep ==
  ASSUME FramesInv, DecodeCall
  PROVE  \E n, f, h, e, c :
           /\ n \in Nat \ {0} /\ n = Len(stack) /\ f = stack[n] /\ DecF(f)
           /\ ~AtEnd(f) /\ Fits(f, ReadSize(f)) /\ ReadsSubLen(f)
           /\ c = FromNet(TakeFrom(mem, f.base + f.pos, ReadSize(f))) /\ c \in Nat
           /\ Moved(f, h, f.pos + ReadSize(f), f.count) /\ DecNest(h, e)
           /\ DecF(e) /\ e.type = FieldOf(f).sub /\ e.base = h.base + h.pos
           /\ e.size = c /\ e.pos = 0 /\ e.field = 1 /\ e.step = 0
           /\ e.count = 0 /\ e.value = << >> /\ e.msg = << >>
           /\ DecStack(stack', rcv) /\ Len(stack') = n + 1
           /\ stack'[n + 1] = e /\ stack'[n] = h
           /\ \A i \in 1..(n - 1) : stack'[i] = stack[i]
<1>1. pc = "decode" /\ ~AtEnd(Top)
  BY DEF DecodeCall, Decoding
<1>2. PICK n, f : /\ n \in Nat \ {0} /\ n = Len(stack)
                 /\ f = stack[n] /\ f = Top /\ DecF(f)
  BY <1>1, DecTop
<1>3. ~AtEnd(f)
  BY <1>1, <1>2
<1>4. PICK bs, h, p, c : /\ bs = NextRead /\ h = Advanced
                         /\ p = f.pos + ReadSize(f) /\ c = FromNet(bs)
  OBVIOUS
<1>5. /\ bs = TakeFrom(mem, f.base + f.pos, ReadSize(f)) /\ c \in Nat /\ p \in Nat
      /\ h = [f EXCEPT !.pos = p]
  BY <1>2, <1>3, <1>4, NextReadOf
<1>6. Moved(f, h, p, f.count)
  BY <1>2, <1>5, AdvancedOf
<1>7. PICK t, b, e : /\ t = FieldOf(f).sub /\ b = f.base + p
                     /\ e = DecodeFrame(t, b, c)
  OBVIOUS
<1>8. Fits(f, ReadSize(f)) /\ ReadsSubLen(f)
  BY <1>2 DEF DecodeCall
<1>9. h.pos = p /\ DecF(h) /\ h.base = f.base /\ h.type = f.type /\ h.size = f.size
  BY <1>6 DEF Moved
<1>10. stack' = Append(Append(SubSeq(stack, 1, n - 1), h), e)
  BY <1>2, <1>4, <1>7, <1>9 DEF DecodeCall, Below
<1>11. t \in Type
  <2>1. IsField(FieldOf(f))
    BY <1>2, <1>3, AtDecField
  <2> QED BY <1>7, <1>8, <2>1 DEF ReadsSubLen, IsField
<1>12. b \in Nat
  BY <1>2, <1>5, <1>7 DEF DecF
<1>13. /\ DecF(e) /\ e.type = t /\ e.base = b /\ e.size = c /\ e.pos = 0
       /\ e.field = 1 /\ e.step = 0 /\ e.count = 0 /\ e.value = << >>
       /\ e.msg = << >>
  BY <1>5, <1>7, <1>11, <1>12, DecodeFrameOf
<1>14. DecNest(h, e)
  <2>1. ~AtEnd(h) /\ ReadsSubLen(h) /\ FieldOf(h) = FieldOf(f)
    BY <1>3, <1>6, <1>8 DEF Moved, AtEnd, ReadsSubLen, FieldOf
  <2> QED BY <1>7, <1>9, <1>13, <2>1 DEF DecNest
<1>15. PICK st, r1, r : /\ st = stack /\ r1 = Append(SubSeq(stack, 1, n - 1), h)
                        /\ r = stack'
  OBVIOUS
<1>16. DecStack(st, rcv)
  BY <1>1, <1>15 DEF FramesInv
<1>17. r1 = Onto(st, n - 1, h) /\ n \in 1..Len(st)
  BY <1>2, <1>15 DEF Onto
<1>18. h.type = st[n].type /\ h.size = st[n].size /\ h.base = st[n].base
  BY <1>2, <1>9, <1>15
<1>19. /\ DecStack(r1, rcv) /\ Len(r1) = n /\ r1[n] = h
       /\ \A i \in 1..(n - 1) : r1[i] = st[i]
  BY <1>9, <1>16, <1>17, <1>18, DecKeep
<1>20. r = Pushed(r1, e) /\ DecNest(r1[Len(r1)], e)
  BY <1>10, <1>14, <1>15, <1>19 DEF Pushed
<1>21. /\ DecStack(r, rcv) /\ Len(r) = Len(r1) + 1 /\ r[Len(r1) + 1] = e
       /\ \A i \in 1..Len(r1) : r[i] = r1[i]
  BY <1>13, <1>19, <1>20, DecPush
<1>22. /\ DecStack(stack', rcv) /\ Len(stack') = n + 1
       /\ stack'[n + 1] = e /\ stack'[n] = h
       /\ \A i \in 1..(n - 1) : stack'[i] = stack[i]
  <2>1. n \in 1..n /\ \A i \in 1..(n - 1) : i \in 1..n
    BY <1>2
  <2> QED BY <1>15, <1>19, <1>21, <2>1
<1>23. /\ c = FromNet(TakeFrom(mem, f.base + f.pos, ReadSize(f)))
       /\ Moved(f, h, f.pos + ReadSize(f), f.count)
       /\ e.type = FieldOf(f).sub /\ e.base = h.base + h.pos
  BY <1>4, <1>5, <1>6, <1>7, <1>9, <1>13
<1> QED BY <1>2, <1>3, <1>5, <1>8, <1>13, <1>14, <1>22, <1>23, Zenon

\* The return of an inner Decode: f is the caller, g the call.
LEMMA DecReturnStep ==
  ASSUME FramesInv, DecodeReturn
  PROVE  \E n, f, g, h, e, v :
           /\ n \in Nat \ {0} /\ n + 1 = Len(stack) /\ f = stack[n]
           /\ g = stack[n + 1] /\ AtEnd(g) /\ DecF(f) /\ DecF(g) /\ DecNest(f, g)
           /\ v = IF FieldOf(f).kind = "struct" THEN g.msg
                  ELSE Append(f.value, g.msg)
           /\ \/ /\ Fits(f, g.size) /\ UNCHANGED <<pc, ok>>
                 /\ Moved(f, h, f.pos + g.size, f.count) /\ Stepped(h, e, v)
                 /\ DecTo(n, e)
              \/ ~Fits(f, g.size) /\ Return(FALSE)
<1>1. pc = "decode"
  BY DEF DecodeReturn
<1>2. PICK k, g : /\ k \in Nat \ {0} /\ k = Len(stack)
                 /\ g = stack[k] /\ g = Top /\ DecF(g)
  BY <1>1, DecTop
<1>3. PICK n, f : n \in Nat \ {0} /\ n + 1 = k /\ f = stack[n]
  <2>1. k > 1
    BY <1>2 DEF DecodeReturn
  <2>2. PICK i : i = k - 1
    OBVIOUS
  <2>3. i \in Nat \ {0} /\ i + 1 = k
    BY <1>2, <2>1, <2>2
  <2>4. PICK x : x = stack[i]
    OBVIOUS
  <2> QED BY <2>3, <2>4
<1>4. DecStack(stack, rcv)
  BY <1>1 DEF FramesInv
<1>5. DecF(f) /\ DecNest(f, g)
  <2>1. n \in 1..Len(stack) /\ n \in 1..(Len(stack) - 1)
    BY <1>2, <1>3
  <2> QED BY <1>2, <1>3, <1>4, <2>1 DEF DecStack
<1>6. AtEnd(g) /\ stack[Len(stack) - 1] = f /\ Len(stack) - 2 = n - 1
  BY <1>2, <1>3 DEF DecodeReturn
<1>7. PICK v : v = IF FieldOf(f).kind = "struct" THEN g.msg
                   ELSE Append(f.value, g.msg)
  OBVIOUS
<1>8. CASE Fits(f, g.size)
  <2>1. PICK p, h, e : /\ p = f.pos + g.size /\ h = [f EXCEPT !.pos = p]
                       /\ e = ReadDone(h, v)
    OBVIOUS
  <2>2. /\ UNCHANGED <<pc, ok>>
        /\ stack' = Append(SubSeq(stack, 1, n - 1), e)
    BY <1>2, <1>6, <1>7, <1>8, <2>1 DEF DecodeReturn
  <2>3. p \in Nat
    <3>1. f.pos \in Nat /\ g.size \in Nat
      BY <1>2, <1>5 DEF DecF
    <3>2. f.pos + g.size \in Nat
      BY <3>1
    <3> QED BY <2>1, <3>2
  <2>4. Moved(f, h, p, f.count)
    BY <1>5, <2>1, <2>3, AdvancedOf
  <2>5. DecF(h) /\ ~AtEnd(h) /\ h.type = f.type /\ h.base = f.base /\ h.size = f.size
    BY <1>5, <2>4 DEF Moved, AtEnd, DecNest
  <2>6. Stepped(h, e, v)
    BY <2>1, <2>5, ReadDoneOf
  <2>7. DecTo(n, e)
    <3>1. DecF(e) /\ e.type = f.type /\ e.base = f.base /\ e.size = f.size
      BY <2>5, <2>6 DEF Stepped
    <3>2. n \in 1..Len(stack)
      BY <1>2, <1>3
    <3> QED BY <1>1, <1>3, <2>2, <3>1, <3>2, DecKeepStep
  <2>8. /\ Moved(f, h, f.pos + g.size, f.count) /\ n + 1 = Len(stack)
        /\ g = stack[n + 1]
    BY <1>2, <1>3, <2>1, <2>4
  <2> QED BY <1>2, <1>3, <1>5, <1>6, <1>7, <1>8, <2>2, <2>6, <2>7, <2>8, Zenon
<1>9. CASE ~Fits(f, g.size)
  <2>1. Return(FALSE)
    BY <1>2, <1>6, <1>9 DEF DecodeReturn
  <2>2. n + 1 = Len(stack) /\ g = stack[n + 1]
    BY <1>2, <1>3
  <2> QED BY <1>2, <1>3, <1>5, <1>6, <1>7, <1>9, <2>1, <2>2, Zenon
<1> QED BY <1>8, <1>9

-----------------------------------------------------------------------------
(* The frames nest, whatever the messages and the bytes are.               *)

\* Encode begins with one call, for the whole message.
LEMMA FramesInit == ASSUME Init PROVE FramesInv
<1>1. /\ msg \in Message[Root] /\ room \in BufLens /\ len = 0 /\ rcv = 0
      /\ mem = [i \in 0..(MemSize - 1) |-> 0]
      /\ pc = "encode" /\ stack = <<EncodeFrame(Root, msg, 0, room)>> /\ ok = FALSE
  BY DEF Init
<1>2. mem \in [0..(MemSize - 1) -> Byte]
  BY <1>1, BaseNat DEF Byte
<1>3. PICK f, m, rm, st : /\ m = msg /\ rm = room /\ st = stack
                          /\ f = EncodeFrame(Root, m, 0, rm)
  OBVIOUS
<1>4. Root \in Type /\ m \in Message[Root] /\ EndsAt(0, rm, rm)
  BY <1>1, <1>3, CodecAssumption DEF EndsAt
<1>5. EncF(f, rm) /\ f.type = Root /\ f.msg = m /\ f.base = 0 /\ f.pos = 0
  BY <1>3, <1>4, EncodeFrameOf
<1>6. st = <<f>>
  BY <1>1, <1>3
<1>7. IsList(st) /\ Len(st) = 1 /\ st[1] = f
  BY <1>6, ListEmpty DEF IsList
<1>8. EncStack(st, m, rm)
  BY <1>5, <1>7 DEF EncStack, Ordered
<1> QED BY <1>1, <1>2, <1>3, <1>8 DEF FramesInv

\* The frames go on nesting in every step.
LEMMA FramesNext == ASSUME FramesInv, [Next]_vars PROVE FramesInv'
<1> PICK n0, m0 : n0 = MemSize /\ m0 = mem
  OBVIOUS
<1>a. n0 \in Nat /\ m0 \in [0..(n0 - 1) -> Byte]
  BY CodecAssumption DEF FramesInv
<1>1. ASSUME Return(FALSE) \/ Return(TRUE), pc \in {"encode", "decode"},
             UNCHANGED <<msg, room, rcv>>, len' \in Nat,
             mem' \in [0..(MemSize - 1) -> Byte]
      PROVE  FramesInv'
  BY <1>1 DEF FramesInv, Return
<1>2. CASE EncodeRefused
  BY <1>1, <1>2 DEF EncodeRefused, FramesInv
<1>3. CASE EncodeWrite
  <2>1. PICK n, f, e, b :
           /\ EncF(f, room) /\ b \in Seq(Byte) /\ n \in Nat
           /\ mem' = PutIn(mem, f.base + f.pos, b)
           /\ EncStack(stack', msg, room)
    BY <1>3, WriteStep, ZenonT(40)
  <2>2. PICK at : at = f.base + f.pos
    OBVIOUS
  <2>3. at \in Nat
    BY <2>1, <2>2 DEF EncF
  <2>4. PutIn(m0, at, b) \in [0..(n0 - 1) -> Byte]
    BY <1>a, <2>1, <2>3, PutInHolds
  <2> QED BY <1>3, <2>1, <2>2, <2>4 DEF FramesInv, EncodeWrite
<1>4. CASE EncodeCall
  <2>1. PICK n, f, e : n \in Nat \ {0} /\ EncF(f, room) /\ EncF(e, room)
                       /\ EncStack(stack', msg, room)
    BY <1>4, CallStep
  <2> QED BY <1>4, <2>1 DEF FramesInv, EncodeCall
<1>5. CASE EncodeReturn
  <2>1. PICK n, f, g :
           /\ n \in Nat \ {0} /\ EncF(f, room) /\ EncF(g, room)
           /\ ToNet(g.pos, SizeWidth) \in Seq(Byte)
           /\ \/ /\ UNCHANGED <<pc, ok>>
                 /\ mem' = PutIn(mem, f.base + f.pos, ToNet(g.pos, SizeWidth))
                 /\ EncStack(stack', msg, room)
              \/ /\ mem' \in {mem, PutIn(mem, f.base + f.pos, ToNet(g.pos, SizeWidth))}
                 /\ Return(FALSE)
    BY <1>5, EncReturnStep, ZenonT(40)
  <2>2. PICK at, b : at = f.base + f.pos /\ b = ToNet(g.pos, SizeWidth)
    OBVIOUS
  <2>3. at \in Nat /\ b \in Seq(Byte)
    BY <2>1, <2>2, SMTT(30) DEF EncF
  <2>4. PutIn(m0, at, b) \in [0..(n0 - 1) -> Byte]
    BY <1>a, <2>3, PutInHolds
  <2>5. mem' \in [0..(MemSize - 1) -> Byte]
    BY <1>a, <2>1, <2>2, <2>4
  <2>6. pc = "encode" /\ UNCHANGED <<msg, room, len, rcv, got>>
    BY <1>5 DEF EncodeReturn
  <2>7. CASE Return(FALSE)
    BY <1>1, <2>5, <2>6, <2>7 DEF FramesInv
  <2>8. CASE UNCHANGED <<pc, ok>> /\ EncStack(stack', msg, room)
    BY <2>5, <2>6, <2>8 DEF FramesInv
  <2> QED BY <2>1, <2>7, <2>8
<1>6. CASE EncodeEnd
  <2>1. pc = "encode" /\ len' = Top.pos /\ Return(TRUE)
        /\ UNCHANGED <<msg, room, rcv, mem, got>>
    BY <1>6 DEF EncodeEnd
  <2>2. len' \in Nat
    BY <2>1, EncTop DEF EncF
  <2> QED BY <1>1, <2>1, <2>2 DEF FramesInv
<1>7. CASE \E n \in 0..len, fill \in FillBytes : Receive(n, fill)
  <2>1. PICK n \in 0..len, fill \in FillBytes : Receive(n, fill)
    BY <1>7
  <2>2. /\ pc' = "decode" /\ rcv' = n
        /\ mem' = [i \in DOMAIN mem |-> IF i < n THEN mem[i] ELSE fill]
        /\ stack' = <<DecodeFrame(Root, 0, n)>>
        /\ UNCHANGED <<msg, room, len, ok, got>>
    BY <2>1 DEF Receive
  <2>3. n \in Nat
    BY DEF FramesInv
  <2>4. mem' \in [0..(MemSize - 1) -> Byte]
    BY <2>2, CodecAssumption DEF FramesInv, Byte
  <2>5. PICK f, st : f = DecodeFrame(Root, 0, n) /\ st = stack'
    OBVIOUS
  <2>6. DecF(f) /\ f.type = Root /\ f.base = 0 /\ f.size = n /\ f.pos = 0
    BY <2>3, <2>5, CodecAssumption, DecodeFrameOf
  <2>7. st = <<f>>
    BY <2>2, <2>5
  <2>8. IsList(st) /\ Len(st) = 1 /\ st[1] = f
    BY <2>7 DEF IsList
  <2>9. DecStack(st, n)
    BY <2>6, <2>8 DEF DecStack, Ordered
  <2> QED BY <2>2, <2>3, <2>4, <2>5, <2>9 DEF FramesInv
<1>8. CASE DecodeRefused
  BY <1>1, <1>8 DEF DecodeRefused, Decoding, FramesInv
<1>9. CASE DecodeCount
  <2>1. DecStack(stack', rcv)
    BY <1>9, CountStep DEF DecTo
  <2> QED BY <1>9, <2>1 DEF DecodeCount, Decoding, FramesInv
<1>10. CASE DecodeRead
  <2>1. DecStack(stack', rcv)
    BY <1>10, ReadStep DEF DecTo
  <2> QED BY <1>10, <2>1 DEF DecodeRead, Decoding, FramesInv
<1>11. CASE DecodeCall
  <2>1. DecStack(stack', rcv)
    BY <1>11, DecCallStep
  <2> QED BY <1>11, <2>1 DEF DecodeCall, Decoding, FramesInv
<1>12. CASE DecodeReturn
  <2>1. pc = "decode" /\ UNCHANGED <<msg, room, len, rcv, mem, got>>
    BY <1>12 DEF DecodeReturn
  <2>2. (UNCHANGED <<pc, ok>> /\ DecStack(stack', rcv)) \/ Return(FALSE)
    <3>1. PICK n, f, g, h, e, v :
             /\ n \in Nat \ {0} /\ n + 1 = Len(stack) /\ f = stack[n]
             /\ g = stack[n + 1] /\ AtEnd(g) /\ DecF(f) /\ DecF(g) /\ DecNest(f, g)
             /\ v = IF FieldOf(f).kind = "struct" THEN g.msg
                    ELSE Append(f.value, g.msg)
             /\ \/ /\ Fits(f, g.size) /\ UNCHANGED <<pc, ok>>
                   /\ Moved(f, h, f.pos + g.size, f.count) /\ Stepped(h, e, v)
                   /\ DecTo(n, e)
                \/ ~Fits(f, g.size) /\ Return(FALSE)
      BY <1>12, DecReturnStep, Zenon
    <3>2. (UNCHANGED <<pc, ok>> /\ DecTo(n, e)) \/ Return(FALSE)
      BY <3>1
    <3> QED BY <3>2 DEF DecTo
  <2>3. CASE Return(FALSE)
    BY <1>1, <2>1, <2>3 DEF FramesInv
  <2>4. CASE UNCHANGED <<pc, ok>> /\ DecStack(stack', rcv)
    BY <2>1, <2>4 DEF FramesInv
  <2> QED BY <2>2, <2>3, <2>4
<1>13. CASE DecodeEnd
  BY <1>1, <1>13 DEF DecodeEnd, FramesInv
<1>14. CASE UNCHANGED vars
  BY <1>14 DEF vars, FramesInv
<1> QED BY <1>2, <1>3, <1>4, <1>5, <1>6, <1>7, <1>8, <1>9, <1>10, <1>11, <1>12,
           <1>13, <1>14 DEF Next

\* Every reachable state has frames that nest.
LEMMA FramesAlways == Spec => []FramesInv
<1>1. Init => FramesInv
  BY FramesInit
<1>2. FramesInv /\ [Next]_vars => FramesInv'
  BY FramesNext
<1> QED BY <1>1, <1>2, PTL DEF Spec

\* The type invariant of the codec: the memory holds bytes, every call that
\* Encode or Decode makes of itself works behind what its caller has written
\* or read, and no call is left when the outermost one has returned.
THEOREM CodecTypeCorrect == Spec => []TypeOK
<1>1. ASSUME FramesInv PROVE TypeOK
  <2>1. /\ pc \in {"encode", "encoded", "decode", "done"} /\ ok \in BOOLEAN
        /\ mem \in [0..(MemSize - 1) -> Byte]
    BY <1>1 DEF FramesInv
  <2>2. CASE pc \in {"encoded", "done"}
    <3>1. stack = << >>
      BY <1>1, <2>2 DEF FramesInv
    <3>2. Len(stack) = 0
      BY <3>1
    <3> QED BY <2>1, <2>2, <3>1, <3>2 DEF TypeOK
  <2>3. CASE pc \in {"encode", "decode"}
    <3>1. Len(stack) \in Nat \ {0} /\ Ordered(stack)
      BY <1>1, <2>3 DEF FramesInv, EncStack, DecStack
    <3>2. stack # << >>
      BY <3>1
    <3>3. ASSUME NEW i \in 2..Len(stack)
          PROVE  stack[i].base >= stack[i - 1].base + stack[i - 1].pos
      <4>1. i \in 1..Len(stack) /\ i - 1 \in 1..Len(stack) /\ i - 1 < i
        BY <3>1
      <4> QED BY <3>1, <4>1 DEF Ordered
    <3> QED BY <2>1, <2>3, <3>2, <3>3 DEF TypeOK
  <2> QED BY <2>1, <2>2, <2>3
<1> QED BY <1>1, FramesAlways, PTL

-----------------------------------------------------------------------------
(* What Encode has written, when no vector of messages has two elements.   *)

\* A value is legal exactly when its size and the messages it is encoded
\* with are.
LEMMA FieldLegal ==
  ASSUME NEW fd, NEW v, IsField(fd), IsValue(fd, v), OneIn(fd, v)
  PROVE  LegalValue(fd, v) <=>
           /\ ~TooMany(fd, v)
           /\ \A k \in 1..Len(Calls(fd, v)) : Calls(fd, v)[k] \in Legal[fd.sub]
<1>1. CASE fd.kind = "simple"
  <2>1. Calls(fd, v) = << >>
    BY <1>1, PartsSimple
  <2>2. Len(Calls(fd, v)) = 0
    BY <2>1
  <2> QED BY <1>1, <2>2 DEF LegalValue, TooMany
<1>2. CASE fd.kind \in {"string", "simple_vec"}
  <2>1. Calls(fd, v) = << >> /\ Len(v) \in Nat /\ fd.max \in Nat
    BY <1>2, PartsString, PartsSimpleVec
  <2>2. Len(Calls(fd, v)) = 0
    BY <2>1
  <2>3. LegalValue(fd, v) <=> Len(v) <= fd.max
    BY <1>2 DEF LegalValue
  <2>4. TooMany(fd, v) <=> Len(v) > fd.max
    BY <1>2 DEF TooMany
  <2> QED BY <2>1, <2>2, <2>3, <2>4
<1>3. CASE fd.kind = "struct"
  <2>1. Calls(fd, v) = <<v>>
    BY <1>3, PartsStruct
  <2>2. PICK c : c = <<v>>
    OBVIOUS
  <2>3. Len(c) = 1 /\ c[1] = v
    BY <2>2
  <2>4. LegalValue(fd, v) <=> v \in Legal[fd.sub]
    BY <1>3 DEF LegalValue
  <2>5. ~TooMany(fd, v)
    BY <1>3 DEF TooMany
  <2> QED BY <2>1, <2>2, <2>3, <2>4, <2>5
<1>4. CASE fd.kind = "struct_vec"
  <2>1. /\ v \in Seq(Message[fd.sub]) /\ fd.max \in Nat
        /\ v = << >> => Calls(fd, v) = << >>
        /\ v # << >> => Calls(fd, v) = <<v[1]>>
    BY <1>4, PartsStructVec
  <2>2. Len(v) \in Nat /\ DOMAIN v = 1..Len(v) /\ Len(v) <= 1
    BY <1>4, <2>1 DEF OneIn
  <2>3. TooMany(fd, v) <=> Len(v) > fd.max
    BY <1>4 DEF TooMany
  <2>4. LegalValue(fd, v) <=> /\ Len(v) <= fd.max
                              /\ \A i \in 1..Len(v) : v[i] \in Legal[fd.sub]
    BY <1>4, <2>2 DEF LegalValue
  <2>5. CASE v = << >>
    <3>1. Len(v) = 0 /\ Len(Calls(fd, v)) = 0
      BY <2>1, <2>5
    <3> QED BY <2>1, <2>3, <2>4, <3>1
  <2>6. CASE v # << >>
    <3>1. PICK e, c : e = v[1] /\ c = <<e>>
      OBVIOUS
    <3>2. Len(c) = 1 /\ c[1] = e /\ c = Calls(fd, v)
      BY <2>1, <2>6, <3>1
    <3>3. Len(v) = 1
      BY <2>1, <2>2, <2>6
    <3>4. (\A i \in 1..Len(v) : v[i] \in Legal[fd.sub]) <=> e \in Legal[fd.sub]
      BY <3>1, <3>3
    <3>5. (\A k \in 1..Len(c) : c[k] \in Legal[fd.sub]) <=> e \in Legal[fd.sub]
      BY <3>2
    <3>6. Len(v) > fd.max <=> ~(Len(v) <= fd.max)
      BY <2>1, <2>2
    <3> QED BY <2>3, <2>4, <3>2, <3>4, <3>5, <3>6
  <2> QED BY <2>5, <2>6
<1> QED BY <1>1, <1>2, <1>3, <1>4, KindCases DEF Kind

\* A template has at most one call, and one that begins with it has no size.
LEMMA CallsOne ==
  ASSUME NEW fd, NEW v, IsField(fd), IsValue(fd, v)
  PROVE  Len(Calls(fd, v)) <= 1 /\ (Len(Writes(fd, v)) = 0 => ~TooMany(fd, v))
<1>1. CASE fd.kind \in {"simple", "string", "simple_vec"}
  <2>1. Calls(fd, v) = << >> /\ Writes(fd, v) = Parts(fd, v)
    BY <1>1, PartsSimple, PartsString, PartsSimpleVec
  <2>2. Len(Calls(fd, v)) = 0
    BY <2>1
  <2>3. Len(Writes(fd, v)) # 0
    BY <2>1, FieldSteps
  <2> QED BY <2>2, <2>3
<1>2. CASE fd.kind = "struct"
  <2>1. Calls(fd, v) = <<v>>
    BY <1>2, PartsStruct
  <2>2. Len(Calls(fd, v)) = 1
    BY <2>1
  <2> QED BY <1>2, <2>2 DEF TooMany
<1>3. CASE fd.kind = "struct_vec"
  <2>1. /\ Writes(fd, v) = <<ToNet(Len(v), SizeWidth)>>
        /\ v = << >> => Calls(fd, v) = << >>
        /\ v # << >> => Calls(fd, v) = <<v[1]>>
    BY <1>3, PartsStructVec
  <2>2. Len(Writes(fd, v)) = 1
    BY <2>1
  <2>3. v = << >> => Len(Calls(fd, v)) = 0
    BY <2>1
  <2>4. PICK e, c : e = v[1] /\ c = <<e>>
    OBVIOUS
  <2>5. Len(c) = 1
    BY <2>4
  <2>6. v # << >> => Len(Calls(fd, v)) = 1
    BY <2>1, <2>4, <2>5
  <2>7. PICK a, b : a = Len(Writes(fd, v)) /\ b = Len(Calls(fd, v))
    OBVIOUS
  <2>8. a = 1 /\ (b = 0 \/ b = 1)
    BY <2>2, <2>3, <2>6, <2>7
  <2>9. b <= 1 /\ a # 0
    BY <2>8
  <2> QED BY <2>7, <2>9
<1> QED BY <1>1, <1>2, <1>3, KindCases

\* The field at which a call of Encode is, and whether it is legal.
LEMMA FieldOne ==
  ASSUME OneElement, NEW f, NEW rm, EncF(f, rm), ~AtEnd(f)
  PROVE  /\ IsField(FieldOf(f)) /\ IsValue(FieldOf(f), Value(f))
         /\ OneIn(FieldOf(f), Value(f))
         /\ f.msg \in Legal[f.type] => LegalValue(FieldOf(f), Value(f))
<1>1. PICK t, m, i : t = f.type /\ m = f.msg /\ i = f.field
  OBVIOUS
<1>2. t \in Type /\ m \in Message[t]
  BY <1>1 DEF EncF
<1>3. i \in 1..Len(Fields[t]) /\ IsField(FieldOf(f)) /\ IsValue(FieldOf(f), Value(f))
  BY <1>1, AtField
<1>4. i \in DOMAIN m
  BY <1>2, <1>3, MessageOf
<1>5. OneIn(FieldOf(f), Value(f))
  BY <1>1, <1>2, <1>4 DEF OneElement, FieldOf, Value
<1>6. m \in Legal[t] => LegalValue(Fields[t][i], m[i])
  BY <1>2, <1>4, FormatAssumption
<1> QED BY <1>1, <1>3, <1>5, <1>6 DEF FieldOf, Value

\* What a call of Encode has written, what it writes next, and all of it.
DoneOf(f) == Done(f.type, f.msg, f.field, f.step)
PartOf(f) == PartsAt(f.type, f.msg, f.field)[f.step + 1]
ImageOf(f) == Image[f.type][f.msg]

\* The call has written what is in front of its place, its part of the image
\* ends within n bytes, and it is legal so far; m0: the whole message.
EncAt(mm, f, n, m0) ==
  /\ Place(f.type, f.msg, f.field, f.step)
  /\ f.pos = Len(DoneOf(f)) /\ Holds(mm, f.base, DoneOf(f), MemSize)
  /\ f.base + Len(ImageOf(f)) <= n
  /\ \A i \in 1..(f.field - 1) : LegalValue(Fields[f.type][i], f.msg[i])
  /\ f.step > 0 => ~TooMany(FieldOf(f), Value(f))
  /\ m0 \in Legal[Root] => f.msg \in Legal[f.type]

\* The next part is what the template writes or encodes next.
LEMMA NextPart ==
  ASSUME OneElement, NEW f, NEW rm, EncF(f, rm), ~AtEnd(f),
         NEW mm, NEW n \in Nat, NEW m0, EncAt(mm, f, n, m0)
  PROVE  /\ Len(PartsAt(f.type, f.msg, f.field)) = NWrites(f) + NCalls(f)
         /\ f.step < NWrites(f) =>
              PartOf(f) = Writes(FieldOf(f), Value(f))[f.step + 1]
         /\ f.step >= NWrites(f) =>
              /\ f.step - NWrites(f) + 1 \in 1..NCalls(f)
              /\ PartOf(f) = SubImage(FieldOf(f).sub,
                   Calls(FieldOf(f), Value(f))[f.step - NWrites(f) + 1])
         /\ PartOf(f) \in Seq(Byte) /\ DoneOf(f) \in Seq(Byte)
         /\ f.base + f.pos + Len(PartOf(f)) <= n
         /\ Len(ImageOf(f)) \in Nat
         /\ f.pos + Len(PartOf(f)) <= Len(ImageOf(f))
<1>1. PICK t, m, k, s : t = f.type /\ m = f.msg /\ k = f.field /\ s = f.step
  OBVIOUS
<1>2. /\ t \in Type /\ m \in Message[t] /\ Place(t, m, k, s) /\ s \in Nat
      /\ f.base \in Nat /\ f.pos \in Nat /\ s < NWrites(f) + NCalls(f)
  BY <1>1 DEF EncF, EncAt
<1>3. /\ k \in 1..Len(Fields[t]) /\ IsField(FieldOf(f))
      /\ IsValue(FieldOf(f), Value(f)) /\ NWrites(f) \in Nat /\ NCalls(f) \in Nat
  BY <1>1, AtField
<1>4. OneIn(FieldOf(f), Value(f))
  <2>1. k \in DOMAIN m
    BY <1>2, <1>3, MessageOf
  <2> QED BY <1>1, <1>2, <2>1 DEF OneElement, FieldOf, Value
<1>5. PICK fd, v, ps : fd = FieldOf(f) /\ v = Value(f) /\ ps = Parts(fd, v)
  OBVIOUS
<1>6. /\ Len(ps) = Len(Writes(fd, v)) + Len(Calls(fd, v))
      /\ \A i \in 1..Len(Writes(fd, v)) : ps[i] = Writes(fd, v)[i]
      /\ \A i \in 1..Len(Calls(fd, v)) :
           ps[Len(Writes(fd, v)) + i] = SubImage(fd.sub, Calls(fd, v)[i])
  BY <1>3, <1>4, <1>5, PartsSteps, SMTT(30)
<1>7. PICK w, c : w = NWrites(f) /\ c = NCalls(f)
  OBVIOUS
<1>8. w = Len(Writes(fd, v)) /\ c = Len(Calls(fd, v)) /\ w \in Nat /\ c \in Nat
  BY <1>3, <1>5, <1>7 DEF NWrites, NCalls
<1>9. PartsAt(t, m, k) = ps /\ PartOf(f) = ps[s + 1] /\ DoneOf(f) = Done(t, m, k, s)
  BY <1>1, <1>5 DEF PartsAt, PartOf, DoneOf, FieldOf, Value
<1>10. ASSUME s < w PROVE PartOf(f) = Writes(fd, v)[s + 1]
  <2>1. s + 1 \in 1..w
    BY <1>2, <1>8, <1>10
  <2> QED BY <1>6, <1>8, <1>9, <2>1
<1>11. ASSUME s >= w
       PROVE  /\ s - w + 1 \in 1..c
              /\ PartOf(f) = SubImage(fd.sub, Calls(fd, v)[s - w + 1])
  <2>1. PICK i : i = s - w + 1
    OBVIOUS
  <2>2. i \in 1..c /\ w + i = s + 1
    BY <1>2, <1>7, <1>8, <1>11, <2>1
  <2> QED BY <1>6, <1>8, <1>9, <2>1, <2>2
<1>12. k <= Len(Fields[t])
  BY <1>1 DEF AtEnd, EncF
<1>13. ps[s + 1] \in Seq(Byte) /\ Done(t, m, k, s) \in Seq(Byte)
  BY <1>2, <1>9, <1>12, DoneHalves
<1>14. Starts(Image[t][m], Done(t, m, k, s) \o ps[s + 1])
  BY <1>2, <1>9, <1>12, DoneStarts
<1>15. PICK d, p, im : d = DoneOf(f) /\ p = PartOf(f) /\ im = ImageOf(f)
  OBVIOUS
<1>16. d \in Seq(Byte) /\ p \in Seq(Byte) /\ Starts(im, d \o p) /\ im \in Seq(Byte)
  BY <1>1, <1>2, <1>9, <1>13, <1>14, <1>15, MessageOf DEF ImageOf
<1>17. f.pos = Len(d) /\ f.base + Len(im) <= n
  BY <1>15 DEF EncAt
<1>18. /\ Len(d \o p) = Len(d) + Len(p) /\ Len(d \o p) <= Len(im)
       /\ Len(d) \in Nat /\ Len(p) \in Nat /\ Len(im) \in Nat
  BY <1>16 DEF Starts
<1>19. f.base + f.pos + Len(p) <= n /\ f.pos + Len(p) <= Len(im)
  BY <1>2, <1>17, <1>18
<1>20. Len(PartsAt(f.type, f.msg, f.field)) = NWrites(f) + NCalls(f)
  BY <1>1, <1>6, <1>7, <1>8, <1>9
<1> QED BY <1>1, <1>5, <1>7, <1>10, <1>11, <1>15, <1>16, <1>18, <1>19, <1>20

\* A call whose next part has come into the memory.
LEMMA EncodeOn ==
  ASSUME OneElement, NEW f, NEW rm, EncF(f, rm), ~AtEnd(f),
         NEW mm, NEW n \in Nat, NEW m0, EncAt(mm, f, n, m0), ~TooMany(FieldOf(f), Value(f)),
         f.step + 1 = NWrites(f) + NCalls(f) => LegalValue(FieldOf(f), Value(f)),
         NEW mm2, Holds(mm2, f.base, DoneOf(f), MemSize),
         Holds(mm2, f.base + f.pos, PartOf(f), MemSize),
         NEW p \in Nat, p = f.pos + Len(PartOf(f)),
         NEW g, g = StepDone([f EXCEPT !.pos = p])
  PROVE  EncAt(mm2, g, n, m0)
<1>1. PICK t, m, k, s : t = f.type /\ m = f.msg /\ k = f.field /\ s = f.step
  OBVIOUS
<1>2. /\ t \in Type /\ m \in Message[t] /\ Place(t, m, k, s) /\ s \in Nat
      /\ f.base \in Nat /\ f.pos \in Nat
  BY <1>1 DEF EncF, EncAt
<1>3. k \in 1..Len(Fields[t]) /\ k <= Len(Fields[t]) /\ Len(Fields[t]) \in Nat
  <2>1. k \in 1..Len(Fields[t])
    BY <1>1, AtField
  <2>2. Len(Fields[t]) \in Nat
    BY <1>2, MessageOf
  <2> QED BY <2>1, <2>2
<1>4. /\ g.type = t /\ g.msg = m /\ g.base = f.base /\ g.pos = p
      /\ IF s + 1 = NWrites(f) + NCalls(f)
         THEN g.field = k + 1 /\ g.step = 0
         ELSE g.field = k /\ g.step = s + 1
  BY <1>1, StepDoneOf
<1>5. Len(PartsAt(t, m, k)) = NWrites(f) + NCalls(f)
  BY <1>1, NextPart
<1>6. g.field = NextField(t, m, k, s) /\ g.step = NextStep(t, m, k, s)
  BY <1>4, <1>5 DEF NextField, NextStep
<1>7. /\ Place(t, m, NextField(t, m, k, s), NextStep(t, m, k, s))
      /\ Done(t, m, NextField(t, m, k, s), NextStep(t, m, k, s)) =
           Done(t, m, k, s) \o PartsAt(t, m, k)[s + 1]
  BY <1>2, <1>3, DoneNext
<1>8. PICK d, q, e, b, r : /\ d = DoneOf(f) /\ q = PartOf(f) /\ e = DoneOf(g)
                           /\ b = f.base /\ r = MemSize
  OBVIOUS
<1>9. e = d \o q /\ d \in Seq(Byte) /\ q \in Seq(Byte)
  <2>1. d \in Seq(Byte) /\ q \in Seq(Byte)
    BY <1>8, NextPart
  <2>2. e = d \o q
    BY <1>1, <1>4, <1>6, <1>7, <1>8 DEF DoneOf, PartOf
  <2> QED BY <2>1, <2>2
<1>10. Len(d) = f.pos /\ Len(e) = Len(d) + Len(q)
  <2>1. Len(d) = f.pos
    BY <1>8 DEF EncAt
  <2>2. Len(d \o q) = Len(d) + Len(q)
    BY <1>9, StartsLess
  <2> QED BY <1>9, <2>1, <2>2
<1>11. g.pos = Len(e)
  BY <1>4, <1>8, <1>10
<1>12. Holds(mm2, b, e, r)
  <2>1. b \in Nat /\ r \in Nat
    BY <1>2, <1>8, CodecAssumption
  <2>2. Holds(mm2, b, d, r) /\ Holds(mm2, b + Len(d), q, r)
    BY <1>8, <1>10
  <2> QED BY <1>9, <2>1, <2>2, HoldsConcat
<1>13. ASSUME NEW i \in 1..(g.field - 1) PROVE LegalValue(Fields[g.type][i], g.msg[i])
  <2>1. \A j \in 1..(k - 1) : LegalValue(Fields[t][j], m[j])
    BY <1>1 DEF EncAt
  <2>2. CASE s + 1 = NWrites(f) + NCalls(f)
    <3>1. LegalValue(Fields[t][k], m[k])
      BY <1>1, <2>2 DEF FieldOf, Value
    <3>2. i \in 1..k
      BY <1>3, <1>4, <2>2
    <3>3. i = k \/ i \in 1..(k - 1)
      BY <1>3, <3>2
    <3> QED BY <1>4, <2>1, <3>1, <3>3
  <2>3. CASE s + 1 # NWrites(f) + NCalls(f)
    BY <1>4, <2>1, <2>3
  <2> QED BY <2>2, <2>3
<1>14. g.step > 0 => ~TooMany(FieldOf(g), Value(g))
  <2>1. g.step > 0 => g.field = k
    BY <1>4
  <2>2. g.field = k => FieldOf(g) = FieldOf(f) /\ Value(g) = Value(f)
    BY <1>1, <1>4 DEF FieldOf, Value
  <2> QED BY <2>1, <2>2
<1>15. ImageOf(g) = ImageOf(f) /\ f.base + Len(ImageOf(f)) <= n
       /\ (m0 \in Legal[Root] => f.msg \in Legal[f.type])
  BY <1>1, <1>4 DEF ImageOf, EncAt
<1>16. Place(g.type, g.msg, g.field, g.step)
  BY <1>4, <1>6, <1>7
<1> QED BY <1>1, <1>4, <1>8, <1>11, <1>12, <1>13, <1>14, <1>15, <1>16 DEF EncAt

\* A call that waits is not touched by what is written behind it.
LEMMA EncodeWaits ==
  ASSUME NEW f, NEW rm, EncF(f, rm),
         NEW k \in Nat, k = MemSize, NEW mm \in [0..(k - 1) -> Byte], NEW n, NEW m0,
         EncAt(mm, f, n, m0), NEW at \in Nat, at >= f.base + f.pos,
         NEW b \in Seq(Byte)
  PROVE  /\ EncAt(PutIn(mm, at, b), f, n, m0)
         /\ Holds(PutIn(mm, at, b), f.base, DoneOf(f), k)
<1>1. f.type \in Type /\ f.msg \in Message[f.type] /\ f.base \in Nat
  BY DEF EncF
<1>2. Place(f.type, f.msg, f.field, f.step) /\ f.pos = Len(DoneOf(f))
      /\ Holds(mm, f.base, DoneOf(f), k)
  BY DEF EncAt
<1>3. PICK d, c : d = DoneOf(f) /\ c = f.base
  OBVIOUS
<1>4. d \in Seq(Byte)
  BY <1>1, <1>2, <1>3, DoneHalves DEF DoneOf
<1>5. c \in Nat /\ c + Len(d) <= at /\ Holds(mm, c, d, k)
  BY <1>1, <1>2, <1>3, <1>4
<1>6. Holds(PutIn(mm, at, b), c, d, k)
  BY <1>4, <1>5, PutInKeeps
<1> QED BY <1>3, <1>6 DEF EncAt

\* A call that is done has written the whole image of a legal message.
LEMMA EncodeAll ==
  ASSUME NEW f, NEW rm, EncF(f, rm), AtEnd(f), NEW mm, NEW n, NEW m0,
         EncAt(mm, f, n, m0)
  PROVE  /\ f.msg \in Legal[f.type] /\ DoneOf(f) = ImageOf(f)
         /\ f.pos = Len(ImageOf(f)) /\ Holds(mm, f.base, ImageOf(f), MemSize)
<1>1. PICK t, m, k, s : t = f.type /\ m = f.msg /\ k = f.field /\ s = f.step
  OBVIOUS
<1>2. t \in Type /\ m \in Message[t] /\ Place(t, m, k, s) /\ k > Len(Fields[t])
  BY <1>1 DEF EncF, EncAt, AtEnd
<1>3. Done(t, m, k, s) = Image[t][m]
  BY <1>2, DoneEnd
<1>4. Len(Fields[t]) \in Nat /\ DOMAIN m = 1..Len(Fields[t])
  BY <1>2, MessageOf
<1>5. k - 1 = Len(Fields[t])
  BY <1>2, <1>4 DEF Place
<1>6. \A i \in 1..(k - 1) : LegalValue(Fields[t][i], m[i])
  BY <1>1 DEF EncAt
<1>7. \A i \in DOMAIN m : LegalValue(Fields[t][i], m[i])
  BY <1>4, <1>5, <1>6
<1>8. m \in Legal[t]
  BY <1>2, <1>7, FormatAssumption
<1>9. DoneOf(f) = ImageOf(f)
  BY <1>1, <1>3 DEF DoneOf, ImageOf
<1> QED BY <1>1, <1>8, <1>9 DEF EncAt

\* A call that begins has written nothing.
LEMMA EncodeFirst ==
  ASSUME NEW f, NEW rm, EncF(f, rm), f.pos = 0, f.field = 1, f.step = 0,
         NEW mm, NEW n, NEW m0, f.base + Len(ImageOf(f)) <= n,
         m0 \in Legal[Root] => f.msg \in Legal[f.type]
  PROVE  EncAt(mm, f, n, m0)
<1>1. PICK t, m : t = f.type /\ m = f.msg
  OBVIOUS
<1>2. t \in Type /\ m \in Message[t]
  BY <1>1 DEF EncF
<1>3. Place(t, m, 1, 0) /\ Done(t, m, 1, 0) = << >>
  BY <1>2, DoneFirst
<1>4. DoneOf(f) = << >> /\ Len(DoneOf(f)) = 0
  BY <1>1, <1>3 DEF DoneOf
<1>5. Holds(mm, f.base, DoneOf(f), MemSize)
  BY <1>4 DEF Holds
<1> QED BY <1>1, <1>3, <1>4, <1>5 DEF EncAt

\* Encode until it returns, and what it returns.
EncodeInv ==
  /\ FramesInv /\ OneElement
  /\ pc = "encode" =>
       /\ \A i \in 1..Len(stack) :
            EncAt(mem, stack[i], Len(Image[Root][msg]), msg)
       /\ stack[1].pos <= room
  /\ pc = "encoded" =>
       /\ ok <=> msg \in Legal[Root] /\ Len(Image[Root][msg]) <= room
       /\ ok => len = Len(Image[Root][msg]) /\ Holds(mem, 0, Image[Root][msg], MemSize)

\* The length of the whole image is a number, and so is the room.
LEMMA RootImage ==
  ASSUME FramesInv
  PROVE  /\ Image[Root][msg] \in Seq(Byte) /\ Len(Image[Root][msg]) \in Nat
         /\ room \in Nat /\ room <= MemSize /\ room <= IntMax
         /\ MemSize \in Nat /\ IntMax \in Nat /\ msg \in Message[Root] /\ Root \in Type
<1>1. Root \in Type /\ msg \in Message[Root] /\ room \in BufLens
  BY CodecAssumption DEF FramesInv
<1>2. PICK m, im : m = msg /\ im = Image[Root][msg]
  OBVIOUS
<1>3. im \in Seq(Byte)
  BY <1>1, <1>2, MessageOf
<1>4. Len(im) \in Nat
  BY <1>3
<1>5. room \in 0..MemSize /\ room \in 0..IntMax /\ MemSize \in Nat /\ IntMax \in Nat
  BY <1>1, CodecAssumption
<1> QED BY <1>1, <1>2, <1>3, <1>4, <1>5

\* Nothing is written when Encode begins.
LEMMA EncodeInvInit == ASSUME Init, OneElement PROVE EncodeInv
<1>1. FramesInv /\ pc = "encode" /\ stack = <<EncodeFrame(Root, msg, 0, room)>>
  BY FramesInit DEF Init
<1>2. PICK f, m, rm, st, m0, n :
        /\ m = msg /\ rm = room /\ st = stack /\ f = EncodeFrame(Root, m, 0, rm)
        /\ m0 = msg /\ n = Len(Image[Root][msg])
  OBVIOUS
<1>3. n \in Nat /\ rm \in Nat /\ m \in Message[Root] /\ Root \in Type
  BY <1>1, <1>2, RootImage
<1>4. EndsAt(0, rm, rm)
  BY <1>3 DEF EndsAt
<1>5. /\ EncF(f, rm) /\ f.type = Root /\ f.msg = m /\ f.base = 0 /\ f.pos = 0
      /\ f.field = 1 /\ f.step = 0
  BY <1>2, <1>3, <1>4, EncodeFrameOf
<1>6. f.base + Len(ImageOf(f)) <= n /\ (m0 \in Legal[Root] => f.msg \in Legal[f.type])
  BY <1>2, <1>3, <1>5 DEF ImageOf
<1>7. PICK mm : mm = mem
  OBVIOUS
<1>8. EncAt(mm, f, n, m0)
  BY <1>5, <1>6, EncodeFirst
<1>9. st = <<f>>
  BY <1>1, <1>2
<1>10. Len(st) = 1 /\ st[1] = f
  BY <1>9
<1>11. \A i \in 1..Len(stack) :
         EncAt(mem, stack[i], Len(Image[Root][msg]), msg)
  BY <1>2, <1>7, <1>8, <1>10
<1>12. stack[1].pos <= room
  BY <1>2, <1>3, <1>5, <1>10
<1> QED BY <1>1, <1>11, <1>12 DEF EncodeInv

\* Encode refuses only what is too large, or does not fit.
LEMMA EncodeRefusedRight ==
  ASSUME EncodeInv, EncodeRefused
  PROVE  ~(msg \in Legal[Root] /\ Len(Image[Root][msg]) <= room)
<1>1. pc = "encode" /\ FramesInv /\ OneElement
  BY DEF EncodeInv, EncodeRefused
<1>2. PICK k, f : /\ k \in Nat \ {0} /\ k = Len(stack)
                 /\ f = stack[k] /\ f = Top /\ EncF(f, room)
  BY <1>1, EncTop
<1>3. PICK n, m0, mm, rm :
        /\ n = Len(Image[Root][msg]) /\ m0 = msg
        /\ mm = mem /\ rm = room
  OBVIOUS
<1>4. EncAt(mm, f, n, m0) /\ ~AtEnd(f) /\ n \in Nat /\ rm \in Nat
  <2>1. k \in 1..Len(stack)
    BY <1>2
  <2>2. EncAt(mem, stack[k], Len(Image[Root][msg]), msg)
    BY <1>1, <2>1 DEF EncodeInv
  <2>3. n \in Nat /\ rm \in Nat
    BY <1>1, <1>3, RootImage
  <2> QED BY <1>2, <1>3, <2>2, <2>3 DEF EncodeRefused
<1>5. CASE TooMany(FieldOf(f), Value(f))
  <2>1. /\ IsField(FieldOf(f)) /\ IsValue(FieldOf(f), Value(f))
        /\ OneIn(FieldOf(f), Value(f))
        /\ f.msg \in Legal[f.type] => LegalValue(FieldOf(f), Value(f))
    BY <1>1, <1>2, <1>4, FieldOne
  <2>2. f.msg \notin Legal[f.type]
    BY <1>5, <2>1, FieldLegal
  <2> QED BY <1>3, <1>4, <2>2 DEF EncAt
<1>6. CASE /\ f.step < NWrites(f)
           /\ ~Fits(f, Len(Writes(FieldOf(f), Value(f))[f.step + 1]))
  <2>1. PICK b : b = PartOf(f)
    OBVIOUS
  <2>2. /\ b \in Seq(Byte) /\ f.base + f.pos + Len(b) <= n
        /\ b = Writes(FieldOf(f), Value(f))[f.step + 1]
    BY <1>1, <1>2, <1>4, <1>6, <2>1, NextPart
  <2>3. ~Fits(f, Len(b))
    BY <1>6, <2>2
  <2>4. /\ Len(b) \in Nat /\ f.base \in Nat /\ f.pos \in Nat /\ f.len \in Int
        /\ f.base + f.len = rm
    BY <1>2, <1>3, <2>2 DEF EncF
  <2>5. f.pos + Len(b) > f.len
    BY <2>3, <2>4 DEF Fits
  <2>6. ~(n <= rm)
    BY <1>4, <2>2, <2>4, <2>5
  <2> QED BY <1>3, <2>6
<1> QED BY <1>2, <1>5, <1>6 DEF EncodeRefused

\* The calls at 1..k of the stack are where they were, or not touched, and the
\* one at k has gone on.
LEMMA EncodeOnStack ==
  ASSUME EncodeInv, pc = "encode", NEW k \in 1..Len(stack),
         NEW at \in Nat, NEW b \in Seq(Byte), at = stack[k].base + stack[k].pos,
         mem' = PutIn(mem, at, b), NEW g,
         EncAt(mem', g, Len(Image[Root][msg]), msg),
         Len(stack') = k, stack'[k] = g, \A i \in 1..(k - 1) : stack'[i] = stack[i]
  PROVE  \A i \in 1..Len(stack') :
           EncAt(mem', stack'[i], Len(Image[Root][msg]), msg)
<1> SUFFICES ASSUME NEW i \in 1..Len(stack')
             PROVE  EncAt(mem', stack'[i], Len(Image[Root][msg]), msg)
  OBVIOUS
<1>1. CASE i = k
  BY <1>1
<1>2. CASE i # k
  <2>1. FramesInv /\ EncStack(stack, msg, room)
    BY DEF EncodeInv, FramesInv
  <2>2. Len(stack) \in Nat
    BY <2>1 DEF EncStack
  <2>3. i \in 1..(k - 1) /\ i \in 1..Len(stack) /\ i < k
    BY <1>2, <2>2
  <2>4. PICK f, n, m0, r, mm : /\ f = stack[i] /\ n = Len(Image[Root][msg])
                               /\ m0 = msg /\ r = MemSize /\ mm = mem
    OBVIOUS
  <2>5. EncF(f, room)
    BY <2>1, <2>3, <2>4 DEF EncStack
  <2>6. at >= f.base + f.pos
    <3>1. stack[k].base >= f.base + f.pos /\ stack[k].pos \in Nat /\ stack[k].base \in Nat
      BY <2>1, <2>3, <2>4 DEF EncStack, Ordered, EncF
    <3>2. f.base \in Nat /\ f.pos \in Nat
      BY <2>5 DEF EncF
    <3> QED BY <3>1, <3>2
  <2>7. EncAt(mm, f, n, m0)
    BY <2>3, <2>4 DEF EncodeInv
  <2>8. r \in Nat /\ mm \in [0..(r - 1) -> Byte]
    BY <2>1, <2>4, CodecAssumption DEF FramesInv
  <2>9. EncAt(PutIn(mm, at, b), f, n, m0)
    BY <2>4, <2>5, <2>6, <2>7, <2>8, EncodeWaits
  <2> QED BY <2>3, <2>4, <2>9
<1> QED BY <1>1, <1>2

\* A Write puts the next part behind what is written.
LEMMA EncodeWriteRight ==
  ASSUME EncodeInv, EncodeWrite PROVE EncodeInv'
<1>1. /\ pc = "encode" /\ FramesInv /\ OneElement
      /\ UNCHANGED <<msg, room, len, rcv, pc, ok, got>>
  BY DEF EncodeInv, EncodeWrite
<1>2. PICK k, f, e, b :
        /\ k \in Nat \ {0}
        /\ k = Len(stack) /\ f = stack[k] /\ EncF(f, room) /\ ~AtEnd(f)
        /\ f.step < NWrites(f)
        /\ ~(f.step = 0 /\ TooMany(FieldOf(f), Value(f)))
        /\ b = Writes(FieldOf(f), Value(f))[f.step + 1] /\ b \in Seq(Byte)
        /\ Fits(f, Len(b)) /\ mem' = PutIn(mem, f.base + f.pos, b)
        /\ e = StepDone([f EXCEPT !.pos = f.pos + Len(b)])
        /\ f.pos + Len(b) \in Nat
        /\ EncStack(stack', msg, room) /\ Len(stack') = k /\ stack'[k] = e
        /\ \A i \in 1..(k - 1) : stack'[i] = stack[i]
  BY <1>1, WriteStep, Zenon
<1>3. PICK n, m0, mm, rm, p, at, r, mm2 :
        /\ n = Len(Image[Root][msg]) /\ m0 = msg /\ r = MemSize /\ mm2 = mem'
        /\ mm = mem /\ rm = room /\ p = f.pos + Len(b) /\ at = f.base + f.pos
  OBVIOUS
<1>4. k \in 1..Len(stack)
  BY <1>2
<1>5. EncAt(mm, f, n, m0) /\ n \in Nat /\ rm \in Nat
  <2>1. EncAt(mem, stack[k], Len(Image[Root][msg]), msg)
    BY <1>1, <1>4 DEF EncodeInv
  <2> QED BY <1>1, <1>2, <1>3, <2>1, RootImage
<1>6. /\ f.base \in Nat /\ f.pos \in Nat /\ f.step \in Nat /\ f.len \in Int
      /\ p \in Nat /\ at \in Nat /\ f.base + f.len = rm
  <2>1. EncF(f, rm) /\ p = f.pos + Len(b) /\ at = f.base + f.pos
    BY <1>2, <1>3
  <2>2. p \in Nat
    BY <1>2, <1>3
  <2>3. /\ f.base \in Nat /\ f.pos \in Nat /\ f.step \in Nat /\ f.len \in Int
        /\ f.base + f.len = rm
    BY <2>1 DEF EncF
  <2>4. f.base + f.pos \in Nat
    BY <2>3
  <2> QED BY <2>1, <2>2, <2>3, <2>4
<1>7. r \in Nat /\ mm \in [0..(r - 1) -> Byte] /\ mm2 = PutIn(mm, at, b)
  BY <1>1, <1>2, <1>3, CodecAssumption DEF FramesInv
<1>8. b = PartOf(f)
  BY <1>1, <1>2, <1>5, NextPart
<1>9. ~TooMany(FieldOf(f), Value(f))
  <2>1. f.step \in Nat /\ f.step # 0 => f.step > 0
    BY <1>6
  <2>2. ~(f.step = 0 /\ TooMany(FieldOf(f), Value(f)))
    BY <1>2
  <2> QED BY <1>5, <1>6, <2>1, <2>2 DEF EncAt
<1>10. ASSUME f.step + 1 = NWrites(f) + NCalls(f)
       PROVE  LegalValue(FieldOf(f), Value(f))
  <2>1. /\ IsField(FieldOf(f)) /\ IsValue(FieldOf(f), Value(f))
        /\ OneIn(FieldOf(f), Value(f))
    BY <1>1, <1>2, FieldOne
  <2>2. NWrites(f) \in Nat /\ NCalls(f) \in Nat
    BY <1>2, AtField
  <2>3. NCalls(f) = 0
    BY <1>2, <1>6, <1>10, <2>2
  <2>4. Len(Calls(FieldOf(f), Value(f))) = 0
    BY <2>3 DEF NCalls
  <2> QED BY <1>9, <2>1, <2>4, FieldLegal
<1>11. Holds(mm2, f.base, DoneOf(f), r)
  <2>1. EncF(f, rm) /\ r = MemSize /\ at >= f.base + f.pos /\ b \in Seq(Byte)
    <3>1. EncF(f, rm) /\ r = MemSize /\ b \in Seq(Byte) /\ at = f.base + f.pos
      BY <1>2, <1>3
    <3>2. at >= at
      BY <1>6
    <3> QED BY <3>1, <3>2
  <2> QED BY <1>5, <1>6, <1>7, <2>1, EncodeWaits
<1>12. Holds(mm2, at, b, r)
  BY <1>2, <1>6, <1>7, PutInHolds
<1>13. EncAt(mm2, e, n, m0)
  <2>1. /\ p = f.pos + Len(PartOf(f)) /\ e = StepDone([f EXCEPT !.pos = p])
    BY <1>2, <1>3, <1>8
  <2>2. /\ Holds(mm2, f.base, DoneOf(f), MemSize)
        /\ Holds(mm2, f.base + f.pos, PartOf(f), MemSize)
    BY <1>3, <1>8, <1>11, <1>12
  <2> QED BY <1>1, <1>2, <1>5, <1>6, <1>9, <1>10, <2>1, <2>2, EncodeOn
<1>14. \A i \in 1..Len(stack') :
         EncAt(mem', stack'[i], Len(Image[Root][msg]), msg)
  <2>1. at = stack[k].base + stack[k].pos /\ mem' = PutIn(mem, at, b)
    BY <1>2, <1>3
  <2>2. EncAt(mem', e, Len(Image[Root][msg]), msg)
    BY <1>3, <1>13
  <2> QED BY <1>1, <1>2, <1>4, <1>6, <2>1, <2>2, EncodeOnStack
<1>15. stack'[1].pos <= room
  <2>1. CASE k = 1
    <3>1. f.base = 0
      BY <1>1, <1>2, <2>1 DEF FramesInv, EncStack
    <3>2. e.pos = p
      <4>1. e = StepDone([f EXCEPT !.pos = p]) /\ EncF(f, rm) /\ ~AtEnd(f)
        BY <1>2, <1>3
      <4> QED BY <1>6, <4>1, StepDoneOf
    <3>3. p <= rm
      <4>1. Fits(f, Len(b)) /\ p = f.pos + Len(b)
        BY <1>2, <1>3
      <4>2. f.len < 0 \/ p <= f.len
        BY <4>1 DEF Fits
      <4>3. f.len = rm /\ f.len >= 0
        BY <1>5, <1>6, <3>1
      <4> QED BY <1>5, <1>6, <4>2, <4>3
    <3> QED BY <1>2, <1>3, <2>1, <3>2, <3>3
  <2>2. CASE k # 1
    <3>1. stack'[1] = stack[1]
      BY <1>2, <2>2
    <3> QED BY <1>1, <3>1 DEF EncodeInv
  <2> QED BY <2>1, <2>2
<1>16. FramesInv'
  BY <1>1, FramesNext DEF Next
<1> QED BY <1>1, <1>14, <1>15, <1>16 DEF EncodeInv

\* An inner Encode begins behind the place for its length.
LEMMA EncodeCallRight ==
  ASSUME EncodeInv, EncodeCall PROVE EncodeInv'
<1>1. /\ pc = "encode" /\ FramesInv /\ OneElement
      /\ UNCHANGED <<msg, room, len, rcv, mem, pc, ok, got>>
  BY DEF EncodeInv, EncodeCall
<1>2. PICK k, f, e :
        /\ k \in Nat \ {0}
        /\ k = Len(stack) /\ f = stack[k] /\ EncF(f, room) /\ EncF(e, room)
        /\ EncNest(f, e) /\ f.step - NWrites(f) + 1 \in 1..NCalls(f)
        /\ e.pos = 0 /\ e.field = 1 /\ e.step = 0
        /\ EncStack(stack', msg, room) /\ Len(stack') = k + 1
        /\ stack'[k + 1] = e /\ \A i \in 1..k : stack'[i] = stack[i]
  BY <1>1, CallStep, Zenon
<1>3. PICK n, m0, mm, rm :
        /\ n = Len(Image[Root][msg]) /\ m0 = msg /\ mm = mem /\ rm = room
  OBVIOUS
<1>4. \A i \in 1..k : EncAt(mm, stack[i], n, m0)
  BY <1>1, <1>2, <1>3 DEF EncodeInv
<1>5. EncAt(mm, f, n, m0) /\ n \in Nat /\ EncF(f, rm) /\ EncF(e, rm) /\ ~AtEnd(f)
  <2>1. k \in 1..k
    BY <1>2
  <2> QED BY <1>1, <1>2, <1>3, <1>4, <2>1, RootImage DEF EncNest
<1>6. PICK c : c = f.step - NWrites(f) + 1
  OBVIOUS
<1>7. /\ c \in 1..NCalls(f) /\ f.step >= NWrites(f) /\ e.type = FieldOf(f).sub
      /\ e.msg = Calls(FieldOf(f), Value(f))[c]
      /\ e.base = f.base + f.pos + SizeWidth
  BY <1>2, <1>6 DEF EncNest
<1>8. /\ PartOf(f) = SubImage(e.type, e.msg)
      /\ f.base + f.pos + Len(PartOf(f)) <= n
  BY <1>1, <1>5, <1>6, <1>7, NextPart
<1>9. e.base + Len(ImageOf(e)) <= n
  <2>1. PICK t, m : t = e.type /\ m = e.msg
    OBVIOUS
  <2>2. t \in Type /\ m \in Message[t]
    BY <1>5, <2>1 DEF EncF
  <2>3. Len(SubImage(t, m)) = SizeWidth + Len(Image[t][m]) /\ Len(Image[t][m]) \in Nat
    BY <2>2, SubImageSeq
  <2>4. f.base \in Nat /\ f.pos \in Nat
    BY <1>5 DEF EncF
  <2> QED BY <1>5, <1>7, <1>8, <2>1, <2>3, <2>4, BaseNat DEF ImageOf
<1>10. m0 \in Legal[Root] => e.msg \in Legal[e.type]
  <2>1. /\ IsField(FieldOf(f)) /\ IsValue(FieldOf(f), Value(f))
        /\ OneIn(FieldOf(f), Value(f))
        /\ f.msg \in Legal[f.type] => LegalValue(FieldOf(f), Value(f))
    BY <1>1, <1>5, FieldOne
  <2>2. m0 \in Legal[Root] => LegalValue(FieldOf(f), Value(f))
    BY <1>5, <2>1 DEF EncAt
  <2>3. c \in 1..Len(Calls(FieldOf(f), Value(f)))
    BY <1>7 DEF NCalls
  <2> QED BY <1>7, <2>1, <2>2, <2>3, FieldLegal
<1>11. EncAt(mm, e, n, m0)
  BY <1>2, <1>5, <1>9, <1>10, EncodeFirst
<1>12. \A i \in 1..Len(stack') :
         EncAt(mem', stack'[i], Len(Image[Root][msg]), msg)
  <2> SUFFICES ASSUME NEW i \in 1..Len(stack')
               PROVE  EncAt(mm, stack'[i], n, m0)
    BY <1>1, <1>3
  <2>1. i = k + 1 \/ i \in 1..k
    BY <1>2
  <2> QED BY <1>2, <1>4, <1>11, <2>1
<1>13. stack'[1].pos <= room
  <2>1. stack'[1] = stack[1]
    BY <1>2
  <2> QED BY <1>1, <2>1 DEF EncodeInv
<1>14. FramesInv'
  BY <1>1, FramesNext DEF Next
<1> QED BY <1>1, <1>12, <1>13, <1>14 DEF EncodeInv

\* The length that the caller writes in front of an inner message, and the
\* message behind it, are the part of the caller's image.
LEMMA EncodeReturnPart ==
  ASSUME OneElement, NEW f, NEW g, NEW rm, EncF(f, rm), EncF(g, rm),
         EncNest(f, g), AtEnd(g), f.step - NWrites(f) + 1 \in 1..NCalls(f),
         NEW k \in Nat, k = MemSize, NEW mm \in [0..(k - 1) -> Byte],
         NEW n \in Nat, NEW m0, EncAt(mm, f, n, m0), EncAt(mm, g, n, m0),
         NEW at, at = f.base + f.pos, NEW b, b = ToNet(g.pos, SizeWidth),
         NEW mm2, mm2 = PutIn(mm, at, b)
  PROVE  /\ Len(PartOf(f)) = SizeWidth + g.pos /\ g.pos \in Nat /\ at \in Nat
         /\ b \in Seq(Byte) /\ ~TooMany(FieldOf(f), Value(f))
         /\ f.step + 1 = NWrites(f) + NCalls(f) => LegalValue(FieldOf(f), Value(f))
         /\ Holds(mm2, f.base, DoneOf(f), k) /\ Holds(mm2, at, PartOf(f), k)
<1>1. PICK c : c = f.step - NWrites(f) + 1
  OBVIOUS
<1>2. /\ c \in 1..NCalls(f) /\ f.step >= NWrites(f) /\ g.type = FieldOf(f).sub
      /\ g.msg = Calls(FieldOf(f), Value(f))[c] /\ ~AtEnd(f)
      /\ g.base = f.base + f.pos + SizeWidth
  BY <1>1 DEF EncNest
<1>3. PartOf(f) = SubImage(g.type, g.msg)
  BY <1>1, <1>2, NextPart
<1>4. /\ f.base \in Nat /\ f.pos \in Nat /\ f.step \in Nat /\ g.base \in Nat
      /\ g.type \in Type /\ g.msg \in Message[g.type]
  BY DEF EncF
<1>5. /\ g.msg \in Legal[g.type] /\ g.pos = Len(ImageOf(g))
      /\ Holds(mm, g.base, ImageOf(g), k)
  BY EncodeAll
<1>6. PICK im : im = ImageOf(g)
  OBVIOUS
<1>7. im \in Seq(Byte) /\ g.pos = Len(im) /\ g.pos \in Nat
  <2>1. im \in Seq(Byte)
    BY <1>4, <1>6, MessageOf DEF ImageOf
  <2> QED BY <1>5, <1>6, <2>1
<1>8. b \in Seq(Byte) /\ Len(b) = SizeWidth
  BY <1>7, SizeBytes
<1>9. PartOf(f) = b \o im
  BY <1>3, <1>6, <1>7 DEF SubImage, ImageOf
<1>10. Len(PartOf(f)) = SizeWidth + g.pos
  <2>1. Len(b \o im) = Len(b) + Len(im)
    BY <1>7, <1>8, StartsLess
  <2> QED BY <1>7, <1>8, <1>9, <2>1
<1>11. at \in Nat /\ at >= f.base + f.pos
  BY <1>4
<1>12. Holds(mm2, f.base, DoneOf(f), k)
  BY <1>8, <1>11, EncodeWaits
<1>13. Holds(mm2, at, PartOf(f), k)
  <2>1. Holds(mm2, at, b, k)
    BY <1>8, <1>11, PutInHolds
  <2>2. PICK gb : gb = g.base
    OBVIOUS
  <2>3. gb = at + Len(b) /\ gb \in Nat
    BY <1>2, <1>4, <1>8, <2>2
  <2>4. Holds(mm, gb, im, k)
    BY <1>5, <1>6, <2>2
  <2>5. at + Len(b) <= gb
    BY <1>11, <2>3
  <2>6. Holds(mm2, gb, im, k)
    BY <1>7, <1>8, <1>11, <2>3, <2>4, <2>5, PutInKeeps
  <2>7. Holds(mm2, at, b \o im, k)
    BY <1>7, <1>8, <1>11, <2>1, <2>3, <2>6, HoldsConcat
  <2> QED BY <1>9, <2>7
<1>14. PICK fd, v : fd = FieldOf(f) /\ v = Value(f)
  OBVIOUS
<1>15. /\ IsField(fd) /\ IsValue(fd, v) /\ OneIn(fd, v)
       /\ NWrites(f) = Len(Writes(fd, v)) /\ NCalls(f) = Len(Calls(fd, v))
       /\ NWrites(f) \in Nat /\ NCalls(f) \in Nat
  <2>1. IsField(fd) /\ IsValue(fd, v) /\ OneIn(fd, v)
    BY <1>2, <1>14, FieldOne
  <2>2. NWrites(f) \in Nat /\ NCalls(f) \in Nat
    BY <1>2, AtField
  <2> QED BY <1>14, <2>1, <2>2 DEF NWrites, NCalls
<1>16. ~TooMany(fd, v)
  <2>1. CASE f.step > 0
    BY <1>14, <2>1 DEF EncAt
  <2>2. CASE ~(f.step > 0)
    <3>1. Len(Writes(fd, v)) = 0
      BY <1>2, <1>4, <1>15, <2>2
    <3> QED BY <1>15, <3>1, CallsOne
  <2> QED BY <2>1, <2>2
<1>17. LegalValue(fd, v)
  <2>1. NCalls(f) <= 1
    BY <1>15, CallsOne
  <2>2. \A i \in 1..NCalls(f) : i = c
    BY <1>2, <1>15, <2>1
  <2>3. Calls(fd, v)[c] \in Legal[fd.sub]
    BY <1>2, <1>5, <1>14
  <2>4. \A i \in 1..Len(Calls(fd, v)) : Calls(fd, v)[i] \in Legal[fd.sub]
    BY <1>15, <2>2, <2>3
  <2> QED BY <1>15, <1>16, <2>4, FieldLegal
<1> QED BY <1>7, <1>8, <1>10, <1>11, <1>12, <1>13, <1>14, <1>16, <1>17

\* The return of an inner Encode: its bytes become part of the caller's, or
\* there is no room for the whole message.
LEMMA EncodeReturnRight ==
  ASSUME EncodeInv, EncodeReturn PROVE EncodeInv'
<1>1. /\ pc = "encode" /\ FramesInv /\ OneElement
      /\ UNCHANGED <<msg, room, len, rcv, got>>
  BY DEF EncodeInv, EncodeReturn
<1>2. PICK k, f, g :
        /\ k \in Nat \ {0}
        /\ k + 1 = Len(stack) /\ f = stack[k] /\ g = stack[k + 1] /\ AtEnd(g)
        /\ EncF(f, room) /\ EncF(g, room) /\ EncNest(f, g)
        /\ ToNet(g.pos, SizeWidth) \in Seq(Byte)
        /\ Len(ToNet(g.pos, SizeWidth)) = SizeWidth
        /\ \/ /\ Fits(f, SizeWidth + g.pos) /\ UNCHANGED <<pc, ok>>
              /\ mem' = PutIn(mem, f.base + f.pos, ToNet(g.pos, SizeWidth))
              /\ EncStack(stack', msg, room) /\ Len(stack') = k
              /\ stack'[k] = StepDone([f EXCEPT !.pos = f.pos + SizeWidth + g.pos])
              /\ f.pos + SizeWidth + g.pos \in Nat
              /\ \A i \in 1..(k - 1) : stack'[i] = stack[i]
           \/ /\ ~Fits(f, SizeWidth + g.pos) /\ Return(FALSE)
              /\ mem' \in {mem, PutIn(mem, f.base + f.pos, ToNet(g.pos, SizeWidth))}
  BY <1>1, EncReturnStep, Zenon
<1>3. PICK n, m0, mm, rm, r, at, b :
        /\ n = Len(Image[Root][msg]) /\ m0 = msg /\ mm = mem /\ rm = room
        /\ r = MemSize /\ at = f.base + f.pos /\ b = ToNet(g.pos, SizeWidth)
  OBVIOUS
<1>4. /\ EncAt(mm, f, n, m0) /\ EncAt(mm, g, n, m0) /\ n \in Nat /\ rm \in Nat
      /\ EncF(f, rm) /\ EncF(g, rm) /\ ~AtEnd(f) /\ k \in 1..Len(stack)
  <2>1. k \in 1..Len(stack) /\ k + 1 \in 1..Len(stack)
    BY <1>2
  <2>2. EncAt(mm, f, n, m0) /\ EncAt(mm, g, n, m0)
    BY <1>1, <1>2, <1>3, <2>1 DEF EncodeInv
  <2> QED BY <1>1, <1>2, <1>3, <2>1, <2>2, RootImage DEF EncNest
<1>5. r = MemSize /\ r \in Nat /\ mm \in [0..(r - 1) -> Byte]
  BY <1>1, <1>3, CodecAssumption DEF FramesInv
<1>6. f.step - NWrites(f) + 1 \in 1..NCalls(f)
  <2>1. f.step >= NWrites(f)
    BY <1>2 DEF EncNest
  <2> QED BY <1>1, <1>4, <2>1, NextPart
<1>7. PICK mm2 : mm2 = PutIn(mm, at, b)
  OBVIOUS
<1>8. /\ Len(PartOf(f)) = SizeWidth + g.pos /\ g.pos \in Nat /\ at \in Nat
      /\ b \in Seq(Byte) /\ ~TooMany(FieldOf(f), Value(f))
      /\ f.step + 1 = NWrites(f) + NCalls(f) => LegalValue(FieldOf(f), Value(f))
      /\ Holds(mm2, f.base, DoneOf(f), r) /\ Holds(mm2, at, PartOf(f), r)
  BY <1>1, <1>2, <1>3, <1>4, <1>5, <1>6, <1>7, EncodeReturnPart, SMTT(30)
<1>9. f.base \in Nat /\ f.pos \in Nat /\ f.len \in Int /\ f.base + f.len = rm
  BY <1>4 DEF EncF
<1>10. PICK p \in Nat : p = f.pos + SizeWidth + g.pos /\ p = f.pos + Len(PartOf(f))
  BY <1>8, <1>9, BaseNat, SMTT(30)
<1>11. FramesInv'
  BY <1>1, FramesNext DEF Next
<1>12. CASE Fits(f, SizeWidth + g.pos)
  <2>1. PICK e : e = StepDone([f EXCEPT !.pos = p])
    OBVIOUS
  <2>2. /\ UNCHANGED <<pc, ok>> /\ mem' = PutIn(mem, at, b) /\ mem' = mm2
        /\ Len(stack') = k /\ stack'[k] = e
        /\ \A i \in 1..(k - 1) : stack'[i] = stack[i]
    BY <1>2, <1>3, <1>7, <1>10, <1>12, <2>1
  <2>3. EncAt(mm2, e, n, m0)
    <3>1. /\ Holds(mm2, f.base, DoneOf(f), MemSize)
          /\ Holds(mm2, f.base + f.pos, PartOf(f), MemSize)
      BY <1>3, <1>8
    <3> QED BY <1>1, <1>4, <1>8, <1>10, <2>1, <3>1, EncodeOn
  <2>4. \A i \in 1..Len(stack') :
          EncAt(mem', stack'[i], Len(Image[Root][msg]), msg)
    <3>1. at = stack[k].base + stack[k].pos
      BY <1>2, <1>3
    <3>2. EncAt(mem', e, Len(Image[Root][msg]), msg)
      BY <1>3, <2>2, <2>3
    <3> QED BY <1>1, <1>4, <1>8, <2>2, <3>1, <3>2, EncodeOnStack
  <2>5. stack'[1].pos <= room
    <3>1. CASE k = 1
      <4>1. f.base = 0
        BY <1>1, <1>2, <3>1 DEF FramesInv, EncStack
      <4>2. e.pos = p
        BY <1>4, <2>1, StepDoneOf
      <4>3. p <= rm
        <5>1. f.len = rm /\ rm >= 0
          BY <1>4, <1>9, <4>1
        <5>2. f.pos + (SizeWidth + g.pos) <= f.len
          BY <1>12, <5>1, <1>4 DEF Fits
        <5> QED BY <1>8, <1>9, <1>10, <5>1, <5>2, BaseNat
      <4> QED BY <1>3, <2>2, <3>1, <4>2, <4>3
    <3>2. CASE k # 1
      <4>1. stack'[1] = stack[1]
        BY <1>2, <2>2, <3>2
      <4> QED BY <1>1, <4>1 DEF EncodeInv
    <3> QED BY <3>1, <3>2
  <2> QED BY <1>1, <1>11, <2>2, <2>4, <2>5 DEF EncodeInv
<1>13. CASE ~Fits(f, SizeWidth + g.pos)
  <2>1. pc' = "encoded" /\ ok' = FALSE
    BY <1>1, <1>2, <1>13 DEF Return
  <2>2. f.base + f.pos + Len(PartOf(f)) <= n
    BY <1>1, <1>4, NextPart
  <2>3. f.pos + (SizeWidth + g.pos) > f.len
    BY <1>8, <1>9, <1>13, BaseNat DEF Fits
  <2>4. PICK l, s : l = Len(PartOf(f)) /\ s = SizeWidth + g.pos
    OBVIOUS
  <2>5. l = s /\ l \in Nat /\ f.base + f.pos + l <= n /\ f.pos + s > f.len
    BY <1>8, <2>2, <2>3, <2>4, BaseNat
  <2>6. ~(n <= rm)
    BY <1>4, <1>9, <2>5
  <2> QED BY <1>1, <1>3, <1>11, <2>1, <2>6 DEF EncodeInv
<1> QED BY <1>12, <1>13

\* The outermost Encode has written the image.
LEMMA EncodeEndRight ==
  ASSUME EncodeInv, EncodeEnd PROVE EncodeInv'
<1>1. /\ pc = "encode" /\ FramesInv /\ OneElement /\ AtEnd(Top) /\ Len(stack) = 1
      /\ len' = Top.pos /\ Return(TRUE) /\ UNCHANGED <<msg, room, rcv, mem, got>>
  BY DEF EncodeInv, EncodeEnd
<1>2. PICK f : f = stack[1] /\ f = Top /\ EncF(f, room)
  <2>1. PICK k, f : /\ k \in Nat \ {0} /\ k = Len(stack)
                   /\ f = stack[k] /\ f = Top /\ EncF(f, room)
    BY <1>1, EncTop, Zenon
  <2> QED BY <1>1, <2>1
<1>3. PICK n, m0, mm, rm : n = Len(Image[Root][msg]) /\ m0 = msg /\ mm = mem /\ rm = room
  OBVIOUS
<1>4. EncAt(mm, f, n, m0) /\ f.pos <= room
  <2>1. 1 \in 1..Len(stack)
    BY <1>1
  <2>2. EncAt(mem, stack[1], Len(Image[Root][msg]), msg) /\ stack[1].pos <= room
    BY <1>1, <2>1 DEF EncodeInv
  <2> QED BY <1>2, <1>3, <2>2
<1>5. f.type = Root /\ f.msg = msg /\ f.base = 0
  BY <1>1, <1>2 DEF FramesInv, EncStack
<1>6. /\ f.msg \in Legal[f.type] /\ f.pos = Len(ImageOf(f))
      /\ Holds(mm, f.base, ImageOf(f), MemSize)
  BY <1>1, <1>2, <1>4, EncodeAll
<1>7. /\ msg \in Legal[Root] /\ Len(Image[Root][msg]) <= room
      /\ len' = Len(Image[Root][msg]) /\ Holds(mem, 0, Image[Root][msg], MemSize)
  BY <1>1, <1>2, <1>3, <1>4, <1>5, <1>6 DEF ImageOf
<1>8. pc' = "encoded" /\ ok' = TRUE
  BY <1>1 DEF Return
<1>9. FramesInv'
  BY <1>1, FramesNext DEF Next
<1> QED BY <1>1, <1>7, <1>8, <1>9 DEF EncodeInv

\* What holds of Encode goes on holding.
LEMMA EncodeInvNext == ASSUME EncodeInv, [Next]_vars PROVE EncodeInv'
<1>1. FramesInv' /\ OneElement
  BY FramesNext DEF EncodeInv
<1>2. CASE EncodeRefused
  <2>1. /\ ~(msg \in Legal[Root] /\ Len(Image[Root][msg]) <= room)
        /\ pc' = "encoded" /\ ok' = FALSE /\ UNCHANGED <<msg, room>>
    BY <1>2, EncodeRefusedRight DEF EncodeRefused, Return
  <2> QED BY <1>1, <2>1 DEF EncodeInv
<1>3. CASE EncodeWrite
  BY <1>3, EncodeWriteRight
<1>4. CASE EncodeCall
  BY <1>4, EncodeCallRight
<1>5. CASE EncodeReturn
  BY <1>5, EncodeReturnRight
<1>6. CASE EncodeEnd
  BY <1>6, EncodeEndRight
<1>7. CASE pc' \in {"decode", "done"}
  BY <1>1, <1>7 DEF EncodeInv
<1>8. ASSUME \/ \E n \in 0..len, fill \in FillBytes : Receive(n, fill)
             \/ DecodeRefused \/ DecodeCount \/ DecodeRead \/ DecodeCall
             \/ DecodeReturn \/ DecodeEnd
      PROVE  pc' \in {"decode", "done"}
  BY <1>8 DEF Receive, DecodeRefused, DecodeCount, DecodeRead, DecodeCall,
              DecodeReturn, DecodeEnd, Decoding, Return
<1>9. CASE UNCHANGED vars
  BY <1>1, <1>9 DEF vars, EncodeInv
<1> QED BY <1>2, <1>3, <1>4, <1>5, <1>6, <1>7, <1>8, <1>9 DEF Next

\* Encode succeeds exactly when the message is legal and its whole image has
\* room, and then leaves the image: for every set of types, every message and
\* every buffer, while no vector of messages has two elements.
THEOREM EncodeCorrect == OneElement /\ Spec => []EncodeExact
<1>1. OneElement /\ Init => EncodeInv
  BY EncodeInvInit
<1>2. EncodeInv /\ [Next]_vars => EncodeInv'
  BY EncodeInvNext
<1>3. ASSUME EncodeInv PROVE EncodeExact
  <2>1. CASE pc # "encoded"
    BY <2>1 DEF EncodeExact
  <2>2. CASE pc = "encoded" /\ ~ok
    BY <1>3, <2>2 DEF EncodeExact, EncodeInv
  <2>3. CASE pc = "encoded" /\ ok
    <3>1. PICK im, mm, r, l : im = Image[Root][msg] /\ mm = mem /\ r = MemSize /\ l = len
      OBVIOUS
    <3>2. /\ FramesInv /\ msg \in Legal[Root] /\ Len(im) <= room /\ l = Len(im)
          /\ Holds(mm, 0, im, r)
      BY <1>3, <2>3, <3>1 DEF EncodeInv
    <3>3. /\ im \in Seq(Byte) /\ r \in Nat /\ mm \in [0..(r - 1) -> Byte]
          /\ Len(im) \in Nat /\ room \in Nat /\ room <= r
      BY <3>1, <3>2, RootImage DEF FramesInv
    <3>4. 0 + Len(im) <= r /\ r <= r
      BY <3>2, <3>3
    <3>5. TakeFrom(mm, 0, Len(im)) = im
      BY <3>2, <3>3, <3>4, TakeFromHeld
    <3>6. Take(0, len) = im
      BY <3>1, <3>2, <3>5 DEF Take, TakeFrom
    <3> QED BY <2>3, <3>1, <3>2, <3>6 DEF EncodeExact
  <2> QED BY <2>1, <2>2, <2>3
<1> QED BY <1>1, <1>2, <1>3, PTL DEF Spec

-----------------------------------------------------------------------------
(* What Decode reads.                                                      *)

\* The beginnings of a list.
LEMMA Firsts ==
  ASSUME NEW s, IsList(s)
  PROVE  /\ Len(s) \in Nat /\ SubSeq(s, 1, 0) = << >> /\ SubSeq(s, 1, Len(s)) = s
         /\ \A k \in 1..Len(s) : Append(SubSeq(s, 1, k - 1), s[k]) = SubSeq(s, 1, k)
<1>1. PICK S : s \in Seq(S)
  BY DEF IsList
<1>2. PICK n \in Nat : n = Len(s)
  BY <1>1
<1>3. SubSeq(s, 1, 0) = << >> /\ SubSeq(s, 1, n) = s
  BY <1>1, <1>2
<1>4. ASSUME NEW k \in 1..n PROVE Append(SubSeq(s, 1, k - 1), s[k]) = SubSeq(s, 1, k)
  <2>1. PICK a, b, e : a = SubSeq(s, 1, k - 1) /\ b = SubSeq(s, 1, k) /\ e = s[k]
    OBVIOUS
  <2>2. /\ a \in Seq(S) /\ Len(a) = k - 1 /\ \A i \in 1..(k - 1) : a[i] = s[i]
    BY <1>1, <1>2, <2>1
  <2>3. /\ b \in Seq(S) /\ Len(b) = k /\ \A i \in 1..k : b[i] = s[i]
    BY <1>1, <1>2, <2>1
  <2>4. e \in S
    BY <1>1, <1>2, <2>1
  <2>5. /\ Append(a, e) \in Seq(S) /\ Len(Append(a, e)) = k
        /\ \A i \in 1..(k - 1) : Append(a, e)[i] = a[i]
        /\ Append(a, e)[k] = e
    BY <2>2, <2>4
  <2>6. PICK c : c = Append(a, e)
    OBVIOUS
  <2>7. \A i \in 1..k : c[i] = b[i]
    <3> SUFFICES ASSUME NEW i \in 1..k PROVE c[i] = b[i]
      OBVIOUS
    <3>1. i = k \/ i \in 1..(k - 1)
      OBVIOUS
    <3> QED BY <2>1, <2>2, <2>3, <2>5, <2>6, <3>1
  <2>8. c = b
    BY <2>3, <2>5, <2>6, <2>7
  <2> QED BY <2>1, <2>6, <2>8
<1> QED BY <1>2, <1>3, <1>4

\* The value of a field with a size is a list.
LEMMA SizedList ==
  ASSUME NEW fd, NEW w, IsField(fd), IsValue(fd, w),
         fd.kind \in {"string", "simple_vec", "struct_vec"}
  PROVE  /\ IsList(w) /\ Len(w) \in Nat /\ Shifted(Len(w), SizeWidth) = 0
         /\ Parts(fd, w)[1] = ToNet(Len(w), SizeWidth)
<1>1. CASE fd.kind = "string"
  BY <1>1, PartsString, ListOf DEF Fits32
<1>2. CASE fd.kind = "simple_vec"
  BY <1>2, PartsSimpleVec, ListOf DEF Fits32
<1>3. CASE fd.kind = "struct_vec"
  BY <1>3, PartsStructVec, ListOf DEF Fits32
<1> QED BY <1>1, <1>2, <1>3

\* The last step of a template reads the last part.
LEMMA LastPart ==
  ASSUME NEW h, NEW w, IsField(FieldOf(h)), IsValue(FieldOf(h), w),
         FieldOf(h).kind \in {"simple_vec", "struct_vec"} => h.count = Len(w)
  PROVE  LastStep(h) + 1 = Len(Parts(FieldOf(h), w))
<1>1. PICK fd : fd = FieldOf(h)
  OBVIOUS
<1>2. IsField(fd) /\ IsValue(fd, w)
  BY <1>1
<1>3. CASE fd.kind = "simple"
  <2>1. LastStep(h) = 0
    BY <1>1, <1>3 DEF LastStep
  <2> QED BY <1>1, <1>2, <1>3, <2>1, PartsSimple
<1>4. CASE fd.kind = "string"
  <2>1. LastStep(h) = 1
    BY <1>1, <1>4 DEF LastStep
  <2> QED BY <1>1, <1>2, <1>4, <2>1, PartsString
<1>5. CASE fd.kind = "simple_vec"
  <2>1. LastStep(h) = Len(w)
    BY <1>1, <1>5 DEF LastStep
  <2> QED BY <1>1, <1>2, <1>5, <2>1, PartsSimpleVec
<1>6. CASE fd.kind = "struct"
  <2>1. LastStep(h) = 0
    BY <1>1, <1>6 DEF LastStep
  <2> QED BY <1>1, <1>2, <1>6, <2>1, PartsStruct
<1>7. CASE fd.kind = "struct_vec"
  <2>1. LastStep(h) = Len(w)
    BY <1>1, <1>7 DEF LastStep
  <2> QED BY <1>1, <1>2, <1>7, <2>1, PartsStructVec
<1> QED BY <1>2, <1>3, <1>4, <1>5, <1>6, <1>7, KindCases

\* The first Read of a field with a size reads the size, which is accepted.
LEMMA CountRead ==
  ASSUME NEW f, NEW w, IsField(FieldOf(f)), IsValue(FieldOf(f), w),
         LegalValue(FieldOf(f), w), ReadsCount(f)
  PROVE  /\ ReadSize(f) = SizeWidth /\ IsList(w) /\ Len(w) \in Nat /\ f.step = 0
         /\ Parts(FieldOf(f), w)[f.step + 1] \in Seq(Byte)
         /\ Len(Parts(FieldOf(f), w)[f.step + 1]) = SizeWidth
         /\ FromNet(Parts(FieldOf(f), w)[f.step + 1]) = Len(w)
         /\ ~CountRefused(f, Len(w))
         /\ Len(Parts(FieldOf(f), w)) = 1 => w = << >>
<1>1. PICK fd : fd = FieldOf(f)
  OBVIOUS
<1>2. /\ IsField(fd) /\ IsValue(fd, w) /\ LegalValue(fd, w) /\ f.step = 0
      /\ fd.kind \in {"string", "simple_vec", "struct_vec"}
  BY <1>1 DEF ReadsCount
<1>3. /\ IsList(w) /\ Len(w) \in Nat /\ Shifted(Len(w), SizeWidth) = 0
      /\ Parts(fd, w)[1] = ToNet(Len(w), SizeWidth)
  BY <1>2, SizedList
<1>4. ReadSize(f) = SizeWidth
  BY <1>1, <1>2 DEF ReadSize
<1>5. PICK n, b : n = Len(w) /\ b = ToNet(n, SizeWidth)
  OBVIOUS
<1>6. b \in Seq(Byte) /\ Len(b) = SizeWidth /\ FromNet(b) = n
  <2>1. n \in Nat /\ Shifted(n, SizeWidth) = 0 /\ SizeWidth \in Nat
    BY <1>3, <1>5, BaseNat
  <2> QED BY <1>5, <2>1, SizeBytes, FromNetToNet
<1>7. ~CountRefused(f, n)
  <2>1. Len(w) <= fd.max /\ fd.max \in Nat
    BY <1>2 DEF LegalValue, IsField
  <2>2. ~(n > fd.max)
    BY <1>3, <1>5, <2>1
  <2> QED BY <1>1, <2>2 DEF CountRefused
<1>8. ASSUME Len(Parts(fd, w)) = 1 PROVE w = << >>
  <2>1. fd.kind # "string"
    BY <1>2, <1>8, PartsString
  <2>2. Len(Parts(fd, w)) = Len(w) + 1
    BY <1>2, <2>1, PartsSimpleVec, PartsStructVec
  <2>3. Len(w) = 0
    BY <1>3, <1>8, <2>2
  <2>4. PICK S : w \in Seq(S)
    BY <1>3 DEF IsList
  <2> QED BY <2>3, <2>4
<1>9. Parts(fd, w)[f.step + 1] = b
  BY <1>2, <1>3, <1>5
<1> QED BY <1>1, <1>2, <1>3, <1>4, <1>5, <1>6, <1>7, <1>8, <1>9

\* The frame is at a part of w and has kept what it read of it.
Kept(f, w) ==
  /\ f.step < Len(Parts(FieldOf(f), w))
  /\ f.count = (IF f.step = 0 THEN 0 ELSE Len(w))
  /\ f.value = (IF f.step = 0 THEN << >> ELSE SubSeq(w, 1, f.step - 1))

\* What is kept of w after this part: all of it, or what was read so far.
KeptNext(f, w, v) ==
  /\ f.step + 1 = Len(Parts(FieldOf(f), w)) => v = w
  /\ f.step + 1 # Len(Parts(FieldOf(f), w)) => v = SubSeq(w, 1, f.step)

\* The other Reads of a field that is no message get its value.
LEMMA ValueRead ==
  ASSUME NEW f, NEW w, IsField(FieldOf(f)), IsValue(FieldOf(f), w), f.step \in Nat,
         Kept(f, w), ~ReadsCount(f), ~ReadsSubLen(f),
         NEW b, b = Parts(FieldOf(f), w)[f.step + 1],
         NEW v, v = CASE FieldOf(f).kind = "simple" -> FromNet(b)
                      [] FieldOf(f).kind = "string" -> b
                      [] OTHER -> Append(f.value, FromNet(b))
  PROVE  /\ b \in Seq(Byte) /\ ReadSize(f) = Len(b) /\ KeptNext(f, w, v)
<1>1. PICK fd, s : fd = FieldOf(f) /\ s = f.step
  OBVIOUS
<1>2. /\ IsField(fd) /\ IsValue(fd, w) /\ s \in Nat /\ b = Parts(fd, w)[s + 1]
      /\ s < Len(Parts(fd, w))
  BY <1>1 DEF Kept
<1>3. CASE fd.kind = "simple"
  <2>1. /\ w \in Nat /\ fd.width \in Nat /\ Shifted(w, fd.width) = 0
        /\ Len(Parts(fd, w)) = 1 /\ Parts(fd, w)[1] = ToNet(w, fd.width)
    BY <1>2, <1>3, PartsSimple
  <2>2. s = 0 /\ s + 1 = Len(Parts(fd, w)) /\ b = ToNet(w, fd.width)
    BY <1>2, <2>1
  <2>3. b \in Seq(Byte) /\ Len(b) = fd.width /\ FromNet(b) = w
    BY <2>1, <2>2, ToNetBytes, FromNetToNet
  <2>4. ReadSize(f) = fd.width
    BY <1>1, <1>3 DEF ReadSize
  <2>5. v = w
    BY <1>1, <1>3, <2>3
  <2> QED BY <1>1, <2>2, <2>3, <2>4, <2>5 DEF KeptNext
<1>4. CASE fd.kind = "string"
  <2>1. /\ w \in Seq(Byte) /\ Len(Parts(fd, w)) = 2 /\ Parts(fd, w)[2] = w
    BY <1>2, <1>4, PartsString
  <2>2. s # 0
    BY <1>1, <1>4 DEF ReadsCount
  <2>3. s = 1 /\ s + 1 = Len(Parts(fd, w)) /\ b = w
    BY <1>2, <2>1, <2>2
  <2>4. ReadSize(f) = Len(w)
    BY <1>1, <1>4, <2>2 DEF ReadSize, Kept
  <2>5. v = w
    BY <1>1, <1>4, <2>3
  <2> QED BY <1>1, <2>1, <2>3, <2>4, <2>5 DEF KeptNext
<1>5. CASE fd.kind = "simple_vec"
  <2>1. /\ w \in Seq(Nat) /\ fd.width \in Nat
        /\ Len(Parts(fd, w)) = Len(w) + 1
        /\ \A i \in 1..Len(w) : /\ Parts(fd, w)[i + 1] = ToNet(w[i], fd.width)
                                /\ w[i] \in Nat /\ Shifted(w[i], fd.width) = 0
    BY <1>2, <1>5, PartsSimpleVec
  <2>2. s # 0
    BY <1>1, <1>5 DEF ReadsCount
  <2>3. Len(w) \in Nat /\ s \in 1..Len(w)
    BY <1>2, <2>1, <2>2
  <2>4. PICK x : x = w[s]
    OBVIOUS
  <2>5. b = ToNet(x, fd.width) /\ x \in Nat /\ Shifted(x, fd.width) = 0
    BY <1>2, <2>1, <2>3, <2>4
  <2>6. b \in Seq(Byte) /\ Len(b) = fd.width /\ FromNet(b) = x
    BY <2>1, <2>5, ToNetBytes, FromNetToNet
  <2>7. ReadSize(f) = fd.width
    BY <1>1, <1>5, <2>2 DEF ReadSize
  <2>8. v = Append(SubSeq(w, 1, s - 1), x)
    <3>1. f.value = SubSeq(w, 1, s - 1)
      BY <1>1, <2>2 DEF Kept
    <3>2. v = Append(f.value, FromNet(b))
      BY <1>1, <1>5
    <3> QED BY <2>6, <3>1, <3>2
  <2>9. IsList(w)
    BY <2>1, ListOf
  <2>10. v = SubSeq(w, 1, s) /\ SubSeq(w, 1, Len(w)) = w
    BY <2>3, <2>4, <2>8, <2>9, Firsts
  <2>11. s + 1 = Len(Parts(fd, w)) => s = Len(w)
    BY <2>1, <2>3
  <2> QED BY <1>1, <2>6, <2>7, <2>10, <2>11 DEF KeptNext
<1>6. fd.kind # "struct"
  BY <1>1 DEF ReadsSubLen
<1>7. fd.kind = "struct_vec" => s = 0
  <2>1. fd.kind = "struct_vec" => ~(s > 0)
    BY <1>1 DEF ReadsSubLen
  <2> QED BY <1>2, <2>1
<1>8. ~(fd.kind = "struct_vec")
  BY <1>1, <1>7 DEF ReadsCount
<1> QED BY <1>2, <1>3, <1>4, <1>5, <1>6, <1>8, KindCases

\* The message that a step of a field is about.
SubOf(fd, w, s) == IF fd.kind = "struct" THEN w ELSE w[s]

\* The bytes of an inner message begin with its length; what the inner Decode
\* makes of it is the element, or the value.
LEMMA SubRead ==
  ASSUME NEW f, NEW w, IsField(FieldOf(f)), IsValue(FieldOf(f), w),
         LegalValue(FieldOf(f), w), f.step \in Nat, Kept(f, w), ReadsSubLen(f),
         NEW x, x = SubOf(FieldOf(f), w, f.step),
         NEW v, v = IF FieldOf(f).kind = "struct" THEN x ELSE Append(f.value, x)
  PROVE  /\ ReadSize(f) = SizeWidth /\ KeptNext(f, w, v)
         /\ FieldOf(f).sub \in Type /\ x \in Message[FieldOf(f).sub]
         /\ x \in Legal[FieldOf(f).sub] /\ SubFits(FieldOf(f).sub, x)
         /\ Parts(FieldOf(f), w)[f.step + 1] = SubImage(FieldOf(f).sub, x)
<1>1. PICK fd, s : fd = FieldOf(f) /\ s = f.step
  OBVIOUS
<1>2. /\ IsField(fd) /\ IsValue(fd, w) /\ LegalValue(fd, w) /\ s \in Nat
      /\ s < Len(Parts(fd, w))
  BY <1>1 DEF Kept
<1>3. CASE fd.kind = "struct"
  <2>1. /\ fd.sub \in Type /\ w \in Message[fd.sub] /\ SubFits(fd.sub, w)
        /\ Len(Parts(fd, w)) = 1 /\ Parts(fd, w)[1] = SubImage(fd.sub, w)
    BY <1>2, <1>3, PartsStruct
  <2>2. s = 0 /\ s + 1 = Len(Parts(fd, w))
    BY <1>2, <2>1
  <2>3. x = w /\ v = w
    BY <1>1, <1>3 DEF SubOf
  <2>4. ReadSize(f) = SizeWidth
    BY <1>1, <1>3 DEF ReadSize
  <2>5. w \in Legal[fd.sub]
    BY <1>2, <1>3 DEF LegalValue
  <2> QED BY <1>1, <2>1, <2>2, <2>3, <2>4, <2>5 DEF KeptNext
<1>4. CASE fd.kind = "struct_vec" /\ s > 0
  <2>1. /\ fd.sub \in Type /\ w \in Seq(Message[fd.sub])
        /\ Len(Parts(fd, w)) = Len(w) + 1
        /\ \A i \in 1..Len(w) : /\ Parts(fd, w)[i + 1] = SubImage(fd.sub, w[i])
                                /\ w[i] \in Message[fd.sub] /\ SubFits(fd.sub, w[i])
    BY <1>2, <1>4, PartsStructVec
  <2>2. Len(w) \in Nat /\ s \in 1..Len(w) /\ DOMAIN w = 1..Len(w)
    BY <1>2, <1>4, <2>1
  <2>3. x = w[s]
    BY <1>1, <1>4 DEF SubOf
  <2>4. /\ x \in Message[fd.sub] /\ SubFits(fd.sub, x)
        /\ Parts(fd, w)[s + 1] = SubImage(fd.sub, x)
    BY <2>1, <2>2, <2>3
  <2>5. x \in Legal[fd.sub]
    BY <1>2, <1>4, <2>2, <2>3 DEF LegalValue
  <2>6. ReadSize(f) = SizeWidth
    BY <1>1, <1>4 DEF ReadSize
  <2>7. v = Append(SubSeq(w, 1, s - 1), x)
    <3>1. f.value = SubSeq(w, 1, s - 1)
      BY <1>1, <1>4 DEF Kept
    <3>2. v = Append(f.value, x)
      BY <1>1, <1>4
    <3> QED BY <3>1, <3>2
  <2>8. IsList(w)
    BY <2>1, ListOf
  <2>9. v = SubSeq(w, 1, s) /\ SubSeq(w, 1, Len(w)) = w
    <3>1. /\ SubSeq(w, 1, Len(w)) = w
          /\ \A k \in 1..Len(w) : Append(SubSeq(w, 1, k - 1), w[k]) = SubSeq(w, 1, k)
      BY <2>8, Firsts
    <3>2. Append(SubSeq(w, 1, s - 1), w[s]) = SubSeq(w, 1, s)
      BY <2>2, <3>1
    <3> QED BY <2>3, <2>7, <3>1, <3>2
  <2>10. s + 1 = Len(Parts(fd, w)) => s = Len(w)
    <3>1. PICK n, k : n = Len(w) /\ k = Len(Parts(fd, w))
      OBVIOUS
    <3>2. k = n + 1 /\ n \in Nat /\ s \in Nat
      BY <1>2, <2>1, <2>2, <3>1
    <3>3. s + 1 = k => s = n
      BY <3>2
    <3> QED BY <3>1, <3>3
  <2> QED BY <1>1, <2>1, <2>4, <2>5, <2>6, <2>9, <2>10 DEF KeptNext
<1> QED BY <1>1, <1>3, <1>4 DEF ReadsSubLen

-----------------------------------------------------------------------------
(* A call of Decode that reads the image of a message.                     *)

\* What the call has read of m, and what it reads next.
ReadOf(f, m) == Done(f.type, m, f.field, f.step)
NextOf(f, m) == Parts(FieldOf(f), m[f.field])[f.step + 1]

\* The call reads the image of m, has come to its place, p bytes behind the
\* part that is next, and has kept the values in front of it; bytes of the
\* image at r and behind may be others.
DecAt(mm, f, m, r, p) ==
  /\ m \in Message[f.type] /\ m \in Legal[f.type]
  /\ Place(f.type, m, f.field, f.step) /\ f.pos = Len(ReadOf(f, m)) + p
  /\ Holds(mm, f.base, Image[f.type][m], r)
  /\ f.msg = SubSeq(m, 1, f.field - 1)
  /\ ~AtEnd(f) => Kept(f, m[f.field])

\* A message is a list.
LEMMA MessageList ==
  ASSUME NEW t \in Type, NEW m \in Message[t]
  PROVE  IsList(m) /\ Len(m) = Len(Fields[t]) /\ Len(Fields[t]) \in Nat
<1>1. PICK n \in Nat : n = Len(Fields[t]) /\ DOMAIN Fields[t] = 1..n
  BY MessageOf
<1>2. m = [i \in 1..n |-> m[i]]
  BY <1>1, FormatAssumption
<1>3. PICK S : S = {m[i] : i \in 1..n}
  OBVIOUS
<1>4. [i \in 1..n |-> m[i]] \in [1..n -> S]
  BY <1>3
<1>5. [i \in 1..n |-> m[i]] \in Seq(S) /\ Len([i \in 1..n |-> m[i]]) = n
  BY <1>4
<1>6. m \in Seq(S) /\ Len(m) = n
  BY <1>2, <1>5
<1> QED BY <1>1, <1>6, ListOf

\* A call that begins has read nothing.
LEMMA DecodeFirst ==
  ASSUME NEW f, DecF(f), f.pos = 0, f.field = 1, f.step = 0, f.count = 0,
         f.value = << >>, f.msg = << >>,
         NEW m, m \in Message[f.type], m \in Legal[f.type],
         NEW mm, NEW r, Holds(mm, f.base, Image[f.type][m], r)
  PROVE  DecAt(mm, f, m, r, 0)
<1>1. PICK t : t = f.type
  OBVIOUS
<1>2. t \in Type /\ m \in Message[t]
  BY <1>1 DEF DecF
<1>3. Place(t, m, 1, 0) /\ Done(t, m, 1, 0) = << >>
  BY <1>2, DoneFirst
<1>4. ReadOf(f, m) = << >> /\ Len(ReadOf(f, m)) = 0
  BY <1>1, <1>3 DEF ReadOf
<1>5. f.msg = SubSeq(m, 1, f.field - 1)
  <2>1. SubSeq(m, 1, 0) = << >>
    BY <1>2, MessageList, Firsts
  <2>2. f.field - 1 = 0
    OBVIOUS
  <2> QED BY <2>1, <2>2
<1>6. ASSUME ~AtEnd(f) PROVE Kept(f, m[f.field])
  <2>1. PartsAt(t, m, 1) = Parts(FieldOf(f), m[f.field])
    BY <1>1 DEF PartsAt, FieldOf
  <2>2. Len(Fields[t]) \in Nat
    BY <1>2, MessageList
  <2>3. 1 <= Len(Fields[t])
    BY <1>1, <1>6, <2>2 DEF AtEnd
  <2>4. 0 < Len(PartsAt(t, m, 1))
    BY <1>3, <2>3 DEF Place
  <2> QED BY <2>1, <2>4 DEF Kept
<1> QED BY <1>1, <1>3, <1>4, <1>5, <1>6 DEF DecAt

\* The field at which such a call is, and the part of the image it reads.
LEMMA NextOfImage ==
  ASSUME NEW f, DecF(f), ~AtEnd(f), NEW mm, NEW m, NEW r \in Nat, NEW p,
         DecAt(mm, f, m, r, p)
  PROVE  /\ f.type \in Type /\ f.field \in 1..Len(Fields[f.type])
         /\ IsField(FieldOf(f)) /\ IsValue(FieldOf(f), m[f.field])
         /\ LegalValue(FieldOf(f), m[f.field]) /\ Kept(f, m[f.field])
         /\ PartsAt(f.type, m, f.field) = Parts(FieldOf(f), m[f.field])
         /\ ReadOf(f, m) \in Seq(Byte) /\ NextOf(f, m) \in Seq(Byte)
         /\ Len(ReadOf(f, m)) \in Nat /\ Len(NextOf(f, m)) \in Nat
         /\ Len(Image[f.type][m]) \in Nat
         /\ Len(ReadOf(f, m)) + Len(NextOf(f, m)) <= Len(Image[f.type][m])
         /\ Holds(mm, f.base + Len(ReadOf(f, m)), NextOf(f, m), r)
<1>1. PICK t, k, s, b : t = f.type /\ k = f.field /\ s = f.step /\ b = f.base
  OBVIOUS
<1>2. /\ t \in Type /\ m \in Message[t] /\ m \in Legal[t] /\ Place(t, m, k, s)
      /\ b \in Nat
  BY <1>1 DEF DecF, DecAt
<1>3. k \in 1..Len(Fields[t]) /\ k <= Len(Fields[t])
  <2>1. Len(Fields[t]) \in Nat /\ k \in 1..Len(Fields[t])
    BY <1>1, AtDecField
  <2> QED BY <2>1
<1>4. IsField(Fields[t][k]) /\ IsValue(Fields[t][k], m[k]) /\ k \in DOMAIN m
  BY <1>2, <1>3, MessageOf
<1>5. LegalValue(Fields[t][k], m[k])
  BY <1>2, <1>4, FormatAssumption
<1>6. PartsAt(t, m, k) = Parts(FieldOf(f), m[k])
  BY <1>1 DEF PartsAt, FieldOf
<1>7. PICK d, q, im : d = ReadOf(f, m) /\ q = NextOf(f, m) /\ im = Image[t][m]
  OBVIOUS
<1>8. d = Done(t, m, k, s) /\ q = PartsAt(t, m, k)[s + 1]
  BY <1>1, <1>6, <1>7 DEF ReadOf, NextOf
<1>9. d \in Seq(Byte) /\ q \in Seq(Byte)
  BY <1>2, <1>3, <1>8, DoneHalves
<1>10. Starts(im, d \o q)
  BY <1>2, <1>3, <1>7, <1>8, DoneStarts
<1>11. im \in Seq(Byte) /\ d \o q \in Seq(Byte) /\ Len(d \o q) = Len(d) + Len(q)
  <2>1. im \in Seq(Byte)
    BY <1>2, <1>7, MessageOf
  <2>2. d \o q \in Seq(Byte)
    BY <1>9
  <2> QED BY <1>9, <2>1, <2>2, StartsLess
<1>12. Len(d) \in Nat /\ Len(q) \in Nat /\ Len(im) \in Nat
  BY <1>9, <1>11
<1>13. Len(d) + Len(q) <= Len(im)
  BY <1>10, <1>11 DEF Starts
<1>14. PICK c : c = d \o q
  OBVIOUS
<1>15. Holds(mm, b, c, r)
  <2>1. Holds(mm, b, im, r)
    BY <1>1, <1>7 DEF DecAt
  <2> QED BY <1>10, <1>11, <1>14, <2>1, HoldsStart
<1>16. Holds(mm, b + Len(d), q, r)
  BY <1>2, <1>9, <1>14, <1>15, HoldsConcat
<1>17. Kept(f, m[k])
  BY <1>1 DEF DecAt
<1> QED BY <1>1, <1>2, <1>3, <1>4, <1>5, <1>6, <1>7, <1>9, <1>12, <1>13, <1>16,
           <1>17 DEF FieldOf

\* A call that has read its next part.
LEMMA DecodeOn ==
  ASSUME NEW f, DecF(f), ~AtEnd(f), NEW mm, NEW m, NEW r \in Nat, NEW p,
         DecAt(mm, f, m, r, p),
         NEW q, q = Len(ReadOf(f, m)) + Len(NextOf(f, m)),
         NEW c, NEW h, Moved(f, h, q, c), NEW v, NEW e, Stepped(h, e, v),
         KeptNext(f, m[f.field], v),
         f.step + 1 # Len(Parts(FieldOf(f), m[f.field])) => c = Len(m[f.field]),
         FieldOf(f).kind \in {"simple_vec", "struct_vec"} => c = Len(m[f.field])
  PROVE  DecAt(mm, e, m, r, 0)
<1>1. PICK t, k, s, w, ps : /\ t = f.type /\ k = f.field /\ s = f.step
                            /\ w = m[k] /\ ps = Parts(FieldOf(f), w)
  OBVIOUS
<1>2. /\ t \in Type /\ k \in 1..Len(Fields[t])
      /\ IsField(FieldOf(f)) /\ IsValue(FieldOf(f), w) /\ PartsAt(t, m, k) = ps
      /\ ReadOf(f, m) \in Seq(Byte) /\ NextOf(f, m) \in Seq(Byte)
  BY <1>1, NextOfImage
<1>3. /\ m \in Message[t] /\ m \in Legal[t] /\ Place(t, m, k, s)
      /\ Holds(mm, f.base, Image[t][m], r) /\ f.msg = SubSeq(m, 1, k - 1)
  BY <1>1 DEF DecAt
<1>4. s \in Nat /\ Len(Fields[t]) \in Nat /\ k <= Len(Fields[t])
  <2>1. Len(Fields[t]) \in Nat /\ s \in Nat
    BY <1>1, <1>2, <1>3, MessageList DEF DecF
  <2> QED BY <1>2, <2>1
<1>5. /\ h.type = t /\ h.base = f.base /\ h.field = k /\ h.step = s
      /\ h.pos = q /\ h.count = c /\ h.msg = f.msg /\ h.value = f.value
  BY <1>1 DEF Moved
<1>6. FieldOf(h) = FieldOf(f)
  BY <1>1, <1>5 DEF FieldOf
<1>7. LastStep(h) + 1 = Len(ps)
  <2>1. FieldOf(h).kind \in {"simple_vec", "struct_vec"} => h.count = Len(w)
    BY <1>1, <1>5, <1>6
  <2> QED BY <1>1, <1>2, <1>6, <2>1, LastPart
<1>8. LastStep(h) \in Nat /\ Len(ps) \in Nat
  <2>1. Len(ps) \in Nat \ {0}
    BY <1>1, <1>2, FieldSteps
  <2>2. h.count \in Nat
    BY DEF Moved, DecF
  <2>3. LastStep(h) \in {0, 1, h.count}
    BY DEF LastStep
  <2> QED BY <2>1, <2>2, <2>3
<1>9. (s = LastStep(h)) <=> (s + 1 = Len(ps))
  BY <1>4, <1>7, <1>8
<1>10. /\ e.type = t /\ e.base = f.base /\ e.pos = q
       /\ s + 1 = Len(ps) => /\ e.field = k + 1 /\ e.step = 0 /\ e.count = 0
                             /\ e.value = << >> /\ e.msg = Append(f.msg, v)
       /\ s + 1 # Len(ps) => /\ e.field = k /\ e.step = s + 1 /\ e.count = c
                             /\ e.value = v /\ e.msg = f.msg
  BY <1>5, <1>9 DEF Stepped
<1>11. e.field = NextField(t, m, k, s) /\ e.step = NextStep(t, m, k, s)
  BY <1>2, <1>10 DEF NextField, NextStep
<1>12. /\ Place(t, m, NextField(t, m, k, s), NextStep(t, m, k, s))
       /\ Done(t, m, NextField(t, m, k, s), NextStep(t, m, k, s)) =
            Done(t, m, k, s) \o PartsAt(t, m, k)[s + 1]
  BY <1>2, <1>3, <1>4, DoneNext
<1>13. PICK d, x, y : d = ReadOf(f, m) /\ x = NextOf(f, m) /\ y = ReadOf(e, m)
  OBVIOUS
<1>14. y = d \o x /\ d \in Seq(Byte) /\ x \in Seq(Byte)
  BY <1>1, <1>2, <1>10, <1>11, <1>12, <1>13 DEF ReadOf, NextOf
<1>15. e.pos = Len(y) + 0
  <2>1. Len(y) = Len(d) + Len(x)
    BY <1>14, StartsLess
  <2>2. Len(d) \in Nat /\ Len(x) \in Nat
    BY <1>14
  <2> QED BY <1>10, <1>13, <2>1, <2>2
<1>16. e.msg = SubSeq(m, 1, e.field - 1)
  <2>1. CASE s + 1 = Len(ps)
    <3>1. v = w
      BY <1>1, <2>1 DEF KeptNext
    <3>2. k \in 1..Len(m) /\ IsList(m)
      BY <1>2, <1>3, MessageList
    <3>3. Append(SubSeq(m, 1, k - 1), m[k]) = SubSeq(m, 1, k)
      BY <3>2, Firsts
    <3>4. e.field - 1 = k
      <4>1. k \in Nat /\ e.field = k + 1
        BY <1>2, <1>10, <2>1
      <4> QED BY <4>1
    <3> QED BY <1>1, <1>3, <1>10, <2>1, <3>1, <3>3, <3>4
  <2>2. CASE s + 1 # Len(ps)
    BY <1>3, <1>10, <2>2
  <2> QED BY <2>1, <2>2
<1>17. ASSUME ~AtEnd(e) PROVE Kept(e, m[e.field])
  <2>1. e.step < Len(Parts(FieldOf(e), m[e.field]))
    <3>1. Place(t, m, e.field, e.step)
      BY <1>11, <1>12
    <3>2. e.field <= Len(Fields[t])
      <4>1. e.field \in Nat
        BY <3>1, <1>4 DEF Place
      <4> QED BY <1>4, <1>10, <1>17, <4>1 DEF AtEnd
    <3>3. PartsAt(t, m, e.field) = Parts(FieldOf(e), m[e.field])
      BY <1>10 DEF PartsAt, FieldOf
    <3> QED BY <3>1, <3>2, <3>3 DEF Place
  <2>2. CASE s + 1 = Len(ps)
    BY <1>10, <2>1, <2>2 DEF Kept
  <2>3. CASE s + 1 # Len(ps)
    <3>1. v = SubSeq(w, 1, s) /\ c = Len(w)
      BY <1>1, <2>3 DEF KeptNext
    <3>2. e.step # 0 /\ e.step - 1 = s
      BY <1>4, <1>10, <2>3
    <3> QED BY <1>1, <1>10, <2>1, <2>3, <3>1, <3>2 DEF Kept
  <2> QED BY <2>2, <2>3
<1>18. Place(e.type, m, e.field, e.step)
  BY <1>10, <1>11, <1>12
<1> QED BY <1>3, <1>10, <1>13, <1>15, <1>16, <1>17, <1>18 DEF DecAt

\* An inner call was given the length of its image, all of which is received.
Inner(f, m, r) ==
  /\ f.size = Len(Image[f.type][m]) /\ f.size <= IntMax /\ f.base + f.size <= r

\* The outermost call was given what is received.
Outer(f, r) == f.base = 0 /\ f.size = r

\* What fits is received; only the outermost call can meet a part that does
\* not fit, and then the end of the image is missing.
LEMMA NextFits ==
  ASSUME NEW f, DecF(f), ~AtEnd(f), NEW mm, NEW m, NEW r \in Nat, r <= IntMax,
         IntMax \in Nat, DecAt(mm, f, m, r, 0), Outer(f, r) \/ Inner(f, m, r),
         NEW q \in Nat, q <= Len(NextOf(f, m))
  PROVE  /\ Fits(f, q) => f.base + f.pos + q <= r
         /\ ~Fits(f, q) => Outer(f, r) /\ r < Len(Image[f.type][m])
<1>1. /\ Len(ReadOf(f, m)) \in Nat /\ Len(NextOf(f, m)) \in Nat
      /\ Len(Image[f.type][m]) \in Nat
      /\ Len(ReadOf(f, m)) + Len(NextOf(f, m)) <= Len(Image[f.type][m])
  BY NextOfImage
<1>2. PICK d, x, l : /\ d = Len(ReadOf(f, m)) /\ x = Len(NextOf(f, m))
                     /\ l = Len(Image[f.type][m])
  OBVIOUS
<1>3. d \in Nat /\ x \in Nat /\ l \in Nat /\ d + x <= l /\ q <= x
  BY <1>1, <1>2
<1>4. /\ f.base \in Nat /\ f.size \in Nat /\ f.pos \in Nat
      /\ f.len = IntOf(f.size) /\ f.pos = d
  BY <1>2, <1>3 DEF DecF, DecAt
<1>5. f.size <= IntMax => f.len = f.size
  BY <1>4 DEF IntOf
<1>6. CASE Outer(f, r)
  <2>1. f.base = 0 /\ f.len = r
    BY <1>5, <1>6 DEF Outer
  <2>2. Fits(f, q) <=> d + q <= r
    BY <1>4, <2>1 DEF Fits
  <2>3. d + q <= r => f.base + f.pos + q <= r
    BY <1>3, <1>4, <2>1
  <2>4. ~(d + q <= r) => r < l
    BY <1>3
  <2> QED BY <1>2, <1>6, <2>2, <2>3, <2>4
<1>7. CASE Inner(f, m, r)
  <2>1. f.size = l /\ f.len = l /\ f.base + l <= r
    BY <1>2, <1>5, <1>7 DEF Inner
  <2>2. d + q <= l
    BY <1>3
  <2>3. Fits(f, q)
    BY <1>4, <2>1, <2>2 DEF Fits
  <2>4. f.base + f.pos + q <= r
    BY <1>3, <1>4, <2>1, <2>2
  <2> QED BY <2>3, <2>4
<1> QED BY <1>6, <1>7

\* The size of a field is read, accepted, and kept.
LEMMA CountOn ==
  ASSUME NEW n \in Nat, NEW mm \in [0..(n - 1) -> Byte], NEW r \in Nat,
         r <= n, r <= IntMax, IntMax \in Nat,
         NEW f, DecF(f), ~AtEnd(f), NEW m, DecAt(mm, f, m, r, 0),
         Outer(f, r) \/ Inner(f, m, r), ReadsCount(f), Fits(f, ReadSize(f)),
         NEW c, c = FromNet(TakeFrom(mm, f.base + f.pos, ReadSize(f)))
  PROVE  /\ ~CountRefused(f, c)
         /\ \A h, e : /\ Moved(f, h, f.pos + ReadSize(f), c)
                      /\ Stepped(h, e, << >>)
                      => DecAt(mm, e, m, r, 0) /\ e.base + e.pos <= r
<1>1. PICK w, b : w = m[f.field] /\ b = NextOf(f, m)
  OBVIOUS
<1>2. /\ IsField(FieldOf(f)) /\ IsValue(FieldOf(f), w) /\ LegalValue(FieldOf(f), w)
      /\ b \in Seq(Byte) /\ Holds(mm, f.base + Len(ReadOf(f, m)), b, r)
      /\ Len(ReadOf(f, m)) \in Nat
  BY <1>1, NextOfImage
<1>3. b = Parts(FieldOf(f), w)[f.step + 1]
  BY <1>1 DEF NextOf
<1>4. /\ ReadSize(f) = SizeWidth /\ IsList(w) /\ Len(w) \in Nat /\ f.step = 0
      /\ Len(b) = SizeWidth /\ FromNet(b) = Len(w) /\ ~CountRefused(f, Len(w))
      /\ Len(Parts(FieldOf(f), w)) = 1 => w = << >>
  BY <1>2, <1>3, CountRead
<1>5. PICK at : at = f.base + f.pos
  OBVIOUS
<1>6. f.base \in Nat /\ f.pos \in Nat /\ at \in Nat /\ at = f.base + Len(ReadOf(f, m))
  BY <1>2, <1>5, SMTT(30) DEF DecF, DecAt
<1>7. ReadSize(f) = Len(b) /\ Len(b) \in Nat /\ Len(b) <= Len(NextOf(f, m))
  BY <1>1, <1>2, <1>4
<1>8. f.base + f.pos + Len(b) <= r
  <2>1. PICK q \in Nat : q = Len(b)
    BY <1>7
  <2>2. q <= Len(NextOf(f, m)) /\ Fits(f, q)
    BY <1>7, <2>1
  <2>3. f.base + f.pos + q <= r
    BY <2>2, NextFits
  <2> QED BY <2>1, <2>3
<1>9. TakeFrom(mm, at, Len(b)) = b
  <2>1. at + Len(b) <= r /\ Holds(mm, at, b, r)
    BY <1>2, <1>5, <1>6, <1>8
  <2> QED BY <1>2, <1>6, <2>1, TakeFromHeld
<1>10. c = Len(w)
  BY <1>4, <1>5, <1>7, <1>9
<1>11. ASSUME NEW h, NEW e, Moved(f, h, f.pos + ReadSize(f), c), Stepped(h, e, << >>)
       PROVE  DecAt(mm, e, m, r, 0) /\ e.base + e.pos <= r
  <2>1. PICK v : v = << >>
    OBVIOUS
  <2>2. KeptNext(f, w, v)
    <3>1. SubSeq(w, 1, 0) = << >>
      BY <1>4, Firsts
    <3> QED BY <1>4, <2>1, <3>1 DEF KeptNext
  <2>3. PICK q : q = f.pos + ReadSize(f)
    OBVIOUS
  <2>4. q = Len(ReadOf(f, m)) + Len(NextOf(f, m))
    BY <1>1, <1>2, <1>7, <2>3 DEF DecAt
  <2>5. DecAt(mm, e, m, r, 0)
    BY <1>1, <1>10, <1>11, <2>1, <2>2, <2>3, <2>4, DecodeOn
  <2>6. e.base = f.base /\ e.pos = q
    BY <1>11, <2>3 DEF Moved, Stepped
  <2>7. e.base + e.pos <= r
    BY <1>6, <1>7, <1>8, <2>3, <2>6
  <2> QED BY <2>5, <2>7
<1> QED BY <1>4, <1>10, <1>11

\* A value is read, and kept.
LEMMA ValueOn ==
  ASSUME NEW n \in Nat, NEW mm \in [0..(n - 1) -> Byte], NEW r \in Nat,
         r <= n, r <= IntMax, IntMax \in Nat,
         NEW f, DecF(f), ~AtEnd(f), NEW m, DecAt(mm, f, m, r, 0),
         Outer(f, r) \/ Inner(f, m, r), ~ReadsCount(f), ~ReadsSubLen(f),
         Fits(f, ReadSize(f)),
         NEW b, b = TakeFrom(mm, f.base + f.pos, ReadSize(f)),
         NEW v, v = CASE FieldOf(f).kind = "simple" -> FromNet(b)
                      [] FieldOf(f).kind = "string" -> b
                      [] OTHER -> Append(f.value, FromNet(b)),
         NEW h, Moved(f, h, f.pos + ReadSize(f), f.count),
         NEW e, Stepped(h, e, v)
  PROVE  DecAt(mm, e, m, r, 0) /\ e.base + e.pos <= r
<1>1. PICK w, x : w = m[f.field] /\ x = NextOf(f, m)
  OBVIOUS
<1>2. /\ IsField(FieldOf(f)) /\ IsValue(FieldOf(f), w) /\ Kept(f, w)
      /\ x \in Seq(Byte) /\ Holds(mm, f.base + Len(ReadOf(f, m)), x, r)
      /\ Len(ReadOf(f, m)) \in Nat
  BY <1>1, NextOfImage
<1>3. x = Parts(FieldOf(f), w)[f.step + 1] /\ f.step \in Nat
  BY <1>1 DEF NextOf, DecF
<1>4. PICK u : u = CASE FieldOf(f).kind = "simple" -> FromNet(x)
                     [] FieldOf(f).kind = "string" -> x
                     [] OTHER -> Append(f.value, FromNet(x))
  OBVIOUS
<1>5. ReadSize(f) = Len(x) /\ KeptNext(f, w, u)
  BY <1>2, <1>3, <1>4, ValueRead
<1>6. PICK at : at = f.base + f.pos
  OBVIOUS
<1>7. f.base \in Nat /\ f.pos \in Nat /\ at \in Nat /\ at = f.base + Len(ReadOf(f, m))
  BY <1>2, <1>6, SMTT(30) DEF DecF, DecAt
<1>8. Len(x) \in Nat
  BY <1>2
<1>9. f.base + f.pos + Len(x) <= r
  <2>1. PICK q \in Nat : q = Len(x)
    BY <1>8
  <2>2. q <= Len(NextOf(f, m)) /\ Fits(f, q)
    BY <1>1, <1>5, <2>1
  <2>3. f.base + f.pos + q <= r
    BY <2>2, NextFits
  <2> QED BY <2>1, <2>3
<1>10. TakeFrom(mm, at, Len(x)) = x
  <2>1. at + Len(x) <= r /\ Holds(mm, at, x, r)
    BY <1>2, <1>6, <1>7, <1>9
  <2> QED BY <1>2, <1>7, <2>1, TakeFromHeld
<1>11. b = x
  BY <1>5, <1>6, <1>10
<1>12. KeptNext(f, m[f.field], v)
  BY <1>1, <1>4, <1>5, <1>11
<1>13. PICK q : q = f.pos + ReadSize(f)
  OBVIOUS
<1>14. q = Len(ReadOf(f, m)) + Len(NextOf(f, m))
  BY <1>1, <1>2, <1>5, <1>13 DEF DecAt
<1>15. /\ f.step + 1 # Len(Parts(FieldOf(f), w)) => f.count = Len(w)
       /\ FieldOf(f).kind \in {"simple_vec", "struct_vec"} => f.count = Len(w)
  <2>1. f.step # 0 => f.count = Len(w)
    BY <1>2 DEF Kept
  <2>2. f.step = 0 => FieldOf(f).kind = "simple"
    <3>1. f.step = 0 => FieldOf(f).kind \notin {"string", "simple_vec", "struct_vec"}
      BY DEF ReadsCount
    <3>2. FieldOf(f).kind # "struct"
      BY DEF ReadsSubLen
    <3> QED BY <1>2, <3>1, <3>2, KindCases
  <2>3. FieldOf(f).kind = "simple" => Len(Parts(FieldOf(f), w)) = 1
    BY <1>2, PartsSimple
  <2>4. CASE f.step = 0
    <3>1. FieldOf(f).kind = "simple" /\ f.step + 1 = Len(Parts(FieldOf(f), w))
      BY <2>2, <2>3, <2>4
    <3> QED BY <3>1
  <2>5. CASE f.step # 0
    BY <2>1, <2>5
  <2> QED BY <2>4, <2>5
<1>16. PICK c : c = f.count
  OBVIOUS
<1>17. DecAt(mm, e, m, r, 0)
  <2>1. /\ f.step + 1 # Len(Parts(FieldOf(f), m[f.field])) => c = Len(m[f.field])
        /\ FieldOf(f).kind \in {"simple_vec", "struct_vec"} => c = Len(m[f.field])
    BY <1>1, <1>15, <1>16
  <2>2. Moved(f, h, q, c)
    BY <1>13, <1>16
  <2>3. PICK p, j : p = 0 /\ j = v
    OBVIOUS
  <2>4. DecAt(mm, f, m, r, p) /\ Stepped(h, e, j) /\ KeptNext(f, m[f.field], j)
    BY <1>12, <2>3
  <2> QED BY <1>14, <2>1, <2>2, <2>4, DecodeOn
<1>18. e.base = f.base /\ e.pos = q
  BY <1>13 DEF Moved, Stepped
<1>19. e.base + e.pos <= r
  BY <1>5, <1>7, <1>8, <1>9, <1>13, <1>18
<1> QED BY <1>17, <1>19

\* What ends behind r is inside what ends behind r.
LEMMA CutBehind ==
  ASSUME NEW b \in Nat, NEW d \in Nat, NEW s \in Nat, NEW l \in Nat, NEW i \in Nat,
         NEW r \in Nat, d + (s + l) <= i, r < (b + d) + s + l
  PROVE  ~(b + i <= r)
  OBVIOUS

\* The length in front of an inner message is read; the message is behind it,
\* and only the outermost call can meet one whose end is missing.
LEMMA SubOn ==
  ASSUME NEW n \in Nat, NEW mm \in [0..(n - 1) -> Byte], NEW r \in Nat,
         r <= n, r <= IntMax, IntMax \in Nat,
         NEW f, DecF(f), ~AtEnd(f), NEW m, DecAt(mm, f, m, r, 0),
         Outer(f, r) \/ Inner(f, m, r), ReadsSubLen(f), Fits(f, ReadSize(f)),
         NEW t, t = FieldOf(f).sub,
         NEW x, x = SubOf(FieldOf(f), m[f.field], f.step),
         NEW c, c = FromNet(TakeFrom(mm, f.base + f.pos, ReadSize(f)))
  PROVE  /\ ReadSize(f) = SizeWidth
         /\ x \in Message[t] /\ x \in Legal[t] /\ c = Len(Image[t][x])
         /\ c \in Nat /\ c <= IntMax /\ f.base + f.pos + SizeWidth <= r
         /\ Holds(mm, f.base + f.pos + SizeWidth, Image[t][x], r)
         /\ r < f.base + f.pos + SizeWidth + c =>
              Outer(f, r) /\ r < Len(Image[f.type][m])
<1>1. PICK w, b : w = m[f.field] /\ b = NextOf(f, m)
  OBVIOUS
<1>2. /\ IsField(FieldOf(f)) /\ IsValue(FieldOf(f), w) /\ LegalValue(FieldOf(f), w)
      /\ Kept(f, w)
      /\ b \in Seq(Byte) /\ Holds(mm, f.base + Len(ReadOf(f, m)), b, r)
      /\ Len(ReadOf(f, m)) \in Nat /\ Len(b) \in Nat /\ Len(Image[f.type][m]) \in Nat
      /\ Len(ReadOf(f, m)) + Len(b) <= Len(Image[f.type][m])
  BY <1>1, NextOfImage
<1>3. f.step \in Nat /\ b = Parts(FieldOf(f), w)[f.step + 1]
  BY <1>1 DEF NextOf, DecF
<1>4. /\ ReadSize(f) = SizeWidth /\ t \in Type /\ x \in Message[t] /\ x \in Legal[t]
      /\ SubFits(t, x) /\ b = SubImage(t, x)
  <2>1. PICK v : v = IF FieldOf(f).kind = "struct" THEN x ELSE Append(f.value, x)
    OBVIOUS
  <2> QED BY <1>1, <1>2, <1>3, <2>1, SubRead
<1>5. PICK im, l, a : im = Image[t][x] /\ l = Len(im) /\ a = ToNet(l, SizeWidth)
  OBVIOUS
<1>6. im \in Seq(Byte) /\ l \in Nat /\ Shifted(l, SizeWidth) = 0 /\ l <= IntMax
  <2>1. im \in Seq(Byte)
    BY <1>4, <1>5, MessageOf
  <2> QED BY <1>4, <1>5, <2>1 DEF SubFits, Fits32
<1>7. a \in Seq(Byte) /\ Len(a) = SizeWidth /\ FromNet(a) = l /\ SizeWidth \in Nat
  BY <1>5, <1>6, SizeBytes, FromNetToNet, BaseNat
<1>8. b = a \o im /\ Len(b) = SizeWidth + l
  <2>1. b = a \o im
    BY <1>4, <1>5 DEF SubImage
  <2>2. Len(a \o im) = Len(a) + Len(im)
    BY <1>6, <1>7, StartsLess
  <2> QED BY <1>5, <1>7, <2>1, <2>2
<1>9. PICK at : at = f.base + f.pos
  OBVIOUS
<1>10. f.base \in Nat /\ f.pos \in Nat /\ at \in Nat /\ at = f.base + Len(ReadOf(f, m))
       /\ f.pos = Len(ReadOf(f, m))
  BY <1>2, <1>9, SMTT(30) DEF DecF, DecAt
<1>11. Holds(mm, at, a, r) /\ Holds(mm, at + SizeWidth, im, r)
  <2>1. Holds(mm, at, b, r)
    BY <1>2, <1>10
  <2>2. Holds(mm, at, a, r) /\ Holds(mm, at + Len(a), im, r)
    BY <1>6, <1>7, <1>8, <1>10, <2>1, HoldsConcat, ZenonT(40)
  <2> QED BY <1>7, <2>2
<1>12. at + SizeWidth <= r
  <2>1. PICK q \in Nat : q = SizeWidth
    BY <1>7
  <2>2. q <= Len(NextOf(f, m)) /\ Fits(f, q)
    BY <1>1, <1>4, <1>6, <1>8, <2>1
  <2>3. f.base + f.pos + q <= r
    BY <2>2, NextFits
  <2> QED BY <1>9, <2>1, <2>3
<1>13. c = l
  <2>1. at + Len(a) <= r
    BY <1>7, <1>12
  <2>2. TakeFrom(mm, at, Len(a)) = a
    BY <1>7, <1>10, <1>11, <2>1, TakeFromHeld
  <2> QED BY <1>4, <1>7, <1>9, <2>2
<1>14. ASSUME r < at + SizeWidth + c PROVE Outer(f, r) /\ r < Len(Image[f.type][m])
  <2>1. PICK d, k, i, s : /\ d = Len(ReadOf(f, m)) /\ k = Len(b)
                          /\ i = Len(Image[f.type][m]) /\ s = SizeWidth
    OBVIOUS
  <2>2. /\ d \in Nat /\ i \in Nat /\ s \in Nat /\ d + k <= i /\ k = s + l
        /\ at = f.base + d /\ r < at + s + l
    BY <1>2, <1>7, <1>8, <1>10, <1>13, <1>14, <2>1
  <2>3. ~(f.base + i <= r)
    <3>1. PICK fb \in Nat : fb = f.base
      BY <1>10
    <3>2. d \in Nat /\ i \in Nat /\ s \in Nat /\ l \in Nat /\ d + (s + l) <= i
      BY <1>6, <2>2
    <3>3. r < (fb + d) + s + l
      BY <2>2, <3>1
    <3>4. ~(fb + i <= r)
      BY <3>2, <3>3, CutBehind
    <3> QED BY <3>1, <3>4
  <2>4. ~Inner(f, m, r)
    BY <2>1, <2>3 DEF Inner
  <2>5. Outer(f, r)
    BY <2>4
  <2>6. f.base = 0
    BY <2>5 DEF Outer
  <2>7. r < i
    BY <2>2, <2>3, <2>6
  <2> QED BY <2>1, <2>5, <2>7
<1> QED BY <1>4, <1>5, <1>6, <1>9, <1>11, <1>12, <1>13, <1>14

\* The call that waits has read the length, and the inner one begins.
LEMMA CallOn ==
  ASSUME NEW n \in Nat, NEW mm \in [0..(n - 1) -> Byte], NEW r \in Nat,
         r <= n, r <= IntMax, IntMax \in Nat,
         NEW f, DecF(f), ~AtEnd(f), NEW m, DecAt(mm, f, m, r, 0),
         Outer(f, r) \/ Inner(f, m, r), ReadsSubLen(f), Fits(f, ReadSize(f)),
         NEW x, x = SubOf(FieldOf(f), m[f.field], f.step),
         NEW c, c = FromNet(TakeFrom(mm, f.base + f.pos, ReadSize(f))),
         NEW h, Moved(f, h, f.pos + ReadSize(f), f.count),
         NEW e, DecF(e), e.type = FieldOf(f).sub, e.base = h.base + h.pos,
         e.size = c, e.pos = 0, e.field = 1, e.step = 0, e.count = 0,
         e.value = << >>, e.msg = << >>
  PROVE  /\ DecAt(mm, h, m, r, SizeWidth) /\ h.base + h.pos <= r
         /\ DecAt(mm, e, x, r, 0)
         /\ e.base + e.size <= r => Inner(e, x, r)
         /\ e.base + e.size > r => Outer(f, r) /\ r < Len(Image[f.type][m])
<1>1. PICK t : t = FieldOf(f).sub
  OBVIOUS
<1>2. /\ ReadSize(f) = SizeWidth
      /\ x \in Message[t] /\ x \in Legal[t] /\ c = Len(Image[t][x])
      /\ c \in Nat /\ c <= IntMax /\ f.base + f.pos + SizeWidth <= r
      /\ Holds(mm, f.base + f.pos + SizeWidth, Image[t][x], r)
      /\ r < f.base + f.pos + SizeWidth + c =>
           Outer(f, r) /\ r < Len(Image[f.type][m])
  BY <1>1, SubOn
<1>3. /\ f.base \in Nat /\ f.pos \in Nat /\ SizeWidth \in Nat
      /\ h.base = f.base /\ h.pos = f.pos + SizeWidth
  BY <1>2, BaseNat DEF DecF, Moved
<1>4. e.base = f.base + f.pos + SizeWidth /\ e.base \in Nat
  BY <1>3
<1>5. DecAt(mm, e, x, r, 0)
  <2>1. /\ x \in Message[e.type] /\ x \in Legal[e.type]
        /\ Holds(mm, e.base, Image[e.type][x], r)
    BY <1>1, <1>2, <1>4
  <2> QED BY <2>1, DecodeFirst
<1>6. DecAt(mm, h, m, r, SizeWidth)
  <2>1. /\ h.type = f.type /\ h.field = f.field /\ h.step = f.step /\ h.base = f.base
        /\ h.msg = f.msg /\ h.count = f.count /\ h.value = f.value
    BY DEF Moved
  <2>2. /\ ReadOf(h, m) = ReadOf(f, m) /\ FieldOf(h) = FieldOf(f)
        /\ AtEnd(h) <=> AtEnd(f)
    BY <2>1 DEF ReadOf, FieldOf, AtEnd
  <2>3. Kept(h, m[h.field])
    <3>1. Kept(f, m[f.field])
      BY DEF DecAt
    <3> QED BY <2>1, <2>2, <3>1 DEF Kept
  <2>4. h.pos = Len(ReadOf(h, m)) + SizeWidth
    <3>1. f.pos = Len(ReadOf(f, m))
      <4>1. Len(ReadOf(f, m)) \in Nat
        BY NextOfImage
      <4> QED BY <4>1 DEF DecAt
    <3> QED BY <1>3, <2>2, <3>1
  <2>5. /\ m \in Message[f.type] /\ m \in Legal[f.type]
        /\ Place(f.type, m, f.field, f.step)
        /\ Holds(mm, f.base, Image[f.type][m], r)
        /\ f.msg = SubSeq(m, 1, f.field - 1)
    BY DEF DecAt
  <2> QED BY <2>1, <2>3, <2>4, <2>5 DEF DecAt
<1>7. e.size = Len(Image[e.type][x]) /\ e.size <= IntMax
  BY <1>1, <1>2
<1>8. e.base + e.size > r => r < f.base + f.pos + SizeWidth + c
  BY <1>2, <1>4
<1> QED BY <1>2, <1>3, <1>4, <1>5, <1>6, <1>7, <1>8 DEF Inner

\* An inner call that has come to its end has read the whole message.
LEMMA DecodeAll ==
  ASSUME NEW f, DecF(f), AtEnd(f), NEW mm, NEW m, NEW r, NEW p, DecAt(mm, f, m, r, p)
  PROVE  /\ f.msg = m /\ Len(Image[f.type][m]) \in Nat
         /\ f.pos = Len(Image[f.type][m]) + p
<1>1. PICK t, k, s : t = f.type /\ k = f.field /\ s = f.step
  OBVIOUS
<1>2. /\ t \in Type /\ m \in Message[t] /\ Place(t, m, k, s)
      /\ f.msg = SubSeq(m, 1, k - 1) /\ f.pos = Len(Done(t, m, k, s)) + p
      /\ k \in 1..(Len(Fields[t]) + 1) /\ k > Len(Fields[t])
  BY <1>1 DEF DecF, DecAt, ReadOf, AtEnd
<1>3. IsList(m) /\ Len(m) = Len(Fields[t]) /\ Len(Fields[t]) \in Nat
  BY <1>2, MessageList
<1>4. k = Len(Fields[t]) + 1 /\ k - 1 = Len(m)
  BY <1>2, <1>3
<1>5. f.msg = m
  BY <1>2, <1>3, <1>4, Firsts
<1>6. Done(t, m, k, s) = Image[t][m]
  <2>1. s = 0
    BY <1>2, <1>3, <1>4 DEF Place
  <2> QED BY <1>2, <1>4, <2>1, DoneEnd
<1>7. Image[t][m] \in Seq(Byte)
  BY <1>2, MessageOf
<1> QED BY <1>1, <1>2, <1>5, <1>6, <1>7

\* The inner call has ended: the caller skips its bytes and keeps its message.
LEMMA ReturnOn ==
  ASSUME NEW mm, NEW r \in Nat, r <= IntMax, IntMax \in Nat,
         NEW f, DecF(f), NEW g, DecF(g), AtEnd(g), DecNest(f, g),
         NEW m, DecAt(mm, f, m, r, SizeWidth), Outer(f, r) \/ Inner(f, m, r),
         NEW x, x = SubOf(FieldOf(f), m[f.field], f.step),
         DecAt(mm, g, x, r, 0), Inner(g, x, r),
         NEW v, v = IF FieldOf(f).kind = "struct" THEN g.msg
                    ELSE Append(f.value, g.msg)
  PROVE  /\ Fits(f, g.size)
         /\ \A h, e : /\ Moved(f, h, f.pos + g.size, f.count) /\ Stepped(h, e, v)
                      => DecAt(mm, e, m, r, 0) /\ e.base + e.pos <= r
<1>1. PICK w, b, t : w = m[f.field] /\ b = NextOf(f, m) /\ t = FieldOf(f).sub
  OBVIOUS
<1>2. ~AtEnd(f) /\ ReadsSubLen(f) /\ g.type = t /\ g.base = f.base + f.pos
  BY <1>1 DEF DecNest
<1>3. /\ IsField(FieldOf(f)) /\ IsValue(FieldOf(f), w) /\ LegalValue(FieldOf(f), w)
      /\ Kept(f, w)
      /\ Len(ReadOf(f, m)) \in Nat /\ Len(b) \in Nat /\ Len(Image[f.type][m]) \in Nat
      /\ Len(ReadOf(f, m)) + Len(b) <= Len(Image[f.type][m])
  <2>1. PICK p : p = SizeWidth
    OBVIOUS
  <2>2. DecAt(mm, f, m, r, p)
    BY <2>1
  <2> QED BY <1>1, <1>2, <2>2, NextOfImage
<1>4. f.step \in Nat /\ b = Parts(FieldOf(f), w)[f.step + 1]
  BY <1>1 DEF NextOf, DecF
<1>5. g.msg = x
  BY DecodeAll
<1>6. /\ KeptNext(f, w, v) /\ t \in Type /\ x \in Message[t] /\ SubFits(t, x)
      /\ b = SubImage(t, x)
  <2>1. v = IF FieldOf(f).kind = "struct" THEN x ELSE Append(f.value, x)
    BY <1>5
  <2> QED BY <1>1, <1>2, <1>3, <1>4, <2>1, SubRead
<1>7. Len(b) = SizeWidth + g.size /\ g.size \in Nat /\ SizeWidth \in Nat
  <2>1. PICK im, l, a : im = Image[t][x] /\ l = Len(im) /\ a = ToNet(l, SizeWidth)
    OBVIOUS
  <2>2. im \in Seq(Byte) /\ l \in Nat
    BY <1>6, <2>1, MessageOf
  <2>3. a \in Seq(Byte) /\ Len(a) = SizeWidth /\ SizeWidth \in Nat
    BY <2>1, <2>2, SizeBytes, BaseNat
  <2>4. b = a \o im
    BY <1>6, <2>1 DEF SubImage
  <2>5. Len(a \o im) = Len(a) + Len(im)
    BY <2>2, <2>3, StartsLess
  <2>6. g.size = l
    BY <1>2, <2>1 DEF Inner
  <2> QED BY <2>1, <2>2, <2>3, <2>4, <2>5, <2>6
<1>8. PICK d, k, i, s, z, fb, fp :
        /\ d = Len(ReadOf(f, m)) /\ k = Len(b) /\ i = Len(Image[f.type][m])
        /\ s = SizeWidth /\ z = g.size /\ fb = f.base /\ fp = f.pos
  OBVIOUS
<1>9. /\ d \in Nat /\ k \in Nat /\ i \in Nat /\ s \in Nat /\ z \in Nat
      /\ fb \in Nat /\ fp \in Nat /\ d + k <= i /\ k = s + z /\ fp = d + s
      /\ (fb + fp) + z <= r
  <2>1. fp = d + s /\ fb \in Nat /\ fp \in Nat
    BY <1>8 DEF DecAt, DecF
  <2>2. (fb + fp) + z <= r
    BY <1>2, <1>8 DEF Inner
  <2> QED BY <1>3, <1>7, <1>8, <2>1, <2>2
<1>10. fp + z = d + k /\ fb + (fp + z) <= r
  BY <1>9
<1>11. Fits(f, g.size)
  <2>1. f.size \in Nat /\ f.len = IntOf(f.size)
    BY DEF DecF
  <2>2. f.size <= IntMax => f.len = f.size
    BY <2>1 DEF IntOf
  <2>3. CASE Outer(f, r)
    <3>1. fb = 0 /\ f.len = r
      BY <1>8, <2>2, <2>3 DEF Outer
    <3>2. fp + z <= r
      BY <1>9, <1>10, <3>1
    <3> QED BY <1>8, <3>1, <3>2 DEF Fits
  <2>4. CASE Inner(f, m, r)
    <3>1. f.len = i
      BY <1>8, <2>2, <2>4 DEF Inner
    <3>2. fp + z <= i
      BY <1>9, <1>10
    <3> QED BY <1>8, <3>1, <3>2 DEF Fits
  <2> QED BY <2>3, <2>4
<1>12. /\ f.step + 1 # Len(Parts(FieldOf(f), w)) => f.count = Len(w)
       /\ FieldOf(f).kind \in {"simple_vec", "struct_vec"} => f.count = Len(w)
  <2>1. f.step # 0 => f.count = Len(w)
    BY <1>3 DEF Kept
  <2>2. CASE FieldOf(f).kind = "struct"
    <3>1. Len(Parts(FieldOf(f), w)) = 1 /\ f.step < Len(Parts(FieldOf(f), w))
      BY <1>3, <2>2, PartsStruct DEF Kept
    <3>2. f.step + 1 = Len(Parts(FieldOf(f), w))
      BY <1>4, <3>1
    <3> QED BY <2>2, <3>2
  <2>3. CASE FieldOf(f).kind # "struct"
    <3>1. f.step > 0
      BY <1>2, <2>3 DEF ReadsSubLen
    <3>2. f.step # 0
      BY <1>4, <3>1
    <3> QED BY <2>1, <3>2
  <2> QED BY <2>2, <2>3
<1>13. ASSUME NEW h, NEW e, Moved(f, h, f.pos + g.size, f.count), Stepped(h, e, v)
       PROVE  DecAt(mm, e, m, r, 0) /\ e.base + e.pos <= r
  <2>1. PICK p, q, c : p = SizeWidth /\ q = fp + z /\ c = f.count
    OBVIOUS
  <2>2. Moved(f, h, q, c) /\ DecAt(mm, f, m, r, p)
    BY <1>8, <1>13, <2>1
  <2>3. q = Len(ReadOf(f, m)) + Len(NextOf(f, m))
    BY <1>1, <1>8, <1>10, <2>1
  <2>4. /\ f.step + 1 # Len(Parts(FieldOf(f), m[f.field])) => c = Len(m[f.field])
        /\ FieldOf(f).kind \in {"simple_vec", "struct_vec"} => c = Len(m[f.field])
        /\ KeptNext(f, m[f.field], v)
    BY <1>1, <1>6, <1>12, <2>1
  <2>5. DecAt(mm, e, m, r, 0)
    BY <1>2, <1>13, <2>2, <2>3, <2>4, DecodeOn
  <2>6. e.base = fb /\ e.pos = fp + z
    BY <1>8, <1>13 DEF Moved, Stepped
  <2> QED BY <1>10, <2>5, <2>6
<1> QED BY <1>11, <1>13

-----------------------------------------------------------------------------
(* The calls of Decode under way.                                          *)

\* The bytes a call has read of the part it is at: the length of the message
\* that the innermost call reads now.
Ahead(st, i) == IF i = Len(st) THEN 0 ELSE SizeWidth

\* Every call reads the image of a message: the outermost of m0, the others of
\* the message at which their caller is.
MatchedBy(mm, st, ms, r, m0) ==
  /\ ms[1] = m0 /\ st[1].pos <= r
  /\ \A i \in 1..Len(st) : DecAt(mm, st[i], ms[i], r, Ahead(st, i))
  /\ \A i \in 2..Len(st) : Inner(st[i], ms[i], r)
  /\ \A i \in 1..(Len(st) - 1) :
       ms[i + 1] = SubOf(FieldOf(st[i]), ms[i][st[i].field], st[i].step)

\* An inner call was given more than is received: whatever it makes of the
\* memory behind, a caller will refuse.
DoomedBy(st, r, l) == r < l /\ \E i \in 2..Len(st) : st[i].base + st[i].size > r

\* A call on such a stack.
LEMMA MatchedAt ==
  ASSUME NEW st, NEW r \in Nat, DecStack(st, r), NEW mm, NEW ms, NEW m0,
         MatchedBy(mm, st, ms, r, m0), NEW k \in 1..Len(st),
         NEW f, f = st[k], NEW m, m = ms[k]
  PROVE  /\ DecF(f)
         /\ Outer(f, r) \/ Inner(f, m, r)
         /\ DecAt(mm, f, m, r, Ahead(st, k))
         /\ k = 1 => f.type = Root /\ m = m0 /\ f.base = 0 /\ f.size = r /\ f.pos <= r
         /\ k # 1 => Inner(f, m, r)
<1>1. DecF(f) /\ Len(st) \in Nat
  BY DEF DecStack
<1>2. DecAt(mm, f, m, r, Ahead(st, k))
  BY DEF MatchedBy
<1>3. k = 1 => f.type = Root /\ m = m0 /\ f.base = 0 /\ f.size = r /\ f.pos <= r
  BY DEF MatchedBy, DecStack
<1>4. k # 1 => Inner(f, m, r)
  <2>1. k # 1 => k \in 2..Len(st)
    BY <1>1
  <2> QED BY <2>1 DEF MatchedBy
<1>5. k = 1 => Outer(f, r)
  BY <1>3 DEF Outer
<1> QED BY <1>1, <1>2, <1>3, <1>4, <1>5

\* Only the image of the outermost message can be longer than what is received.
LEMMA MatchedCut ==
  ASSUME NEW st, NEW r \in Nat, DecStack(st, r), NEW mm, NEW ms, NEW m0,
         MatchedBy(mm, st, ms, r, m0), NEW k \in 1..Len(st),
         r < Len(Image[st[k].type][ms[k]])
  PROVE  r < Len(Image[Root][m0])
<1>1. PICK f, m : f = st[k] /\ m = ms[k]
  OBVIOUS
<1>2. /\ DecF(f)
      /\ k = 1 => f.type = Root /\ m = m0
      /\ k # 1 => Inner(f, m, r)
  BY <1>1, MatchedAt
<1>3. k = 1
  <2>1. PICK l : l = Len(Image[f.type][m])
    OBVIOUS
  <2>2. r < l /\ f.base \in Nat /\ f.size \in Nat
    BY <1>1, <1>2, <2>1 DEF DecF
  <2>3. ~Inner(f, m, r)
    BY <2>1, <2>2 DEF Inner
  <2> QED BY <1>2, <2>3
<1> QED BY <1>1, <1>2, <1>3

\* The calls behind k are gone and the one at k has read its next part.
LEMMA MatchedOn ==
  ASSUME NEW st, NEW r \in Nat, DecStack(st, r), NEW mm, NEW ms, NEW m0,
         MatchedBy(mm, st, ms, r, m0), NEW k \in 1..Len(st),
         NEW e, e.type = st[k].type, e.base = st[k].base, e.size = st[k].size,
         DecAt(mm, e, ms[k], r, 0), e.base + e.pos <= r, DecF(e),
         NEW st2, Len(st2) = k, st2[k] = e, \A i \in 1..(k - 1) : st2[i] = st[i]
  PROVE  MatchedBy(mm, st2, ms, r, m0)
<1>1. Len(st) \in Nat /\ k \in Nat \ {0}
  BY DEF DecStack
<1>2. ms[1] = m0
  BY DEF MatchedBy
<1>3. st2[1].pos <= r
  <2>1. CASE k = 1
    <3>1. e.base = 0 /\ e.pos \in Nat /\ st2[1] = e
      BY <2>1 DEF DecStack, DecF
    <3>2. 0 + e.pos <= r
      BY <3>1
    <3> QED BY <3>1, <3>2
  <2>2. CASE k # 1
    <3>1. 1 \in 1..(k - 1)
      BY <1>1, <2>2
    <3> QED BY <3>1 DEF MatchedBy
  <2> QED BY <2>1, <2>2
<1>4. ASSUME NEW i \in 1..Len(st2) PROVE DecAt(mm, st2[i], ms[i], r, Ahead(st2, i))
  <2>1. CASE i = k
    BY <2>1 DEF Ahead
  <2>2. CASE i # k
    <3>1. i \in 1..(k - 1) /\ i \in 1..Len(st) /\ i # Len(st)
      BY <1>1, <2>2
    <3>2. Ahead(st2, i) = SizeWidth /\ Ahead(st, i) = SizeWidth
      BY <2>2, <3>1 DEF Ahead
    <3>3. DecAt(mm, st[i], ms[i], r, Ahead(st, i)) /\ st2[i] = st[i]
      BY <3>1 DEF MatchedBy
    <3> QED BY <3>2, <3>3
  <2> QED BY <2>1, <2>2
<1>5. ASSUME NEW i \in 2..Len(st2) PROVE Inner(st2[i], ms[i], r)
  <2>1. i \in 2..Len(st)
    BY <1>1
  <2>2. Inner(st[i], ms[i], r)
    BY <2>1 DEF MatchedBy
  <2>3. /\ st2[i].type = st[i].type /\ st2[i].base = st[i].base
        /\ st2[i].size = st[i].size
    <3>1. CASE i = k
      BY <3>1
    <3>2. CASE i # k
      <4>1. i \in 1..(k - 1)
        BY <1>1, <3>2
      <4> QED BY <4>1
    <3> QED BY <3>1, <3>2
  <2> QED BY <2>2, <2>3 DEF Inner
<1>6. ASSUME NEW i \in 1..(Len(st2) - 1)
      PROVE  ms[i + 1] = SubOf(FieldOf(st2[i]), ms[i][st2[i].field], st2[i].step)
  <2>1. i \in 1..(k - 1) /\ i \in 1..(Len(st) - 1)
    BY <1>1
  <2>2. st2[i] = st[i]
    BY <2>1
  <2> QED BY <2>1, <2>2 DEF MatchedBy
<1> QED BY <1>2, <1>3, <1>4, <1>5, <1>6 DEF MatchedBy

\* An inner call begins.
LEMMA MatchedPush ==
  ASSUME NEW st, NEW r \in Nat, DecStack(st, r), NEW mm, NEW ms, NEW m0,
         MatchedBy(mm, st, ms, r, m0), NEW n, n = Len(st),
         NEW h, h.type = st[n].type, h.base = st[n].base, h.size = st[n].size,
         h.field = st[n].field, h.step = st[n].step,
         DecAt(mm, h, ms[n], r, SizeWidth), h.base + h.pos <= r, DecF(h),
         NEW x, x = SubOf(FieldOf(st[n]), ms[n][st[n].field], st[n].step),
         NEW e, DecAt(mm, e, x, r, 0), Inner(e, x, r),
         NEW st2, Len(st2) = n + 1, st2[n] = h, st2[n + 1] = e,
         \A i \in 1..(n - 1) : st2[i] = st[i]
  PROVE  \E xs : MatchedBy(mm, st2, xs, r, m0)
<1>1. n \in Nat \ {0}
  BY DEF DecStack
<1>2. PICK xs : xs = [i \in 1..(n + 1) |-> IF i = n + 1 THEN x ELSE ms[i]]
  OBVIOUS
<1>3. xs[n + 1] = x /\ \A i \in 1..n : xs[i] = ms[i]
  <2>1. n + 1 \in 1..(n + 1) /\ \A i \in 1..n : i \in 1..(n + 1) /\ i # n + 1
    BY <1>1
  <2> QED BY <1>2, <2>1
<1>4. xs[1] = m0
  <2>1. 1 \in 1..n
    BY <1>1
  <2> QED BY <1>3, <2>1 DEF MatchedBy
<1>5. st2[1].pos <= r
  <2>1. CASE n = 1
    <3>1. h.base = 0 /\ h.pos \in Nat /\ st2[1] = h
      BY <2>1 DEF DecStack, DecF
    <3>2. 0 + h.pos <= r
      BY <3>1
    <3> QED BY <3>1, <3>2
  <2>2. CASE n # 1
    <3>1. 1 \in 1..(n - 1)
      BY <1>1, <2>2
    <3> QED BY <3>1 DEF MatchedBy
  <2> QED BY <2>1, <2>2
<1>6. ASSUME NEW i \in 1..Len(st2) PROVE DecAt(mm, st2[i], xs[i], r, Ahead(st2, i))
  <2>1. CASE i = n + 1
    BY <1>3, <2>1 DEF Ahead
  <2>2. CASE i = n
    <3>1. i # Len(st2) /\ i \in 1..n
      BY <1>1, <2>2
    <3> QED BY <1>3, <2>2, <3>1 DEF Ahead
  <2>3. CASE i # n + 1 /\ i # n
    <3>1. i \in 1..(n - 1) /\ i \in 1..n /\ i # Len(st) /\ i # Len(st2)
      BY <1>1, <2>3
    <3>2. Ahead(st2, i) = SizeWidth /\ Ahead(st, i) = SizeWidth
      BY <3>1 DEF Ahead
    <3>3. DecAt(mm, st[i], ms[i], r, Ahead(st, i)) /\ st2[i] = st[i] /\ xs[i] = ms[i]
      BY <1>3, <3>1 DEF MatchedBy
    <3> QED BY <3>2, <3>3
  <2> QED BY <2>1, <2>2, <2>3
<1>7. ASSUME NEW i \in 2..Len(st2) PROVE Inner(st2[i], xs[i], r)
  <2>1. CASE i = n + 1
    BY <1>3, <2>1
  <2>2. CASE i # n + 1
    <3>1. i \in 2..Len(st) /\ i \in 1..n
      BY <1>1, <2>2
    <3>2. Inner(st[i], ms[i], r) /\ xs[i] = ms[i]
      BY <1>3, <3>1 DEF MatchedBy
    <3>3. /\ st2[i].type = st[i].type /\ st2[i].base = st[i].base
          /\ st2[i].size = st[i].size
      <4>1. CASE i = n
        BY <4>1
      <4>2. CASE i # n
        <5>1. i \in 1..(n - 1)
          BY <1>1, <3>1, <4>2
        <5> QED BY <5>1
      <4> QED BY <4>1, <4>2
    <3> QED BY <3>2, <3>3 DEF Inner
  <2> QED BY <2>1, <2>2
<1>8. ASSUME NEW i \in 1..(Len(st2) - 1)
      PROVE  xs[i + 1] = SubOf(FieldOf(st2[i]), xs[i][st2[i].field], st2[i].step)
  <2>1. i \in 1..n
    BY <1>1
  <2>2. CASE i = n
    <3>1. FieldOf(h) = FieldOf(st[n])
      BY DEF FieldOf
    <3>2. xs[n] = ms[n] /\ xs[n + 1] = x /\ st2[n] = h
      BY <1>3, <2>1, <2>2
    <3>3. xs[n + 1] = SubOf(FieldOf(h), xs[n][h.field], h.step)
      BY <3>1, <3>2
    <3> QED BY <2>2, <3>2, <3>3
  <2>3. CASE i # n
    <3>1. i \in 1..(n - 1) /\ i \in 1..(Len(st) - 1) /\ i + 1 \in 1..n
      BY <1>1, <2>1, <2>3
    <3>2. st2[i] = st[i] /\ xs[i] = ms[i] /\ xs[i + 1] = ms[i + 1]
      BY <1>3, <2>1, <3>1
    <3>3. ms[i + 1] = SubOf(FieldOf(st[i]), ms[i][st[i].field], st[i].step)
      BY <3>1 DEF MatchedBy
    <3> QED BY <3>2, <3>3
  <2> QED BY <2>2, <2>3
<1>9. MatchedBy(mm, st2, xs, r, m0)
  BY <1>4, <1>5, <1>6, <1>7, <1>8 DEF MatchedBy
<1> QED BY <1>9

\* A call that was given too much stays where it is, as long as its caller
\* waits for it.
LEMMA DoomedKeep ==
  ASSUME NEW st, NEW r, NEW l, DoomedBy(st, r, l), NEW k, Len(st) \in Nat,
         k \in Nat, k >= Len(st),
         NEW st2, Len(st2) = k, \A i \in 1..Len(st) : /\ st2[i].base = st[i].base
                                                      /\ st2[i].size = st[i].size
  PROVE  DoomedBy(st2, r, l)
<1>1. PICK i \in 2..Len(st) : st[i].base + st[i].size > r
  BY DEF DoomedBy
<1>2. i \in 2..Len(st2) /\ i \in 1..Len(st)
  BY <1>1
<1>3. st2[i].base + st2[i].size > r
  BY <1>1, <1>2
<1> QED BY <1>2, <1>3 DEF DoomedBy

\* When it returns, its caller was given too much as well, or refuses.
LEMMA DoomedReturn ==
  ASSUME NEW st, NEW r \in Nat, r <= IntMax, IntMax \in Nat, DecStack(st, r),
         NEW l, DoomedBy(st, r, l), NEW n \in Nat \ {0}, n + 1 = Len(st),
         NEW f, f = st[n], NEW g, g = st[n + 1], Fits(f, g.size),
         NEW st2, Len(st2) = n, \A i \in 1..n : /\ st2[i].base = st[i].base
                                                /\ st2[i].size = st[i].size
  PROVE  DoomedBy(st2, r, l)
<1>1. PICK i \in 2..Len(st) : st[i].base + st[i].size > r
  BY DEF DoomedBy
<1>2. CASE i # n + 1
  <2>1. i \in 2..Len(st2) /\ i \in 1..n
    BY <1>1, <1>2
  <2>2. st2[i].base + st2[i].size > r
    BY <1>1, <2>1
  <2> QED BY <2>1, <2>2 DEF DoomedBy
<1>3. CASE i = n + 1
  <2>1. n \in 1..Len(st) /\ n + 1 \in 1..Len(st) /\ n \in 1..(Len(st) - 1)
    OBVIOUS
  <2>2. DecF(f) /\ DecF(g) /\ DecNest(f, g)
    BY <2>1 DEF DecStack
  <2>3. PICK fb, fp, fs, fl, gb, gs : /\ fb = f.base /\ fp = f.pos /\ fs = f.size
                                      /\ fl = f.len /\ gb = g.base /\ gs = g.size
    OBVIOUS
  <2>4. /\ fb \in Nat /\ fp \in Nat /\ fs \in Nat /\ gs \in Nat
        /\ fl = IntOf(fs) /\ gb = fb + fp /\ gb + gs > r
        /\ fl < 0 \/ fp + gs <= fl
    BY <1>1, <1>3, <2>2, <2>3 DEF DecF, DecNest, Fits
  <2>5. fb + fs > r
    <3>1. CASE fs > IntMax
      BY <2>4, <3>1
    <3>2. CASE ~(fs > IntMax)
      <4>1. fl = fs
        BY <2>4, <3>2 DEF IntOf
      <4>2. fp + gs <= fs
        BY <2>4, <4>1
      <4> QED BY <2>4, <4>2
    <3> QED BY <3>1, <3>2
  <2>6. n # 1
    <3>1. n = 1 => fb = 0 /\ fs = r
      BY <2>3 DEF DecStack
    <3> QED BY <2>4, <2>5, <3>1
  <2>7. n \in 2..Len(st2) /\ n \in 1..n
    BY <2>6
  <2>8. st2[n].base + st2[n].size > r
    BY <2>3, <2>5, <2>7
  <2> QED BY <2>7, <2>8 DEF DoomedBy
<1> QED BY <1>2, <1>3

-----------------------------------------------------------------------------
(* Decode gets back what Encode wrote.                                     *)

\* While Decode runs, every call reads the image of a message of its type, or
\* one of them will be refused; at the end the message is there exactly when
\* nothing of the image was missing.
Matched == \E ms : MatchedBy(mem, stack, ms, rcv, msg)

DecodeInv ==
  /\ EncodeInv
  /\ pc \in {"decode", "done"} =>
       /\ msg \in Legal[Root] /\ len = Len(Image[Root][msg])
       /\ len <= room /\ rcv <= len
  /\ pc = "decode" => Matched \/ DoomedBy(stack, rcv, len)
  /\ pc = "done" => /\ rcv = len => ok /\ got = msg
                    /\ rcv < len => ~ok

\* What Decode knows of the lengths.
LEMMA DecodeSizes ==
  ASSUME DecodeInv, pc = "decode"
  PROVE  /\ FramesInv /\ DecStack(stack, rcv) /\ mem \in [0..(MemSize - 1) -> Byte]
         /\ rcv \in Nat /\ MemSize \in Nat /\ IntMax \in Nat /\ len \in Nat
         /\ rcv <= len /\ rcv <= MemSize /\ rcv <= IntMax
         /\ len = Len(Image[Root][msg]) /\ msg \in Legal[Root]
<1>1. FramesInv /\ len <= room /\ rcv <= len
  BY DEF DecodeInv, EncodeInv
<1>2. /\ room \in Nat /\ room <= MemSize /\ room <= IntMax
      /\ MemSize \in Nat /\ IntMax \in Nat
  BY <1>1, RootImage
<1>3. rcv \in Nat /\ len \in Nat
  BY <1>1 DEF FramesInv
<1>4. rcv <= MemSize /\ rcv <= IntMax
  BY <1>1, <1>2, <1>3
<1>5. DecStack(stack, rcv) /\ mem \in [0..(MemSize - 1) -> Byte]
  BY <1>1 DEF FramesInv
<1> QED BY <1>1, <1>2, <1>3, <1>4, <1>5 DEF DecodeInv

\* Decode goes on.
LEMMA DecodeGoesOn ==
  ASSUME DecodeInv, Next, pc = "decode", UNCHANGED <<msg, room, len, rcv, mem, pc>>,
         Matched' \/ DoomedBy(stack', rcv, len)
  PROVE  DecodeInv'
<1>1. EncodeInv'
  BY EncodeInvNext DEF DecodeInv
<1>2. DoomedBy(stack', rcv, len) => DoomedBy(stack, rcv, len)'
  OBVIOUS
<1> QED BY <1>1, <1>2 DEF DecodeInv

\* Decode refuses what has lost its end.
LEMMA DecodeRefuses ==
  ASSUME DecodeInv, Next, pc = "decode", UNCHANGED <<msg, room, len, rcv>>,
         Return(FALSE), rcv < len
  PROVE  DecodeInv'
<1>1. EncodeInv'
  BY EncodeInvNext DEF DecodeInv
<1>2. pc' = "done" /\ ok' = FALSE
  BY DEF Return
<1>3. rcv \in Nat /\ len \in Nat
  BY DecodeSizes
<1>4. rcv' # len' /\ rcv' <= len'
  BY <1>3
<1> QED BY <1>1, <1>2, <1>4 DEF DecodeInv

\* What is received is the beginning of the image.
LEMMA ReceiveRight ==
  ASSUME DecodeInv, NEW n \in 0..len, NEW fill \in FillBytes, Receive(n, fill)
  PROVE  DecodeInv'
<1>1. /\ pc = "encoded" /\ ok /\ pc' = "decode" /\ rcv' = n /\ EncodeInv /\ FramesInv
      /\ mem' = [i \in DOMAIN mem |-> IF i < n THEN mem[i] ELSE fill]
      /\ stack' = <<DecodeFrame(Root, 0, n)>> /\ UNCHANGED <<msg, room, len, ok, got>>
  BY DEF Receive, DecodeInv, EncodeInv
<1>2. /\ msg \in Legal[Root] /\ len = Len(Image[Root][msg]) /\ len <= room
      /\ Holds(mem, 0, Image[Root][msg], MemSize)
  BY <1>1 DEF EncodeInv
<1>3. EncodeInv'
  BY EncodeInvNext DEF DecodeInv, Next
<1>4. /\ Image[Root][msg] \in Seq(Byte) /\ Len(Image[Root][msg]) \in Nat
      /\ room \in Nat /\ room <= MemSize /\ MemSize \in Nat
      /\ msg \in Message[Root] /\ Root \in Type
      /\ mem \in [0..(MemSize - 1) -> Byte]
  BY <1>1, RootImage DEF FramesInv
<1>5. n \in Nat /\ n <= len /\ n <= MemSize
  BY <1>2, <1>4
<1>6. PICK im, mm, mm2, k : /\ im = Image[Root][msg] /\ mm = mem /\ mm2 = mem'
                            /\ k = MemSize
  OBVIOUS
<1>7. Holds(mm2, 0, im, n)
  <2> SUFFICES ASSUME NEW j \in 1..Len(im), 0 + j - 1 < n
               PROVE  mm2[0 + j - 1] = im[j]
    BY DEF Holds
  <2>1. PICK i : i = 0 + j - 1
    OBVIOUS
  <2>2. Len(im) \in Nat /\ k \in Nat /\ n <= k /\ mm \in [0..(k - 1) -> Byte]
    BY <1>4, <1>5, <1>6
  <2>3. i \in 0..(k - 1) /\ i < n /\ i < k
    BY <1>5, <2>1, <2>2
  <2>4. mm2[i] = mm[i]
    <3>1. DOMAIN mm = 0..(k - 1)
      BY <2>2
    <3>2. mm2 = [y \in DOMAIN mm |-> IF y < n THEN mm[y] ELSE fill]
      BY <1>1, <1>6
    <3> QED BY <2>3, <3>1, <3>2
  <2>5. mm[i] = im[j]
    <3>1. Holds(mm, 0, im, k)
      BY <1>2, <1>6
    <3> QED BY <2>1, <2>3, <3>1 DEF Holds
  <2> QED BY <2>1, <2>4, <2>5
<1>8. PICK f, m0, t, z : f = DecodeFrame(Root, 0, n) /\ m0 = msg /\ t = Root /\ z = 0
  OBVIOUS
<1>9. /\ DecF(f) /\ f.type = t /\ f.base = z /\ f.size = n /\ f.pos = 0
      /\ f.field = 1 /\ f.step = 0 /\ f.count = 0 /\ f.value = << >>
      /\ f.msg = << >>
  <2>1. t \in Type /\ z \in Nat /\ f = DecodeFrame(t, z, n)
    BY <1>4, <1>8
  <2> QED BY <1>5, <2>1, DecodeFrameOf
<1>10. DecAt(mm2, f, m0, n, 0)
  <2>1. /\ m0 \in Message[f.type] /\ m0 \in Legal[f.type]
        /\ Holds(mm2, f.base, Image[f.type][m0], n)
    BY <1>2, <1>4, <1>6, <1>7, <1>8, <1>9
  <2> QED BY <1>9, <2>1, DecodeFirst
<1>11. PICK st : st = stack'
  OBVIOUS
<1>12. Len(st) = 1 /\ st[1] = f
  BY <1>1, <1>8, <1>11
<1>13. PICK ms : ms = <<m0>>
  OBVIOUS
<1>14. MatchedBy(mm2, st, ms, n, m0)
  <2>1. ms[1] = m0
    BY <1>13
  <2>2. \A i \in 1..Len(st) : i = 1 /\ Ahead(st, i) = 0
    BY <1>12 DEF Ahead
  <2>3. \A i \in 1..Len(st) : DecAt(mm2, st[i], ms[i], n, Ahead(st, i))
    BY <1>10, <1>12, <2>1, <2>2
  <2>4. 2..Len(st) = {} /\ 1..(Len(st) - 1) = {}
    BY <1>12
  <2>5. st[1].pos <= n
    BY <1>5, <1>9, <1>12
  <2> QED BY <2>1, <2>3, <2>4, <2>5 DEF MatchedBy
<1>15. MatchedBy(mem', stack', ms, rcv', msg')
  BY <1>1, <1>6, <1>8, <1>11, <1>14
<1>16. Matched'
  BY <1>15 DEF Matched
<1>17. msg' = msg /\ len' = len /\ room' = room /\ rcv' <= len' /\ pc' = "decode"
  BY <1>1, <1>5
<1> QED BY <1>2, <1>3, <1>16, <1>17 DEF DecodeInv

\* The innermost call has read on: the stack is matched, or doomed, as before.
LEMMA TopGoesOn ==
  ASSUME DecodeInv, Next, pc = "decode", UNCHANGED <<msg, room, len, rcv, mem, pc>>,
         NEW n \in Nat \ {0}, n = Len(stack), NEW f, f = stack[n],
         NEW e, DecF(e), e.type = f.type, e.base = f.base, e.size = f.size,
         DecTo(n, e),
         \A m : /\ DecAt(mem, f, m, rcv, 0)
                /\ Outer(f, rcv) \/ Inner(f, m, rcv)
                => DecAt(mem, e, m, rcv, 0) /\ e.base + e.pos <= rcv
  PROVE  DecodeInv'
<1>1. PICK st, st2, mm, r, m0, l : /\ st = stack /\ st2 = stack' /\ mm = mem /\ r = rcv
                                   /\ m0 = msg /\ l = len
  OBVIOUS
<1>2. r \in Nat /\ DecStack(st, r) /\ n \in 1..Len(st)
  BY <1>1, DecodeSizes
<1>3. Len(st2) = n /\ st2[n] = e /\ \A i \in 1..(n - 1) : st2[i] = st[i]
  BY <1>1 DEF DecTo
<1>4. CASE Matched
  <2>1. PICK ms : MatchedBy(mm, st, ms, r, m0)
    BY <1>1, <1>4 DEF Matched
  <2>2. PICK m : m = ms[n]
    OBVIOUS
  <2>3. DecAt(mm, f, m, r, 0) /\ (Outer(f, r) \/ Inner(f, m, r))
    <3>1. f = st[n] /\ Ahead(st, n) = 0
      BY <1>1 DEF Ahead
    <3>2. /\ Outer(f, r) \/ Inner(f, m, r)
          /\ DecAt(mm, f, m, r, Ahead(st, n))
      BY <1>2, <2>1, <2>2, <3>1, MatchedAt
    <3> QED BY <3>1, <3>2
  <2>4. DecAt(mm, e, ms[n], r, 0) /\ e.base + e.pos <= r
    BY <1>1, <2>2, <2>3
  <2>5. e.type = st[n].type /\ e.base = st[n].base /\ e.size = st[n].size
    BY <1>1
  <2>6. MatchedBy(mm, st2, ms, r, m0)
    BY <1>2, <1>3, <2>1, <2>4, <2>5, MatchedOn
  <2>7. Matched'
    BY <1>1, <2>6 DEF Matched
  <2> QED BY <2>7, DecodeGoesOn
<1>5. CASE DoomedBy(stack, rcv, len)
  <2>1. DoomedBy(st, r, l) /\ Len(st) \in Nat /\ n >= Len(st)
    BY <1>1, <1>2, <1>5
  <2>2. \A i \in 1..Len(st) : st2[i].base = st[i].base /\ st2[i].size = st[i].size
    <3> SUFFICES ASSUME NEW i \in 1..Len(st)
                 PROVE  st2[i].base = st[i].base /\ st2[i].size = st[i].size
      OBVIOUS
    <3>1. CASE i = n
      BY <1>1, <1>3, <3>1
    <3>2. CASE i # n
      <4>1. i \in 1..(n - 1)
        BY <1>1, <2>1, <3>2
      <4> QED BY <1>3, <4>1
    <3> QED BY <3>1, <3>2
  <2>3. DoomedBy(st2, r, l)
    BY <1>3, <2>1, <2>2, DoomedKeep
  <2> QED BY <1>1, <2>3, DecodeGoesOn
<1> QED BY <1>4, <1>5 DEF DecodeInv

\* A size is read.
LEMMA DecodeCountRight == ASSUME DecodeInv, DecodeCount PROVE DecodeInv'
<1>1. pc = "decode" /\ UNCHANGED <<msg, room, len, rcv, mem, pc>> /\ Next
  BY DEF DecodeCount, Decoding, Next
<1>2. FramesInv
  BY <1>1, DecodeSizes
<1>3. PICK n, f, h, e, c :
        /\ n \in Nat \ {0} /\ c \in Nat
        /\ n = Len(stack) /\ f = stack[n] /\ DecF(f) /\ ~AtEnd(f)
        /\ Fits(f, ReadSize(f)) /\ ReadsCount(f) /\ ~CountRefused(f, c)
        /\ c = FromNet(TakeFrom(mem, f.base + f.pos, ReadSize(f)))
        /\ Moved(f, h, f.pos + ReadSize(f), c) /\ Stepped(h, e, << >>)
        /\ DecTo(n, e)
  BY <1>2, CountStep, Zenon
<1>4. PICK mm, r, k : mm = mem /\ r = rcv /\ k = MemSize
  OBVIOUS
<1>5. /\ k \in Nat /\ mm \in [0..(k - 1) -> Byte] /\ r \in Nat /\ r <= k
      /\ r <= IntMax /\ IntMax \in Nat
  BY <1>1, <1>4, DecodeSizes
<1>6. ASSUME NEW m, DecAt(mm, f, m, r, 0), Outer(f, r) \/ Inner(f, m, r)
      PROVE  DecAt(mm, e, m, r, 0) /\ e.base + e.pos <= r
  <2>1. c = FromNet(TakeFrom(mm, f.base + f.pos, ReadSize(f)))
    BY <1>3, <1>4
  <2> QED BY <1>3, <1>5, <1>6, <2>1, CountOn
<1>7. DecF(e) /\ e.type = f.type /\ e.base = f.base /\ e.size = f.size
  BY <1>3 DEF Moved, Stepped
<1>8. \A m : /\ DecAt(mem, f, m, rcv, 0)
             /\ Outer(f, rcv) \/ Inner(f, m, rcv)
             => DecAt(mem, e, m, rcv, 0) /\ e.base + e.pos <= rcv
  BY <1>4, <1>6
<1> QED BY <1>1, <1>3, <1>7, <1>8, TopGoesOn

\* A value is read.
LEMMA DecodeReadRight == ASSUME DecodeInv, DecodeRead PROVE DecodeInv'
<1>1. pc = "decode" /\ UNCHANGED <<msg, room, len, rcv, mem, pc>> /\ Next
  BY DEF DecodeRead, Decoding, Next
<1>2. FramesInv
  BY <1>1, DecodeSizes
<1>3. PICK n, f, h, e, b, v :
        /\ n \in Nat \ {0}
        /\ n = Len(stack) /\ f = stack[n] /\ DecF(f) /\ ~AtEnd(f)
        /\ Fits(f, ReadSize(f)) /\ ~ReadsCount(f) /\ ~ReadsSubLen(f)
        /\ b = TakeFrom(mem, f.base + f.pos, ReadSize(f))
        /\ v = CASE FieldOf(f).kind = "simple" -> FromNet(b)
                 [] FieldOf(f).kind = "string" -> b
                 [] OTHER -> Append(f.value, FromNet(b))
        /\ Moved(f, h, f.pos + ReadSize(f), f.count) /\ Stepped(h, e, v)
        /\ DecTo(n, e)
  BY <1>2, ReadStep, Zenon
<1>4. PICK mm, r, k : mm = mem /\ r = rcv /\ k = MemSize
  OBVIOUS
<1>5. /\ k \in Nat /\ mm \in [0..(k - 1) -> Byte] /\ r \in Nat /\ r <= k
      /\ r <= IntMax /\ IntMax \in Nat
  BY <1>1, <1>4, DecodeSizes
<1>6. ASSUME NEW m, DecAt(mm, f, m, r, 0), Outer(f, r) \/ Inner(f, m, r)
      PROVE  DecAt(mm, e, m, r, 0) /\ e.base + e.pos <= r
  <2>1. b = TakeFrom(mm, f.base + f.pos, ReadSize(f))
    BY <1>3, <1>4
  <2> QED BY <1>3, <1>5, <1>6, <2>1, ValueOn, ZenonT(40)
<1>7. DecF(e) /\ e.type = f.type /\ e.base = f.base /\ e.size = f.size
  BY <1>3 DEF Moved, Stepped
<1>8. \A m : /\ DecAt(mem, f, m, rcv, 0)
             /\ Outer(f, rcv) \/ Inner(f, m, rcv)
             => DecAt(mem, e, m, rcv, 0) /\ e.base + e.pos <= rcv
  BY <1>4, <1>6
<1> QED BY <1>1, <1>3, <1>7, <1>8, TopGoesOn

\* An inner Decode begins: on all of its message, or on one that has lost its
\* end.
LEMMA DecodeCallRight == ASSUME DecodeInv, DecodeCall PROVE DecodeInv'
<1>1. pc = "decode" /\ UNCHANGED <<msg, room, len, rcv, mem, pc>> /\ Next
  BY DEF DecodeCall, Decoding, Next
<1>2. FramesInv
  BY <1>1, DecodeSizes
<1>3. PICK n, f, h, e, c :
        /\ n \in Nat \ {0} /\ n = Len(stack) /\ f = stack[n] /\ DecF(f)
        /\ ~AtEnd(f) /\ Fits(f, ReadSize(f)) /\ ReadsSubLen(f)
        /\ c = FromNet(TakeFrom(mem, f.base + f.pos, ReadSize(f))) /\ c \in Nat
        /\ Moved(f, h, f.pos + ReadSize(f), f.count) /\ DecNest(h, e)
        /\ DecF(e) /\ e.type = FieldOf(f).sub /\ e.base = h.base + h.pos
        /\ e.size = c /\ e.pos = 0 /\ e.field = 1 /\ e.step = 0
        /\ e.count = 0 /\ e.value = << >> /\ e.msg = << >>
        /\ DecStack(stack', rcv) /\ Len(stack') = n + 1
        /\ stack'[n + 1] = e /\ stack'[n] = h
        /\ \A i \in 1..(n - 1) : stack'[i] = stack[i]
  BY <1>2, DecCallStep, Zenon
<1>4. PICK st, st2, mm, r, m0, l, k : /\ st = stack /\ st2 = stack' /\ mm = mem /\ r = rcv
                                      /\ m0 = msg /\ l = len /\ k = MemSize
  OBVIOUS
<1>5. /\ k \in Nat /\ mm \in [0..(k - 1) -> Byte] /\ r \in Nat /\ r <= k
      /\ r <= IntMax /\ IntMax \in Nat /\ DecStack(st, r) /\ l = Len(Image[Root][m0])
  BY <1>1, <1>4, DecodeSizes
<1>6. /\ n = Len(st) /\ n \in 1..Len(st) /\ f = st[n]
      /\ Len(st2) = n + 1 /\ st2[n] = h /\ st2[n + 1] = e
      /\ \A i \in 1..(n - 1) : st2[i] = st[i]
  BY <1>3, <1>4
<1>7. /\ h.type = f.type /\ h.base = f.base /\ h.size = f.size
      /\ h.field = f.field /\ h.step = f.step /\ DecF(h)
  BY <1>3 DEF Moved
<1>8. CASE Matched
  <2>1. PICK ms : MatchedBy(mm, st, ms, r, m0)
    BY <1>4, <1>8 DEF Matched
  <2>2. PICK m, x : m = ms[n] /\ x = SubOf(FieldOf(f), m[f.field], f.step)
    OBVIOUS
  <2>3. DecAt(mm, f, m, r, 0) /\ (Outer(f, r) \/ Inner(f, m, r))
    <3>1. Ahead(st, n) = 0
      BY <1>6 DEF Ahead
    <3>2. /\ Outer(f, r) \/ Inner(f, m, r)
          /\ DecAt(mm, f, m, r, Ahead(st, n))
      BY <1>5, <1>6, <2>1, <2>2, MatchedAt
    <3> QED BY <3>1, <3>2
  <2>4. /\ DecAt(mm, h, m, r, SizeWidth) /\ h.base + h.pos <= r
        /\ DecAt(mm, e, x, r, 0)
        /\ e.base + e.size <= r => Inner(e, x, r)
        /\ e.base + e.size > r => Outer(f, r) /\ r < Len(Image[f.type][m])
    <3>1. c = FromNet(TakeFrom(mm, f.base + f.pos, ReadSize(f)))
      BY <1>3, <1>4
    <3>2. /\ DecF(f) /\ ~AtEnd(f) /\ Fits(f, ReadSize(f)) /\ ReadsSubLen(f)
          /\ Moved(f, h, f.pos + ReadSize(f), f.count)
          /\ DecF(e) /\ e.type = FieldOf(f).sub /\ e.base = h.base + h.pos
          /\ e.size = c /\ e.pos = 0 /\ e.field = 1 /\ e.step = 0
          /\ e.count = 0 /\ e.value = << >> /\ e.msg = << >>
      BY <1>3
    <3>3. /\ k \in Nat /\ mm \in [0..(k - 1) -> Byte] /\ r \in Nat /\ r <= k
          /\ r <= IntMax /\ IntMax \in Nat
      BY <1>5
    <3> QED BY <2>2, <2>3, <3>1, <3>2, <3>3, CallOn
  <2>5. CASE e.base + e.size <= r
    <3>1. \E xs : MatchedBy(mm, st2, xs, r, m0)
      BY <1>5, <1>6, <1>7, <2>1, <2>2, <2>4, <2>5, MatchedPush, ZenonT(40)
    <3>2. Matched'
      BY <1>1, <1>4, <3>1 DEF Matched
    <3> QED BY <1>1, <3>2, DecodeGoesOn
  <2>6. CASE ~(e.base + e.size <= r)
    <3>1. e.base + e.size > r
      <4>1. e.base \in Nat /\ e.size \in Nat
        BY <1>3 DEF DecF
      <4> QED BY <1>5, <2>6, <4>1
    <3>2. r < Len(Image[st[n].type][ms[n]])
      BY <1>6, <2>2, <2>4, <3>1
    <3>3. r < l
      BY <1>5, <1>6, <2>1, <3>2, MatchedCut
    <3>4. n + 1 \in 2..Len(st2) /\ st2[n + 1].base + st2[n + 1].size > r
      BY <1>3, <1>6, <3>1
    <3>5. DoomedBy(st2, r, l)
      BY <3>3, <3>4 DEF DoomedBy
    <3> QED BY <1>1, <1>4, <3>5, DecodeGoesOn
  <2> QED BY <2>5, <2>6
<1>9. CASE DoomedBy(stack, rcv, len)
  <2>1. PICK j : j = n + 1
    OBVIOUS
  <2>2. DoomedBy(st, r, l) /\ Len(st) \in Nat /\ j \in Nat /\ j >= Len(st) /\ Len(st2) = j
    BY <1>3, <1>4, <1>6, <1>9, <2>1
  <2>3. \A i \in 1..Len(st) : st2[i].base = st[i].base /\ st2[i].size = st[i].size
    <3> SUFFICES ASSUME NEW i \in 1..Len(st)
                 PROVE  st2[i].base = st[i].base /\ st2[i].size = st[i].size
      OBVIOUS
    <3>1. CASE i = n
      BY <1>6, <1>7, <3>1
    <3>2. CASE i # n
      <4>1. i \in 1..(n - 1)
        BY <1>3, <1>6, <3>2
      <4> QED BY <1>6, <4>1
    <3> QED BY <3>1, <3>2
  <2>4. DoomedBy(st2, r, l)
    BY <2>2, <2>3, DoomedKeep
  <2> QED BY <1>1, <1>4, <2>4, DecodeGoesOn
<1> QED BY <1>1, <1>8, <1>9 DEF DecodeInv

\* An inner Decode returns.
LEMMA DecodeReturnRight == ASSUME DecodeInv, DecodeReturn PROVE DecodeInv'
<1>1. pc = "decode" /\ UNCHANGED <<msg, room, len, rcv, mem>> /\ Next
  BY DEF DecodeReturn, Next
<1>2. FramesInv
  BY <1>1, DecodeSizes
<1>3. PICK n, f, g, h, e, v :
        /\ n \in Nat \ {0} /\ n + 1 = Len(stack) /\ f = stack[n]
        /\ g = stack[n + 1] /\ AtEnd(g) /\ DecF(f) /\ DecF(g) /\ DecNest(f, g)
        /\ v = IF FieldOf(f).kind = "struct" THEN g.msg
               ELSE Append(f.value, g.msg)
        /\ \/ /\ Fits(f, g.size) /\ UNCHANGED <<pc, ok>>
              /\ Moved(f, h, f.pos + g.size, f.count) /\ Stepped(h, e, v)
              /\ DecTo(n, e)
           \/ ~Fits(f, g.size) /\ Return(FALSE)
  BY <1>2, DecReturnStep, Zenon
<1>4. PICK st, st2, mm, r, m0, l : /\ st = stack /\ st2 = stack' /\ mm = mem /\ r = rcv
                                   /\ m0 = msg /\ l = len
  OBVIOUS
<1>5. /\ r \in Nat /\ r <= IntMax /\ IntMax \in Nat /\ DecStack(st, r)
      /\ l = Len(Image[Root][m0])
  BY <1>1, <1>4, DecodeSizes
<1>6. /\ n \in 1..Len(st) /\ n + 1 \in 1..Len(st) /\ n + 1 # 1 /\ n # Len(st)
      /\ n + 1 = Len(st) /\ f = st[n] /\ g = st[n + 1]
  BY <1>3, <1>4
<1>7. ASSUME Fits(f, g.size)
      PROVE  /\ UNCHANGED <<pc, ok>> /\ Len(st2) = n /\ st2[n] = e
             /\ Moved(f, h, f.pos + g.size, f.count) /\ Stepped(h, e, v)
             /\ \A i \in 1..(n - 1) : st2[i] = st[i]
             /\ DecF(e) /\ e.type = f.type /\ e.base = f.base /\ e.size = f.size
  <2>1. /\ UNCHANGED <<pc, ok>> /\ DecTo(n, e)
        /\ Moved(f, h, f.pos + g.size, f.count) /\ Stepped(h, e, v)
    BY <1>3, <1>7
  <2> QED BY <1>4, <2>1 DEF DecTo, Moved, Stepped
<1>8. CASE Matched
  <2>1. PICK ms : MatchedBy(mm, st, ms, r, m0)
    BY <1>4, <1>8 DEF Matched
  <2>2. PICK m, x, k : m = ms[n] /\ x = ms[k] /\ k = n + 1
    OBVIOUS
  <2>3. DecAt(mm, f, m, r, SizeWidth) /\ (Outer(f, r) \/ Inner(f, m, r))
    <3>1. Ahead(st, n) = SizeWidth
      BY <1>6 DEF Ahead
    <3>2. /\ Outer(f, r) \/ Inner(f, m, r)
          /\ DecAt(mm, f, m, r, Ahead(st, n))
      BY <1>5, <1>6, <2>1, <2>2, MatchedAt
    <3> QED BY <3>1, <3>2
  <2>4. DecAt(mm, g, x, r, 0) /\ Inner(g, x, r)
    <3>1. Ahead(st, k) = 0 /\ k \in 1..Len(st) /\ g = st[k] /\ k # 1
      BY <1>6, <2>2 DEF Ahead
    <3>2. /\ k # 1 => Inner(g, x, r)
          /\ DecAt(mm, g, x, r, Ahead(st, k))
      BY <1>5, <2>1, <2>2, <3>1, MatchedAt
    <3> QED BY <3>1, <3>2
  <2>5. x = SubOf(FieldOf(f), m[f.field], f.step)
    <3>1. n \in 1..(Len(st) - 1)
      BY <1>3, <1>6
    <3>2. ms[n + 1] = SubOf(FieldOf(st[n]), ms[n][st[n].field], st[n].step)
      BY <2>1, <3>1 DEF MatchedBy
    <3> QED BY <1>6, <2>2, <3>2
  <2>6. /\ Fits(f, g.size)
        /\ \A hh, ee : /\ Moved(f, hh, f.pos + g.size, f.count) /\ Stepped(hh, ee, v)
                       => DecAt(mm, ee, m, r, 0) /\ ee.base + ee.pos <= r
    BY <1>3, <1>5, <2>3, <2>4, <2>5, ReturnOn
  <2>7. DecAt(mm, e, ms[n], r, 0) /\ e.base + e.pos <= r
    BY <1>7, <2>2, <2>6
  <2>8. e.type = st[n].type /\ e.base = st[n].base /\ e.size = st[n].size /\ DecF(e)
    BY <1>6, <1>7, <2>6
  <2>9. MatchedBy(mm, st2, ms, r, m0)
    BY <1>5, <1>6, <1>7, <2>1, <2>6, <2>7, <2>8, MatchedOn
  <2>10. Matched' /\ UNCHANGED <<msg, room, len, rcv, mem, pc>>
    BY <1>1, <1>4, <1>7, <2>6, <2>9 DEF Matched
  <2> QED BY <1>1, <2>10, DecodeGoesOn
<1>9. CASE DoomedBy(stack, rcv, len)
  <2>1. DoomedBy(st, r, l)
    BY <1>4, <1>9
  <2>2. CASE Fits(f, g.size)
    <3>1. \A i \in 1..n : st2[i].base = st[i].base /\ st2[i].size = st[i].size
      <4> SUFFICES ASSUME NEW i \in 1..n
                   PROVE  st2[i].base = st[i].base /\ st2[i].size = st[i].size
        OBVIOUS
      <4>1. CASE i = n
        BY <1>6, <1>7, <2>2, <4>1
      <4>2. CASE i # n
        <5>1. i \in 1..(n - 1)
          BY <1>3, <4>2
        <5> QED BY <1>7, <2>2, <5>1
      <4> QED BY <4>1, <4>2
    <3>2. DoomedBy(st2, r, l)
      BY <1>3, <1>5, <1>6, <1>7, <2>1, <2>2, <3>1, DoomedReturn
    <3>3. UNCHANGED <<msg, room, len, rcv, mem, pc>> /\ DoomedBy(stack', rcv, len)
      BY <1>1, <1>4, <1>7, <2>2, <3>2
    <3> QED BY <1>1, <3>3, DecodeGoesOn
  <2>3. CASE ~Fits(f, g.size)
    <3>1. Return(FALSE) /\ UNCHANGED <<msg, room, len, rcv>>
      BY <1>1, <1>3, <2>3
    <3>2. rcv < len
      BY <1>9 DEF DoomedBy
    <3> QED BY <1>1, <3>1, <3>2, DecodeRefuses
  <2> QED BY <2>2, <2>3
<1> QED BY <1>1, <1>8, <1>9 DEF DecodeInv

\* A Read takes no more than the next part.
LEMMA ReadAtMost ==
  ASSUME NEW f, DecF(f), ~AtEnd(f), NEW mm, NEW m, NEW r \in Nat,
         DecAt(mm, f, m, r, 0)
  PROVE  ReadSize(f) \in Nat /\ ReadSize(f) <= Len(NextOf(f, m))
<1>1. PICK w, b : w = m[f.field] /\ b = NextOf(f, m)
  OBVIOUS
<1>2. /\ IsField(FieldOf(f)) /\ IsValue(FieldOf(f), w) /\ LegalValue(FieldOf(f), w)
      /\ Kept(f, w) /\ b \in Seq(Byte) /\ Len(b) \in Nat
  BY <1>1, NextOfImage
<1>3. f.step \in Nat /\ b = Parts(FieldOf(f), w)[f.step + 1]
  BY <1>1 DEF NextOf, DecF
<1>4. CASE ReadsCount(f)
  <2>1. ReadSize(f) = SizeWidth /\ Len(b) = SizeWidth
    BY <1>2, <1>3, <1>4, CountRead
  <2> QED BY <1>1, <1>2, <2>1
<1>5. CASE ReadsSubLen(f)
  <2>1. PICK x, v, t : /\ x = SubOf(FieldOf(f), w, f.step) /\ t = FieldOf(f).sub
                       /\ v = IF FieldOf(f).kind = "struct" THEN x
                              ELSE Append(f.value, x)
    OBVIOUS
  <2>2. /\ ReadSize(f) = SizeWidth /\ t \in Type /\ x \in Message[t]
        /\ b = SubImage(t, x)
    BY <1>2, <1>3, <1>5, <2>1, SubRead
  <2>3. PICK im, l, a : im = Image[t][x] /\ l = Len(im) /\ a = ToNet(l, SizeWidth)
    OBVIOUS
  <2>4. im \in Seq(Byte) /\ l \in Nat
    BY <2>2, <2>3, MessageOf
  <2>5. a \in Seq(Byte) /\ Len(a) = SizeWidth /\ SizeWidth \in Nat
    BY <2>3, <2>4, SizeBytes, BaseNat
  <2>6. b = a \o im /\ Len(a \o im) = Len(a) + Len(im)
    BY <2>2, <2>3, <2>4, <2>5, StartsLess DEF SubImage
  <2>7. Len(b) = SizeWidth + l
    BY <2>3, <2>5, <2>6
  <2>8. SizeWidth <= Len(b)
    BY <2>4, <2>5, <2>7
  <2> QED BY <1>1, <2>2, <2>5, <2>8
<1>6. CASE ~ReadsCount(f) /\ ~ReadsSubLen(f)
  <2>1. PICK v : v = CASE FieldOf(f).kind = "simple" -> FromNet(b)
                       [] FieldOf(f).kind = "string" -> b
                       [] OTHER -> Append(f.value, FromNet(b))
    OBVIOUS
  <2>2. ReadSize(f) = Len(b)
    BY <1>2, <1>3, <1>6, <2>1, ValueRead
  <2> QED BY <1>1, <1>2, <2>2
<1> QED BY <1>4, <1>5, <1>6

\* What Decode refuses has lost its end.
LEMMA DecodeRefusedRight == ASSUME DecodeInv, DecodeRefused PROVE DecodeInv'
<1>1. /\ pc = "decode" /\ UNCHANGED <<msg, room, len, rcv>> /\ Next /\ Return(FALSE)
      /\ ~AtEnd(Top)
  BY DEF DecodeRefused, Decoding, Next
<1>2. FramesInv
  BY <1>1, DecodeSizes
<1>3. PICK n, f : /\ n \in Nat \ {0} /\ n = Len(stack)
                  /\ f = stack[n] /\ f = Top /\ DecF(f)
  BY <1>1, <1>2, DecTop, Zenon
<1>4. CASE Matched
  <2>1. PICK st, mm, r, m0, k : /\ st = stack /\ mm = mem /\ r = rcv /\ m0 = msg
                                /\ k = MemSize
    OBVIOUS
  <2>2. /\ k \in Nat /\ mm \in [0..(k - 1) -> Byte] /\ r \in Nat /\ r <= k
        /\ r <= IntMax /\ IntMax \in Nat
    BY <1>1, <2>1, DecodeSizes
  <2>3. DecStack(st, r) /\ len = Len(Image[Root][m0])
    BY <1>1, <2>1, DecodeSizes
  <2>4. PICK ms : MatchedBy(mm, st, ms, r, m0)
    BY <1>4, <2>1 DEF Matched
  <2>5. PICK m : m = ms[n]
    OBVIOUS
  <2>6. n \in 1..Len(st) /\ f = st[n] /\ Ahead(st, n) = 0
    <3>1. n = Len(st) /\ f = st[n]
      BY <1>3, <2>1
    <3>2. n \in Nat /\ n # 0
      BY <1>3
    <3>3. n \in 1..n
      BY <3>2
    <3> QED BY <3>1, <3>3 DEF Ahead
  <2>7. DecAt(mm, f, m, r, 0) /\ (Outer(f, r) \/ Inner(f, m, r))
    <3>1. /\ Outer(f, r) \/ Inner(f, m, r)
          /\ DecAt(mm, f, m, r, Ahead(st, n))
      BY <2>2, <2>3, <2>4, <2>5, <2>6, MatchedAt
    <3> QED BY <2>6, <3>1
  <2>8. DecF(f) /\ ~AtEnd(f)
    BY <1>1, <1>3
  <2>9. PICK c : c = FromNet(TakeFrom(mm, f.base + f.pos, ReadSize(f)))
    OBVIOUS
  <2>10. ~(Fits(f, ReadSize(f)) /\ ReadsCount(f) /\ CountRefused(f, c))
    <3>1. Fits(f, ReadSize(f)) /\ ReadsCount(f) => ~CountRefused(f, c)
      BY <2>2, <2>7, <2>8, <2>9, CountOn
    <3> QED BY <3>1
  <2>11. FromNet(NextRead) = c
    BY <1>3, <2>1, <2>9 DEF NextRead, Take, TakeFrom
  <2>12. ~Fits(f, ReadSize(f))
    BY <1>3, <2>10, <2>11 DEF DecodeRefused
  <2>13. ReadSize(f) \in Nat /\ ReadSize(f) <= Len(NextOf(f, m))
    BY <2>2, <2>7, <2>8, ReadAtMost
  <2>14. r < Len(Image[f.type][m])
    <3>1. PICK q \in Nat : q = ReadSize(f)
      BY <2>13
    <3>2. q <= Len(NextOf(f, m)) /\ ~Fits(f, q)
      BY <2>12, <2>13, <3>1
    <3> QED BY <2>2, <2>7, <2>8, <3>2, NextFits
  <2>15. r < Len(Image[Root][m0])
    <3>1. r < Len(Image[st[n].type][ms[n]])
      BY <2>5, <2>6, <2>14
    <3> QED BY <2>2, <2>3, <2>4, <2>6, <3>1, MatchedCut
  <2>16. rcv < len
    BY <2>1, <2>3, <2>15
  <2> QED BY <1>1, <2>16, DecodeRefuses
<1>5. CASE DoomedBy(stack, rcv, len)
  <2>1. rcv < len
    BY <1>5 DEF DoomedBy
  <2> QED BY <1>1, <2>1, DecodeRefuses
<1> QED BY <1>1, <1>4, <1>5 DEF DecodeInv

\* The outermost Decode has read all of the image, and so all of it was there.
LEMMA DecodeEndRight == ASSUME DecodeInv, DecodeEnd PROVE DecodeInv'
<1>1. /\ pc = "decode" /\ AtEnd(Top) /\ Len(stack) = 1 /\ got' = Top.msg
      /\ Return(TRUE) /\ UNCHANGED <<msg, room, len, rcv, mem>> /\ Next
  BY DEF DecodeEnd, Next
<1>2. FramesInv
  BY <1>1, DecodeSizes
<1>3. PICK n, f : /\ n \in Nat \ {0} /\ n = Len(stack)
                  /\ f = stack[n] /\ f = Top /\ DecF(f)
  BY <1>1, <1>2, DecTop, Zenon
<1>4. Matched
  <2>1. ~DoomedBy(stack, rcv, len)
    <3>1. 2..Len(stack) = {}
      BY <1>1
    <3> QED BY <3>1 DEF DoomedBy
  <2> QED BY <1>1, <2>1 DEF DecodeInv
<1>5. PICK st, mm, r, m0 : st = stack /\ mm = mem /\ r = rcv /\ m0 = msg
  OBVIOUS
<1>6. r \in Nat /\ DecStack(st, r) /\ len = Len(Image[Root][m0]) /\ r <= len /\ len \in Nat
  BY <1>1, <1>5, DecodeSizes
<1>7. PICK ms : MatchedBy(mm, st, ms, r, m0)
  BY <1>4, <1>5 DEF Matched
<1>8. PICK m : m = ms[n]
  OBVIOUS
<1>9. n = 1 /\ n \in 1..Len(st) /\ f = st[n] /\ Ahead(st, n) = 0
  <2>1. n = 1 /\ n = Len(st) /\ f = st[n]
    BY <1>1, <1>3, <1>5
  <2>2. n \in 1..n
    BY <2>1
  <2> QED BY <2>1, <2>2 DEF Ahead
<1>10. DecAt(mm, f, m, r, 0) /\ f.type = Root /\ m = m0 /\ f.pos <= r
  <2>1. /\ DecAt(mm, f, m, r, Ahead(st, n))
        /\ n = 1 => f.type = Root /\ m = m0 /\ f.base = 0 /\ f.size = r /\ f.pos <= r
    BY <1>6, <1>7, <1>8, <1>9, MatchedAt
  <2> QED BY <1>9, <2>1
<1>11. f.msg = m /\ f.pos = Len(Image[f.type][m])
  <2>1. AtEnd(f)
    BY <1>1, <1>3
  <2>2. /\ f.msg = m /\ Len(Image[f.type][m]) \in Nat
        /\ f.pos = Len(Image[f.type][m]) + 0
    BY <1>3, <1>10, <2>1, DecodeAll
  <2> QED BY <2>2
<1>12. got' = msg /\ rcv = len
  <2>1. f.pos = len /\ len <= r
    BY <1>6, <1>10, <1>11
  <2> QED BY <1>1, <1>3, <1>5, <1>6, <1>10, <1>11, <2>1
<1>13. pc' = "done" /\ ok' = TRUE
  BY <1>1 DEF Return
<1>14. EncodeInv'
  BY <1>1, EncodeInvNext DEF DecodeInv
<1>15. ~(rcv' < len') /\ rcv' <= len'
  <2>1. rcv' = len /\ len' = len /\ len \in Nat
    BY <1>1, <1>6, <1>12
  <2>2. ~(len < len) /\ len <= len
    BY <2>1
  <2> QED BY <2>1, <2>2
<1> QED BY <1>1, <1>12, <1>13, <1>14, <1>15 DEF DecodeInv

\* The messages, the lengths and the calls go on agreeing.
LEMMA DecodeInvNext == ASSUME DecodeInv, [Next]_vars PROVE DecodeInv'
<1>1. EncodeInv'
  BY EncodeInvNext DEF DecodeInv
<1>2. CASE pc' \in {"encode", "encoded"}
  BY <1>1, <1>2 DEF DecodeInv
<1>3. CASE \E n \in 0..len, fill \in FillBytes : Receive(n, fill)
  BY <1>3, ReceiveRight
<1>4. CASE DecodeRefused
  BY <1>4, DecodeRefusedRight
<1>5. CASE DecodeCount
  BY <1>5, DecodeCountRight
<1>6. CASE DecodeRead
  BY <1>6, DecodeReadRight
<1>7. CASE DecodeCall
  BY <1>7, DecodeCallRight
<1>8. CASE DecodeReturn
  BY <1>8, DecodeReturnRight
<1>9. CASE DecodeEnd
  BY <1>9, DecodeEndRight
<1>10. ASSUME EncodeRefused \/ EncodeWrite \/ EncodeCall \/ EncodeReturn \/ EncodeEnd
       PROVE  pc' \in {"encode", "encoded"}
  BY <1>10 DEF EncodeRefused, EncodeWrite, EncodeCall, EncodeReturn, EncodeEnd, Return
<1>11. CASE UNCHANGED vars
  <2>1. /\ UNCHANGED <<msg, room, len, rcv, mem, pc, stack, ok, got>>
    BY <1>11 DEF vars
  <2>2. Matched => Matched'
    BY <2>1 DEF Matched
  <2>3. DoomedBy(stack, rcv, len) => DoomedBy(stack, rcv, len)'
    BY <2>1
  <2> QED BY <1>1, <2>1, <2>2, <2>3 DEF DecodeInv
<1> QED BY <1>2, <1>3, <1>4, <1>5, <1>6, <1>7, <1>8, <1>9, <1>10, <1>11 DEF Next

\* The invariant holds from the start.
LEMMA DecodeInvInit == ASSUME Init, OneElement PROVE DecodeInv
<1>1. pc = "encode"
  BY DEF Init
<1> QED BY <1>1, EncodeInvInit DEF DecodeInv

\* Decoding all that Encode wrote yields the message that was encoded: for
\* every set of types, every message and every buffer, while no vector of
\* messages has two elements (with two, Encode writes one and RoundTrip fails).
THEOREM RoundTripCorrect == OneElement /\ Spec => []RoundTrip
<1>1. OneElement /\ Init => DecodeInv
  BY DecodeInvInit
<1>2. DecodeInv /\ [Next]_vars => DecodeInv'
  BY DecodeInvNext
<1>3. DecodeInv => RoundTrip
  BY DEF DecodeInv, RoundTrip
<1> QED BY <1>1, <1>2, <1>3, PTL DEF Spec

\* Bytes that lost their end are refused, wherever the cut is and whatever the
\* memory behind it holds, although an inner Decode reads past the cut.
THEOREM TruncationRefused == OneElement /\ Spec => []TruncatedRefused
<1>1. OneElement /\ Init => DecodeInv
  BY DecodeInvInit
<1>2. DecodeInv /\ [Next]_vars => DecodeInv'
  BY DecodeInvNext
<1>3. DecodeInv => TruncatedRefused
  BY DEF DecodeInv, TruncatedRefused
<1> QED BY <1>1, <1>2, <1>3, PTL DEF Spec

=============================================================================
