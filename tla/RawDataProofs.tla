--------------------------- MODULE RawDataProofs ---------------------------
(***************************************************************************)
(* What holds of the generated containers for every maximum, every set of  *)
(* keys and strings and every message that is loaded.                      *)
(***************************************************************************)
EXTENDS RawData, SequenceTheorems, BaseLemmas

-----------------------------------------------------------------------------
(* The operators *)

\* The elements in front of the size.
LEMMA ContentFacts ==
  ASSUME NEW v \in [1..MaxSize -> Elem], NEW s \in 0..MaxSize
  PROVE  /\ SubSeq(v, 1, s) \in Seq(Elem) /\ Len(SubSeq(v, 1, s)) = s
         /\ DOMAIN SubSeq(v, 1, s) = 1..s
         /\ \A i \in 1..s : SubSeq(v, 1, s)[i] = v[i] /\ v[i] \in Elem
<1>1. MaxSize \in Nat /\ s \in Nat /\ s <= MaxSize
  BY RawAssumption
<1>2. \A i \in 1..s : v[i] \in Elem
  BY <1>1
<1> DEFINE c == SubSeq(v, 1, s)
<1>3. /\ c \in Seq(Elem) /\ Len(c) = (IF 1 <= s THEN s - 1 + 1 ELSE 0)
      /\ \A i \in 1..(s - 1 + 1) : c[i] = v[1 + i - 1]
  BY <1>1, <1>2, SubSeqProperties
<1> HIDE DEF c
<1>4. Len(c) = s /\ \A i \in 1..s : c[i] = v[i]
  BY <1>1, <1>3
<1>5. DOMAIN c = 1..s
  BY <1>3, <1>4, LenProperties
<1> QED BY <1>2, <1>3, <1>4, <1>5 DEF c

\* The loop of FromProtobuf stops at the first element it cannot take.
LEMMA FirstBadFacts ==
  ASSUME NEW m \in Seq(PbElem)
  PROVE  /\ FirstBad(m) \in 1..(Len(m) + 1)
         /\ FirstBad(m) = Len(m) + 1 \/ m[FirstBad(m)].n > MaxSub
         /\ \A j \in 1..(FirstBad(m) - 1) : m[j].n <= MaxSub
<1> DEFINE S == {i \in 1..(Len(m) + 1) : i = Len(m) + 1 \/ m[i].n > MaxSub}
<1>1. Len(m) \in Nat /\ MaxSub \in Nat
  BY RawAssumption
<1>2. S \in SUBSET Nat /\ Len(m) + 1 \in S
  BY <1>1
<1>3. PICK x \in S : \A y \in S : x <= y
  BY <1>2, LeastElement
<1>4. ASSUME NEW j \in 1..(x - 1)
      PROVE  m[j].n <= MaxSub
  <2>1. j \in 1..Len(m) /\ j \notin S
    BY <1>1, <1>3
  <2>2. m[j].n \in Nat
    <3>1. m[j] \in PbElem
      BY <2>1, ElementOfSeq
    <3> QED BY <3>1 DEF PbElem
  <2> QED BY <1>1, <2>1, <2>2
<1>5. \E i \in 1..(Len(m) + 1) :
        /\ i = Len(m) + 1 \/ m[i].n > MaxSub
        /\ \A j \in 1..(i - 1) : m[j].n <= MaxSub
  BY <1>4
<1> QED BY <1>5 DEF FirstBad

\* A search that fails has met no element with the key.
LEMMA NoKeyFacts ==
  ASSUME TypeOK, NEW k \in Key, \A i \in 1..MaxSize : ~HasKey(i, k)
  PROVE  \A i \in 1..size : vec[i].key # k
<1> SUFFICES ASSUME NEW i \in 1..size, vec[i].key = k
             PROVE  FALSE
  OBVIOUS
<1> DEFINE S == {j \in 1..size : vec[j].key = k}
<1>1. MaxSize \in Nat /\ size \in Nat /\ size <= MaxSize
  BY RawAssumption DEF TypeOK
<1>2. S \in SUBSET Nat /\ i \in S
  BY <1>1
<1>3. PICK x \in S : \A y \in S : x <= y
  BY <1>2, LeastElement
<1>4. HasKey(x, k)
  BY <1>1, <1>3 DEF HasKey
<1>5. x \in 1..MaxSize
  BY <1>1, <1>3
<1> QED BY <1>4, <1>5

\* The strings an element holds are strings a message may hold.
LEMMA StoredStrFacts ==
  /\ MaxStr \in Nat /\ NUL \in Char
  /\ << >> \in StoredStr
  /\ \A s \in Seq(Char) : Len(s) <= MaxStr => [1..Len(s) -> Char] \subseteq StoredStr
  /\ StoredStr \subseteq Seq(Char)
<1>1. MaxStr \in Nat /\ NUL \in Char
  BY RawAssumption
<1>2. << >> \in [1..0 -> Char]
  BY EmptySeq, LenProperties
<1>3. << >> \in StoredStr
  BY <1>1, <1>2 DEF StoredStr
<1>4. ASSUME NEW s \in Seq(Char), Len(s) <= MaxStr
      PROVE  [1..Len(s) -> Char] \subseteq StoredStr
  <2>1. Len(s) \in 0..MaxStr
    BY <1>1, <1>4, LenProperties
  <2> QED BY <2>1 DEF StoredStr
<1>5. ASSUME NEW t \in StoredStr
      PROVE  t \in Seq(Char)
  <2>1. PICK n \in 0..MaxStr : t \in [1..n -> Char]
    BY DEF StoredStr
  <2>2. n \in Nat
    BY <1>1
  <2> QED BY <2>1, <2>2, SeqDef
<1> QED BY <1>1, <1>3, <1>4, <1>5

\* An element of the element's type is one a message may hold.
LEMMA ElemInPb == Elem \subseteq PbElem
<1>1. MaxSub \in Nat /\ StoredStr \subseteq Seq(Char)
  BY RawAssumption, StoredStrFacts
<1> QED BY <1>1 DEF Elem, PbElem

\* A string that is set respects the maximum, taken or not; of one that is
\* taken the length stays, and every byte that no NUL precedes.
LEMMA SetStr ==
  ASSUME NEW old \in StoredStr, NEW s \in Seq(Char)
  PROVE  /\ set_str(old, s) \in StoredStr
         /\ Len(s) <= MaxStr => Kept(s, set_str(old, s))
<1>1. MaxStr \in Nat /\ NUL \in Char /\ Len(s) \in Nat /\ DOMAIN s = 1..Len(s)
      /\ \A j \in 1..Len(s) : s[j] \in Char
  BY StoredStrFacts, LenProperties, ElementOfSeq
<1>2. CASE Len(s) >= MaxStr + 1
  BY <1>1, <1>2 DEF set_str
<1>3. CASE ~(Len(s) >= MaxStr + 1)
  <2>1. set_str(old, s) = strncpy(s) /\ Len(s) <= MaxStr
    BY <1>1, <1>3 DEF set_str
  <2>2. strncpy(s) \in [1..Len(s) -> Char]
    BY <1>1 DEF strncpy
  <2>3. strncpy(s) \in Seq(Char) /\ Len(strncpy(s)) = Len(s)
    <3>1. strncpy(s) \in Seq(Char)
      BY <1>1, <2>2, SeqDef
    <3> QED BY <1>1, <2>2, <3>1, LenProperties
  <2>4. \A j \in 1..Len(s) : \/ strncpy(s)[j] = s[j]
                             \/ \E h \in 1..j : s[h] = NUL
    BY DEF strncpy
  <2>5. strncpy(s) \in StoredStr
    BY <2>1, <2>2, StoredStrFacts
  <2> QED BY <2>1, <2>3, <2>4, <2>5 DEF Kept
<1> QED BY <1>2, <1>3

\* What FromProtobuf writes are elements, up to the one it stops at.
LEMMA LoadedFacts ==
  ASSUME TypeOK, NEW m \in Seq(PbElem), Len(m) <= MaxSize,
         NEW bad, bad = FirstBad(m)
  PROVE  /\ Loaded(m, bad) \in [1..MaxSize -> Elem]
         /\ \A i \in 1..Len(m) : i < bad =>
              LET e == Loaded(m, bad)[i]
              IN  /\ e.key = m[i].key /\ e.n = m[i].n
                  /\ Len(m[i].str) <= MaxStr => Kept(m[i].str, e.str)
<1>1. /\ MaxSize \in Nat /\ MaxSub \in Nat /\ Len(m) \in Nat
      /\ bad \in 1..(Len(m) + 1)
      /\ \A j \in 1..(bad - 1) : m[j].n <= MaxSub
  BY RawAssumption, FirstBadFacts
<1>2. \A i \in 1..Len(m) : m[i] \in PbElem
  BY ElementOfSeq
<1>3. \A i \in 1..MaxSize : vec[i] \in Elem
  BY DEF TypeOK
<1> DEFINE new(i) == [key |-> m[i].key, str |-> set_str(vec[i].str, m[i].str),
                      n |-> IF i = bad THEN vec[i].n ELSE m[i].n]
<1>4. ASSUME NEW i \in 1..MaxSize, i <= bad, i <= Len(m)
      PROVE  /\ new(i) \in Elem
             /\ Len(m[i].str) <= MaxStr => Kept(m[i].str, new(i).str)
  <2>1. i \in 1..Len(m) /\ vec[i] \in Elem /\ m[i] \in PbElem
    BY <1>1, <1>2, <1>3, <1>4
  <2>2. /\ set_str(vec[i].str, m[i].str) \in StoredStr
        /\ Len(m[i].str) <= MaxStr => Kept(m[i].str, set_str(vec[i].str, m[i].str))
    BY <2>1, SetStr DEF Elem, PbElem
  <2>3. (IF i = bad THEN vec[i].n ELSE m[i].n) \in 0..MaxSub
    <3>1. CASE i = bad
      BY <2>1, <3>1 DEF Elem
    <3>2. CASE i # bad
      BY <1>1, <1>4, <2>1, <3>2 DEF PbElem
    <3> QED BY <3>1, <3>2
  <2> QED BY <2>1, <2>2, <2>3 DEF Elem, PbElem
<1>5. ASSUME NEW i \in 1..MaxSize
      PROVE  /\ Loaded(m, bad)[i] \in Elem
             /\ i <= bad /\ i <= Len(m) => Loaded(m, bad)[i] = new(i)
  <2>1. CASE i > bad \/ i > Len(m)
    BY <1>1, <1>3, <2>1 DEF Loaded
  <2>2. CASE ~(i > bad \/ i > Len(m))
    <3>1. i <= bad /\ i <= Len(m)
      BY <1>1, <2>2
    <3>2. Loaded(m, bad)[i] = new(i)
      BY <2>2 DEF Loaded
    <3> QED BY <1>4, <3>1, <3>2
  <2> QED BY <2>1, <2>2
<1>6. Loaded(m, bad) \in [1..MaxSize -> Elem]
  BY <1>5 DEF Loaded
<1>7. ASSUME NEW i \in 1..Len(m), i < bad
      PROVE  LET e == Loaded(m, bad)[i]
             IN  /\ e.key = m[i].key /\ e.n = m[i].n
                 /\ Len(m[i].str) <= MaxStr => Kept(m[i].str, e.str)
  <2>1. i \in 1..MaxSize /\ i <= bad /\ i <= Len(m) /\ i # bad
    BY <1>1, <1>7
  <2>2. Loaded(m, bad)[i] = new(i)
    BY <1>5, <2>1
  <2> QED BY <1>4, <2>1, <2>2
<1> QED BY <1>6, <1>7

-----------------------------------------------------------------------------
(* Type correctness and what a load leaves behind *)

\* The compaction of a deletion moves elements within the array.
LEMMA MovedType ==
  ASSUME TypeOK, NEW i \in 1..MaxSize, i <= size
  PROVE  Moved(i) \in [1..MaxSize -> Elem]
<1>1. MaxSize \in Nat /\ size \in 1..MaxSize /\ \A j \in 1..MaxSize : vec[j] \in Elem
  BY RawAssumption DEF TypeOK
<1>2. ASSUME NEW j \in 1..MaxSize
      PROVE  (CASE j < i \/ j >= size -> vec[j]
                [] OTHER -> IF backward THEN vec[size] ELSE vec[j + 1]) \in Elem
  <2>1. CASE j < i \/ j >= size
    BY <1>1, <2>1
  <2>2. CASE ~(j < i \/ j >= size)
    <3>1. j + 1 \in 1..MaxSize
      BY <1>1, <2>2
    <3>2. vec[size] \in Elem /\ vec[j + 1] \in Elem
      BY <1>1, <3>1
    <3> QED BY <2>2, <3>2
  <2> QED BY <2>1, <2>2
<1> QED BY <1>2 DEF Moved

\* A deletion keeps the types.
LEMMA DelType ==
  ASSUME TypeOK, NEW i \in 1..MaxSize, i <= size, NEW c, DelOk(i, c)
  PROVE  vec' \in [1..MaxSize -> Elem] /\ size' \in 0..MaxSize
<1>1. MaxSize \in Nat /\ size \in 1..MaxSize /\ vec \in [1..MaxSize -> Elem]
  BY RawAssumption DEF TypeOK
<1>2. vec' \in [1..MaxSize -> Elem]
  BY <1>1, MovedType DEF DelOk
<1>3. size' \in 0..MaxSize
  BY <1>1 DEF DelOk
<1> QED BY <1>2, <1>3

\* Whatever a caller stores in a slot of the list is an element.
LEMMA StoreType ==
  ASSUME TypeOK, NEW i \in 1..MaxSize, NEW e \in Stored
  PROVE  [vec EXCEPT ![i] = e] \in [1..MaxSize -> Elem]
<1>1. e \in Elem
  BY CallerAssumption
<1> QED BY <1>1 DEF TypeOK

\* The message that a load reads is a sequence of elements.
LEMMA MessageType ==
  ASSUME TypeOK, NEW m \in Inputs \cup {pb}
  PROVE  m \in Seq(PbElem) /\ Len(m) \in Nat
<1>1. m \in Seq(PbElem)
  BY CallerAssumption DEF TypeOK
<1> QED BY <1>1

\* Every call keeps the types.
LEMMA TypeStep ==
  ASSUME TypeOK, [Next]_vars
  PROVE  TypeOK'
<1>0. /\ MaxSize \in Nat \ {0} /\ size \in 0..MaxSize /\ backward \in BOOLEAN
      /\ << >> \in Seq(PbElem)
  BY RawAssumption DEF TypeOK
<1>1. ASSUME Drop, vec' \in [1..MaxSize -> Elem], size' \in 0..MaxSize
      PROVE  TypeOK'
  BY <1>0, <1>1 DEF TypeOK, Drop
<1>2. ASSUME UNCHANGED vec PROVE vec' \in [1..MaxSize -> Elem]
  BY <1>2 DEF TypeOK
<1>3. CASE AddSlot
  <2>1. size' \in 0..MaxSize
    BY <1>0, <1>3 DEF AddSlot, Full
  <2> QED BY <1>1, <1>2, <1>3, <2>1 DEF AddSlot
<1>4. CASE AddFull
  <2>1. size' \in 0..MaxSize
    BY <1>0, <1>4 DEF AddFull
  <2> QED BY <1>1, <1>2, <1>4, <2>1 DEF AddFull
<1>5. CASE ToProtobuf
  <2>1. Content \in Seq(PbElem)
    <3>1. Content \in Seq(Elem)
      BY ContentFacts DEF Content, TypeOK
    <3> QED BY <3>1, ElemInPb, SeqMonotonic
  <2>2. pb' \in Seq(PbElem)
    BY <2>1, <1>5, ConcatProperties DEF TypeOK, ToProtobuf
  <2>3. vec' = vec /\ size' = size /\ inp' = << >> /\ backward' = backward
    BY <1>5 DEF ToProtobuf
  <2> QED BY <1>0, <2>2, <2>3 DEF TypeOK
<1>6. ASSUME NEW e \in Stored, Add(e) PROVE TypeOK'
  <2>1. size' \in 0..MaxSize /\ size + 1 \in 1..MaxSize
    BY <1>0, <1>6 DEF Add, Full
  <2> QED BY <1>1, <1>6, <2>1, StoreType DEF Add
<1>7. ASSUME NEW i \in 1..(MaxSize + 1), DelByIdx(i) PROVE TypeOK'
  <2>1. CASE i > size
    BY <1>0, <1>1, <1>2, <1>7, <2>1 DEF DelByIdx
  <2>2. CASE ~(i > size)
    <3>1. i \in 1..MaxSize /\ i <= size
      BY <1>0, <2>2
    <3> QED BY <1>1, <1>7, <2>2, <3>1, DelType DEF DelByIdx
  <2> QED BY <2>1, <2>2
<1>8. ASSUME NEW i \in 1..(MaxSize + 1), NEW e \in Stored, FindByIdx(i, e)
      PROVE  TypeOK'
  <2>1. Drop /\ size' \in 0..MaxSize
    BY <1>0, <1>8 DEF FindByIdx
  <2>2. CASE i > size
    BY <1>1, <1>2, <1>8, <2>1, <2>2 DEF FindByIdx
  <2>3. CASE ~(i > size)
    <3>1. i \in 1..MaxSize
      BY <1>0, <2>3
    <3>2. vec' = [vec EXCEPT ![i] = e]
      BY <1>8, <2>3 DEF FindByIdx
    <3>3. vec' \in [1..MaxSize -> Elem]
      BY <3>1, <3>2, StoreType
    <3> QED BY <1>1, <2>1, <3>3
  <2> QED BY <2>2, <2>3
<1>9. ASSUME NEW k \in Key, NoKey(k) PROVE TypeOK'
  BY <1>0, <1>1, <1>2, <1>9 DEF NoKey
<1>10. ASSUME NEW k \in Key, DelByKey(k) PROVE TypeOK'
  <2>1. PICK i \in 1..MaxSize : i <= size /\ DelOk(i, <<"delkey", k>>) /\ Drop
    BY <1>10 DEF DelByKey, HasKey
  <2> QED BY <1>1, <2>1, DelType
<1>11. ASSUME NEW k \in Key, NEW e \in Stored, FindByKey(k, e) PROVE TypeOK'
  <2>1. size' \in 0..MaxSize
    BY <1>0, <1>11 DEF FindByKey
  <2> QED BY <1>1, <1>11, <2>1, StoreType DEF FindByKey
<1>12. ASSUME NEW m \in Inputs \cup {pb}, FromProtobuf(m) PROVE TypeOK'
  <2>1. m \in Seq(PbElem) /\ Len(m) \in Nat
    BY MessageType
  <2>2. vec' \in [1..MaxSize -> Elem] /\ size' \in 0..MaxSize
    <3>1. CASE Len(m) > MaxSize
      BY <1>0, <1>2, <1>12, <3>1 DEF FromProtobuf
    <3>2. CASE ~(Len(m) > MaxSize)
      BY <1>0, <1>12, <2>1, <3>2, LoadedFacts DEF FromProtobuf
    <3> QED BY <3>1, <3>2
  <2>3. inp' \in Seq(PbElem) /\ pb' \in Seq(PbElem) /\ backward' \in BOOLEAN
    BY <1>0, <1>12, <2>1 DEF FromProtobuf
  <2> QED BY <2>2, <2>3 DEF TypeOK
<1>13. CASE UNCHANGED vars
  BY <1>13 DEF vars, TypeOK
<1> QED BY <1>3, <1>4, <1>5, <1>6, <1>7, <1>8, <1>9, <1>10, <1>11, <1>12, <1>13
        DEF Next

\* The array, its size and the message keep their types in every history of
\* calls: no string and no nested list ever passes its maximum, whatever the
\* messages hold that are loaded.
THEOREM ListTypeCorrect == Spec => []TypeOK
<1>1. Init => TypeOK
  <2> SUFFICES ASSUME Init PROVE TypeOK
    OBVIOUS
  <2>1. ASSUME NEW k \in Key PROVE [key |-> k, str |-> << >>, n |-> 0] \in Elem
    BY RawAssumption, StoredStrFacts DEF Elem
  <2>2. vec \in [1..MaxSize -> Elem] /\ size = 0
    BY <2>1 DEF Init, Zeroed
  <2> QED BY <2>2, RawAssumption DEF Init, TypeOK
<1> QED BY <1>1, TypeStep, PTL DEF Spec

\* Only a load leaves the outcome of a load behind.
LEMMA OnlyLoads ==
  ASSUME [Next]_vars
  PROVE  \/ call'[1] \notin {"load", "loadhalf", "loadrefused"}
         \/ \E m \in Inputs \cup {pb} : FromProtobuf(m)
         \/ UNCHANGED vars
<1>1. ASSUME NEW i, NEW c, c[1] \in {"del", "delkey"}, DelOk(i, c)
      PROVE  call'[1] \notin {"load", "loadhalf", "loadrefused"}
  BY <1>1 DEF DelOk
<1>2. ASSUME NEW i, DelByIdx(i)
      PROVE  call'[1] \notin {"load", "loadhalf", "loadrefused"}
  BY <1>1, <1>2 DEF DelByIdx
<1>3. ASSUME NEW k, DelByKey(k)
      PROVE  call'[1] \notin {"load", "loadhalf", "loadrefused"}
  BY <1>1, <1>3 DEF DelByKey
<1>4. ASSUME AddSlot \/ AddFull \/ ToProtobuf \/ \E e \in Stored : Add(e)
      PROVE  call'[1] \notin {"load", "loadhalf", "loadrefused"}
  BY <1>4 DEF AddSlot, AddFull, ToProtobuf, Add
<1>5. ASSUME NEW i, NEW e, FindByIdx(i, e)
      PROVE  call'[1] \notin {"load", "loadhalf", "loadrefused"}
  BY <1>5 DEF FindByIdx
<1>6. ASSUME NEW k, NEW e, NoKey(k) \/ FindByKey(k, e)
      PROVE  call'[1] \notin {"load", "loadhalf", "loadrefused"}
  BY <1>6 DEF NoKey, FindByKey
<1> QED BY <1>2, <1>3, <1>4, <1>5, <1>6 DEF Next

\* A load, complete, cut short or refused, leaves behind what it says.
LEMMA LoadStep ==
  ASSUME TypeOK, NEW m \in Inputs \cup {pb}, FromProtobuf(m)
  PROVE  LoadExact'
<1>0. MaxSize \in Nat /\ m \in Seq(PbElem) /\ Len(m) \in Nat
  BY RawAssumption, MessageType
<1>1. CASE Len(m) > MaxSize
  <2>1. inp' = m /\ call' = <<"loadrefused">>
    BY <1>1 DEF FromProtobuf
  <2> QED BY <1>1, <2>1 DEF LoadExact
<1>2. CASE ~(Len(m) > MaxSize)
  <2>1. PICK bad : bad = FirstBad(m)
    OBVIOUS
  <2>2. /\ inp' = m /\ size' = Len(m) /\ vec' = Loaded(m, bad)
        /\ call' = IF bad <= Len(m) THEN <<"loadhalf", bad>> ELSE <<"load">>
    BY <1>2, <2>1 DEF FromProtobuf
  <2>3. /\ bad \in 1..(Len(m) + 1)
        /\ bad = Len(m) + 1 \/ m[bad].n > MaxSub
    BY <1>0, <2>1, FirstBadFacts
  <2> DEFINE same(i) == /\ vec'[i].key = m[i].key /\ vec'[i].n = m[i].n
                        /\ Len(m[i].str) <= MaxStr => Kept(m[i].str, vec'[i].str)
  <2>4. \A i \in 1..Len(m) : i < bad => same(i)
    BY <1>0, <1>2, <2>1, <2>2, LoadedFacts
  <2>5. CASE bad <= Len(m)
    <3>1. call'[1] = "loadhalf" /\ call'[2] = bad
      BY <2>2, <2>5
    <3>2. \A i \in 1..(bad - 1) : same(i)
      BY <1>0, <2>3, <2>4, <2>5
    <3>3. m[bad].n > MaxSub
      BY <1>0, <2>3, <2>5
    <3> QED BY <2>2, <3>1, <3>2, <3>3 DEF LoadExact
  <2>6. CASE ~(bad <= Len(m))
    <3>1. call'[1] = "load"
      BY <2>2, <2>6
    <3>2. \A i \in 1..Len(m) : same(i)
      BY <1>0, <2>3, <2>4, <2>6
    <3> QED BY <2>2, <3>1, <3>2 DEF LoadExact
  <2> QED BY <2>5, <2>6
<1> QED BY <1>1, <1>2

\* FromProtobuf refuses exactly the messages with too many elements or a bad
\* one, and leaves the message behind in front of where it stopped.
THEOREM LoadCorrect == Spec => []LoadExact
<1>1. Init => LoadExact
  BY DEF Init, LoadExact
<1>2. TypeOK /\ LoadExact /\ [Next]_vars => LoadExact'
  <2> SUFFICES ASSUME TypeOK, LoadExact, [Next]_vars PROVE LoadExact'
    OBVIOUS
  <2>1. CASE call'[1] \notin {"load", "loadhalf", "loadrefused"}
    BY <2>1 DEF LoadExact
  <2>2. CASE UNCHANGED vars
    BY <2>2 DEF vars, LoadExact
  <2> QED BY <2>1, <2>2, OnlyLoads, LoadStep
<1> QED BY <1>1, <1>2, ListTypeCorrect, PTL DEF Spec

-----------------------------------------------------------------------------
(* The array and its size implement the bounded list *)

\* One more slot behind an unchanged prefix appends what the slot holds.
LEMMA AppendSlot ==
  ASSUME NEW v \in [1..MaxSize -> Elem], NEW w \in [1..MaxSize -> Elem],
         NEW s \in 0..MaxSize, s < MaxSize, \A j \in 1..s : w[j] = v[j]
  PROVE  SubSeq(w, 1, s + 1) = Append(SubSeq(v, 1, s), w[s + 1])
<1>1. MaxSize \in Nat /\ s + 1 \in 1..MaxSize /\ s + 1 \in 0..MaxSize
  BY RawAssumption
<1>2. PICK e \in Elem : e = w[s + 1]
  BY <1>1
<1>3. PICK c \in Seq(Elem) :
        c = SubSeq(v, 1, s) /\ Len(c) = s /\ \A j \in 1..s : c[j] = v[j]
  BY ContentFacts
<1>4. PICK d \in Seq(Elem) :
        /\ d = SubSeq(w, 1, s + 1) /\ Len(d) = s + 1
        /\ \A j \in 1..(s + 1) : d[j] = w[j]
  BY <1>1, ContentFacts
<1>5. PICK a \in Seq(Elem) :
        /\ a = Append(c, e) /\ Len(a) = s + 1 /\ a[s + 1] = e
        /\ \A j \in 1..s : a[j] = c[j]
  <2> DEFINE x == Append(c, e)
  <2>1. /\ x \in Seq(Elem) /\ Len(x) = Len(c) + 1 /\ x[Len(c) + 1] = e
        /\ \A j \in 1..Len(c) : x[j] = c[j]
    BY AppendProperties
  <2> HIDE DEF x
  <2>2. Len(x) = s + 1 /\ x[s + 1] = e /\ \A j \in 1..s : x[j] = c[j]
    BY <1>3, <2>1
  <2> QED BY <2>1, <2>2 DEF x
<1>6. \A j \in 1..Len(d) : d[j] = a[j]
  BY <1>1, <1>2, <1>3, <1>4, <1>5
<1>7. d = a
  BY <1>4, <1>5, <1>6, SeqEqual
<1> QED BY <1>2, <1>3, <1>4, <1>5, <1>7

\* A list without one of its elements: those in front of it stay where they
\* are, those behind it come one place nearer.
LEMMA WithoutElement ==
  ASSUME NEW c \in Seq(Elem), NEW d \in Seq(Elem), NEW i \in 1..Len(c),
         Len(d) = Len(c) - 1,
         \A j \in 1..(i - 1) : d[j] = c[j],
         \A j \in i..Len(d) : d[j] = c[j + 1]
  PROVE  d = SubSeq(c, 1, i - 1) \o SubSeq(c, i + 1, Len(c))
<1>1. PICK s \in Nat : s = Len(c) /\ s > 0 /\ i \in Nat /\ i <= s /\ i >= 1
  OBVIOUS
<1>2. \A j \in 1..s : c[j] \in Elem
  BY <1>1, ElementOfSeq
<1>4. PICK a \in Seq(Elem) :
        /\ a = SubSeq(c, 1, i - 1) /\ Len(a) = i - 1
        /\ \A j \in 1..(i - 1) : a[j] = c[j]
  <2> DEFINE x == SubSeq(c, 1, i - 1)
  <2>1. \A j \in 1..(i - 1) : c[j] \in Elem
    BY <1>1, <1>2
  <2>2. /\ x \in Seq(Elem) /\ Len(x) = IF 1 <= i - 1 THEN i - 1 - 1 + 1 ELSE 0
        /\ \A j \in 1..(i - 1 - 1 + 1) : x[j] = c[1 + j - 1]
    BY <1>1, <2>1, SubSeqProperties
  <2> HIDE DEF x
  <2>3. Len(x) = i - 1 /\ \A j \in 1..(i - 1) : x[j] = c[j]
    BY <1>1, <2>2
  <2> QED BY <2>2, <2>3 DEF x
<1>5. PICK b \in Seq(Elem) :
        /\ b = SubSeq(c, i + 1, s) /\ Len(b) = s - i
        /\ \A j \in 1..(s - i) : b[j] = c[i + j]
  <2> DEFINE x == SubSeq(c, i + 1, s)
  <2>1. \A j \in (i + 1)..s : c[j] \in Elem
    BY <1>1, <1>2
  <2>2. /\ x \in Seq(Elem) /\ Len(x) = IF i + 1 <= s THEN s - (i + 1) + 1 ELSE 0
        /\ \A j \in 1..(s - (i + 1) + 1) : x[j] = c[(i + 1) + j - 1]
    BY <1>1, <2>1, SubSeqProperties
  <2> HIDE DEF x
  <2>3. Len(x) = s - i /\ \A j \in 1..(s - i) : x[j] = c[i + j]
    BY <1>1, <2>2
  <2> QED BY <2>2, <2>3 DEF x
<1>6. PICK f \in Seq(Elem) :
        /\ f = a \o b /\ Len(f) = s - 1
        /\ \A j \in 1..(s - 1) : f[j] = IF j <= i - 1 THEN a[j] ELSE b[j - (i - 1)]
  <2> DEFINE x == a \o b
  <2>1. /\ x \in Seq(Elem) /\ Len(x) = Len(a) + Len(b)
        /\ \A j \in 1..(Len(a) + Len(b)) :
             x[j] = IF j <= Len(a) THEN a[j] ELSE b[j - Len(a)]
    BY ConcatProperties
  <2> HIDE DEF x
  <2>2. Len(a) + Len(b) = s - 1
    <3>1. Len(a) = i - 1 /\ Len(b) = s - i
      BY <1>4, <1>5
    <3> QED BY <1>1, <3>1
  <2>3. \A j \in 1..(s - 1) : x[j] = IF j <= i - 1 THEN a[j] ELSE b[j - (i - 1)]
    <3>1. Len(a) = i - 1
      BY <1>4
    <3> QED BY <2>1, <2>2, <3>1
  <2>4. Len(x) = s - 1
    BY <2>1, <2>2
  <2> QED BY <2>1, <2>3, <2>4 DEF x
<1>7. ASSUME NEW j \in 1..(s - 1) PROVE d[j] = f[j]
  <2>1. CASE j < i
    <3>1. d[j] = c[j] /\ f[j] = a[j] /\ a[j] = c[j]
      BY <1>1, <1>4, <1>6, <2>1
    <3> QED BY <3>1
  <2>2. CASE ~(j < i)
    <3>1. PICK n \in 1..(s - i) : n = j - (i - 1) /\ i + n = j + 1
      BY <1>1, <2>2
    <3>2. d[j] = c[j + 1]
      BY <1>1, <2>2
    <3>3. f[j] = b[n]
      BY <1>1, <1>6, <2>2, <3>1
    <3>4. b[n] = c[j + 1]
      BY <1>5, <3>1
    <3> QED BY <3>2, <3>3, <3>4
  <2> QED BY <2>1, <2>2
<1>8. d = f
  BY <1>1, <1>6, <1>7, SeqEqual
<1> QED BY <1>1, <1>4, <1>5, <1>6, <1>8

\* The list before and after a step.
LEMMA ContentType ==
  ASSUME TypeOK
  PROVE  /\ Content \in Seq(Elem) /\ Len(Content) = size
         /\ DOMAIN Content = 1..size
         /\ \A i \in 1..size : Content[i] = vec[i]
BY ContentFacts DEF TypeOK, Content

\* A call that is refused leaves the list as it is.
LEMMA RefusedStep ==
  ASSUME TypeOK,
         \/ AddFull
         \/ \E k \in Key : NoKey(k)
         \/ \E i \in 1..(MaxSize + 1) :
              /\ i > size /\ call' = <<"idxrefused", i>>
              /\ UNCHANGED <<vec, size>>
  PROVE  List!Refused
<1>0. /\ MaxSize \in Nat /\ size \in 0..MaxSize /\ Len(Content) = size
      /\ DOMAIN Content = 1..size /\ \A i \in 1..size : Content[i] = vec[i]
  BY RawAssumption, ContentType DEF TypeOK
<1>1. Content' = Content
  BY DEF Content, AddFull, NoKey
<1>2. CASE AddFull
  <2>1. call' = <<"addrefused">> /\ Len(Content) = MaxSize
    BY <1>0, <1>2 DEF AddFull, Full
  <2> QED BY <1>1, <2>1 DEF List!Refused
<1>3. ASSUME NEW k \in Key, NoKey(k) PROVE List!Refused
  <2>1. call' = <<"keyrefused", k>> /\ \A i \in DOMAIN Content : Content[i].key # k
    BY <1>0, <1>3, NoKeyFacts DEF NoKey
  <2> QED BY <1>1, <2>1 DEF List!Refused
<1>4. ASSUME NEW i \in 1..(MaxSize + 1), i > size, call' = <<"idxrefused", i>>
      PROVE  List!Refused
  <2>1. i > Len(Content)
    BY <1>0, <1>4
  <2> QED BY <1>1, <1>4, <2>1 DEF List!Refused
<1> QED BY <1>2, <1>3, <1>4

\* An Add appends: the element of the caller, or what the slot holds.
LEMMA AddStep ==
  ASSUME TypeOK, TypeOK', AddSlot \/ \E e \in Stored : Add(e)
  PROVE  List!Add
<1>0. /\ MaxSize \in Nat /\ size \in 0..MaxSize /\ Len(Content) = size
      /\ vec \in [1..MaxSize -> Elem] /\ vec' \in [1..MaxSize -> Elem]
  BY RawAssumption, ContentType DEF TypeOK
<1>1. size < MaxSize /\ size' = size + 1 /\ call' = <<"add">>
  BY <1>0 DEF AddSlot, Add, Full
<1>2. \A j \in 1..size : vec'[j] = vec[j]
  <2>1. CASE AddSlot
    BY <2>1 DEF AddSlot
  <2>2. ASSUME NEW e \in Stored, Add(e) PROVE \A j \in 1..size : vec'[j] = vec[j]
    BY <1>0, <2>2 DEF Add
  <2> QED BY <2>1, <2>2
<1>3. vec'[size + 1] \in Elem
  BY <1>0, <1>1
<1>4. SubSeq(vec', 1, size + 1) = Append(SubSeq(vec, 1, size), vec'[size + 1])
  BY <1>0, <1>1, <1>2, AppendSlot
<1>5. Content' = Append(Content, vec'[size + 1])
  BY <1>1, <1>4 DEF Content
<1> QED BY <1>0, <1>1, <1>3, <1>5 DEF List!Add

\* A caller that writes through the pointer of a Find changes that element.
LEMMA StoreStep ==
  ASSUME TypeOK, NEW i \in 1..size, NEW e \in Stored,
         vec' = [vec EXCEPT ![i] = e], UNCHANGED size
  PROVE  /\ i \in DOMAIN Content /\ e \in Elem
         /\ Content' = [Content EXCEPT ![i] = e]
<1>1. e \in Elem /\ vec \in [1..MaxSize -> Elem] /\ size \in 0..MaxSize
  BY CallerAssumption DEF TypeOK
<1>2. i \in DOMAIN Content /\ MaxSize \in Nat /\ i \in 1..MaxSize
  BY <1>1, ContentType, RawAssumption
<1>3. PICK a \in Seq(Elem) :
        /\ a = [Content EXCEPT ![i] = e] /\ Len(a) = size
        /\ \A j \in 1..size : a[j] = IF j = i THEN e ELSE vec[j]
  <2> DEFINE x == [Content EXCEPT ![i] = e]
  <2>1. /\ Content \in Seq(Elem) /\ Len(Content) = size
        /\ \A j \in 1..size : Content[j] = vec[j]
    BY ContentType
  <2>2. i \in 1..Len(Content)
    BY <2>1
  <2>3. /\ x \in Seq(Elem) /\ Len(x) = Len(Content)
        /\ \A j \in 1..Len(Content) : x[j] = IF j = i THEN e ELSE Content[j]
    BY <1>1, <2>1, <2>2, ExceptSeq
  <2> HIDE DEF x
  <2>4. Len(x) = size /\ \A j \in 1..size : x[j] = IF j = i THEN e ELSE vec[j]
    BY <2>1, <2>3
  <2> QED BY <2>3, <2>4 DEF x
<1>4. /\ Content' \in Seq(Elem) /\ Len(Content') = size
      /\ \A j \in 1..size : Content'[j] = vec'[j]
  <2>1. PICK v \in [1..MaxSize -> Elem] : v = vec'
    BY <1>1, <1>2
  <2>2. Content' = SubSeq(v, 1, size)
    BY <2>1 DEF Content
  <2>3. size \in 0..MaxSize
    BY DEF TypeOK
  <2>4. /\ SubSeq(v, 1, size) \in Seq(Elem) /\ Len(SubSeq(v, 1, size)) = size
        /\ \A j \in 1..size : SubSeq(v, 1, size)[j] = v[j]
    BY <2>3, ContentFacts
  <2> QED BY <2>1, <2>2, <2>4
<1>5. \A j \in 1..size : vec'[j] = IF j = i THEN e ELSE vec[j]
  BY <1>1, <1>2
<1>6. \A j \in 1..size : Content'[j] = a[j]
  BY <1>3, <1>4, <1>5
<1>7. Content' = a
  BY <1>3, <1>4, <1>6, SeqEqual
<1> QED BY <1>1, <1>2, <1>3, <1>7

\* A deletion takes the element out and keeps the others in their order, or
\* moves overlapping memory from its end.
LEMMA DeleteStep ==
  ASSUME TypeOK, TypeOK', NEW i \in 1..size, NEW c, DelOk(i, c)
  PROVE  \/ call' = c /\ Content' = List!Without(i)
         \/ List!Overlap(i)
<1>0. /\ MaxSize \in Nat /\ size \in 1..MaxSize /\ size \in 0..MaxSize
      /\ vec \in [1..MaxSize -> Elem] /\ vec' \in [1..MaxSize -> Elem]
  BY RawAssumption DEF TypeOK
<1>1. /\ Content \in Seq(Elem) /\ Len(Content) = size
      /\ \A j \in 1..size : Content[j] = vec[j]
  BY ContentType
<1>2. size' = size - 1 /\ vec' = IF i = size THEN vec ELSE Moved(i)
  BY DEF DelOk
<1>3. ASSUME NEW j \in 1..(size - 1)
      PROVE  /\ j < i => vec'[j] = vec[j]
             /\ ~(j < i) => vec'[j] = IF backward THEN vec[size] ELSE vec[j + 1]
  <2>1. j \in 1..MaxSize /\ ~(j >= size)
    BY <1>0
  <2>2. CASE i = size
    <3>1. j < i /\ vec' = vec
      BY <1>0, <1>2, <2>2
    <3> QED BY <3>1
  <2>3. CASE i # size
    <3>1. vec' = Moved(i)
      BY <1>2, <2>3
    <3>2. CASE j < i
      BY <2>1, <3>1, <3>2 DEF Moved
    <3>3. CASE ~(j < i)
      BY <2>1, <3>1, <3>3 DEF Moved
    <3> QED BY <3>2, <3>3
  <2> QED BY <2>2, <2>3
<1>4. /\ Content' \in Seq(Elem) /\ Len(Content') = size - 1
      /\ \A j \in 1..(size - 1) : Content'[j] = vec'[j]
  <2>1. size' \in 0..MaxSize
    BY DEF TypeOK
  <2>2. /\ Content' \in Seq(Elem) /\ Len(Content') = size'
        /\ \A j \in 1..size' : Content'[j] = vec'[j]
    BY <1>0, <2>1, ContentFacts DEF Content
  <2> QED BY <1>2, <2>2
<1>5. CASE backward /\ i < size - 1
  <2>1. call' = <<"overlap", i>>
    BY <1>5 DEF DelOk
  <2>2. Content' \in [1..(Len(Content) - 1) -> Elem]
    BY <1>1, <1>4, LenProperties
  <2>3. \A j \in 1..(i - 1) : Content'[j] = Content[j]
    BY <1>0, <1>1, <1>3, <1>4, <1>5
  <2> QED BY <1>1, <1>5, <2>1, <2>2, <2>3 DEF List!Overlap
<1>6. CASE ~(backward /\ i < size - 1)
  <2>1. call' = c
    BY <1>6 DEF DelOk
  <2>2. ASSUME NEW j \in 1..(i - 1) PROVE Content'[j] = Content[j]
    BY <1>0, <1>1, <1>3, <1>4
  <2>3. ASSUME NEW j \in i..(size - 1) PROVE Content'[j] = Content[j + 1]
    <3>1. /\ vec'[j] = IF backward THEN vec[size] ELSE vec[j + 1]
          /\ Content'[j] = vec'[j] /\ Content[j + 1] = vec[j + 1]
      BY <1>0, <1>1, <1>3, <1>4
    <3>2. CASE ~backward
      BY <3>1, <3>2
    <3>3. CASE backward
      <4>1. j + 1 = size
        BY <1>0, <1>6, <3>3
      <4> QED BY <3>1, <3>3, <4>1
    <3> QED BY <3>2, <3>3
  <2>4. Content' = List!Without(i)
    <3>1. PICK d \in Seq(Elem) : d = Content'
      BY <1>4
    <3>2. PICK l \in Seq(Elem) : l = Content
      BY <1>1
    <3>3. /\ i \in 1..Len(l) /\ Len(d) = Len(l) - 1
          /\ \A j \in 1..(i - 1) : d[j] = l[j]
          /\ \A j \in i..Len(d) : d[j] = l[j + 1]
      BY <1>1, <1>4, <2>2, <2>3, <3>1, <3>2
    <3>4. d = SubSeq(l, 1, i - 1) \o SubSeq(l, i + 1, Len(l))
      BY <3>3, WithoutElement
    <3> QED BY <3>1, <3>2, <3>4 DEF List!Without
  <2> QED BY <2>1, <2>4
<1> QED BY <1>5, <1>6

\* A load replaces the list, up to where it stops, or leaves it as it is.
LEMMA LoadIsStep ==
  ASSUME TypeOK, TypeOK', NEW m \in Inputs \cup {pb}, FromProtobuf(m)
  PROVE  List!Load \/ List!LoadRefused
<1>0. MaxSize \in Nat /\ m \in Seq(PbElem) /\ Len(m) \in Nat
  BY RawAssumption, MessageType
<1>1. CASE Len(m) > MaxSize
  <2>1. Content' = Content /\ call' = <<"loadrefused">>
    BY <1>1 DEF FromProtobuf, Content
  <2> QED BY <2>1 DEF List!LoadRefused
<1>2. CASE ~(Len(m) > MaxSize)
  <2>1. PICK bad : bad = FirstBad(m)
    OBVIOUS
  <2>2. /\ size' = Len(m)
        /\ call' = IF bad <= Len(m) THEN <<"loadhalf", bad>> ELSE <<"load">>
    BY <1>2, <2>1 DEF FromProtobuf
  <2>3. Content' \in Seq(Elem) /\ Len(Content') = size'
    BY ContentFacts DEF TypeOK, Content
  <2>4. Len(m) \in 0..MaxSize /\ Content' \in [1..Len(m) -> Elem]
    BY <1>0, <1>2, <2>2, <2>3, LenProperties
  <2>5. CASE bad <= Len(m)
    <3>1. bad \in 1..MaxSize /\ Len(m) \in 1..MaxSize
      <4>1. bad \in 1..(Len(m) + 1)
        BY <1>0, <2>1, FirstBadFacts
      <4> QED BY <1>0, <1>2, <2>5, <4>1
    <3>2. call' = <<"loadhalf", bad>>
      BY <2>2, <2>5
    <3> QED BY <2>4, <2>5, <3>1, <3>2 DEF List!LoadRefused
  <2>6. CASE ~(bad <= Len(m))
    BY <2>2, <2>4, <2>6 DEF List!Load
  <2> QED BY <2>5, <2>6
<1> QED BY <1>1, <1>2

\* Every call is a step of the list.
LEMMA ListStep ==
  ASSUME TypeOK, TypeOK', Next
  PROVE  List!Next
<1>0. /\ MaxSize \in Nat /\ size \in 0..MaxSize
      /\ \A i \in 1..size : i \in 1..MaxSize /\ i \in DOMAIN Content
      /\ \A i \in 1..size : Content[i] = vec[i]
  BY RawAssumption, ContentType DEF TypeOK
<1>1. CASE AddSlot \/ \E e \in Stored : Add(e)
  BY <1>1, AddStep DEF List!Next
<1>2. CASE AddFull \/ \E k \in Key : NoKey(k)
  BY <1>2, RefusedStep DEF List!Next
<1>3. CASE ToProtobuf
  <2>1. Content' = Content /\ call' = <<"save">>
    BY <1>3 DEF ToProtobuf, Content
  <2> QED BY <2>1 DEF List!Next, List!Other
<1>4. ASSUME NEW i \in 1..(MaxSize + 1), DelByIdx(i) PROVE List!Next
  <2>1. CASE i > size
    BY <1>4, <2>1, RefusedStep DEF List!Next, DelByIdx
  <2>2. CASE ~(i > size)
    <3>1. i \in 1..size /\ DelOk(i, <<"del", i>>)
      BY <1>0, <1>4, <2>2 DEF DelByIdx
    <3>2. CASE call' = <<"del", i>> /\ Content' = List!Without(i)
      <4>1. List!Del(i)
        BY <1>0, <3>1, <3>2 DEF List!Del
      <4> QED BY <1>0, <3>1, <4>1 DEF List!Next
    <3>3. CASE List!Overlap(i)
      BY <1>0, <3>1, <3>3 DEF List!Next
    <3> QED BY <3>1, <3>2, <3>3, DeleteStep
  <2> QED BY <2>1, <2>2
<1>5. ASSUME NEW i \in 1..(MaxSize + 1), NEW e \in Stored, FindByIdx(i, e)
      PROVE  List!Next
  <2>1. CASE i > size
    BY <1>5, <2>1, RefusedStep DEF List!Next, FindByIdx
  <2>2. CASE ~(i > size)
    <3>1. /\ i \in 1..size /\ vec' = [vec EXCEPT ![i] = e] /\ UNCHANGED size
          /\ call' = <<"store", i>>
      BY <1>0, <1>5, <2>2 DEF FindByIdx
    <3>2. /\ i \in DOMAIN Content /\ e \in Elem
          /\ Content' = [Content EXCEPT ![i] = e]
      BY <3>1, StoreStep
    <3>3. List!Store(i)
      BY <3>1, <3>2 DEF List!Store
    <3> QED BY <1>0, <3>1, <3>3 DEF List!Next
  <2> QED BY <2>1, <2>2
<1>6. ASSUME NEW i \in 1..MaxSize, NEW k \in Key, HasKey(i, k)
      PROVE  i \in 1..size /\ List!IsFirst(i, k)
  <2>1. i \in 1..size /\ vec[i].key = k /\ \A j \in 1..(i - 1) : vec[j].key # k
    BY <1>0, <1>6 DEF HasKey
  <2>2. \A j \in 1..(i - 1) : Content[j] = vec[j]
    BY <1>0, <2>1
  <2> QED BY <1>0, <2>1, <2>2 DEF List!IsFirst
<1>7. ASSUME NEW k \in Key, DelByKey(k) PROVE List!Next
  <2>1. PICK i \in 1..MaxSize : HasKey(i, k) /\ DelOk(i, <<"delkey", k>>)
    BY <1>7 DEF DelByKey
  <2>2. i \in 1..size /\ List!IsFirst(i, k)
    BY <1>6, <2>1
  <2>3. CASE call' = <<"delkey", k>> /\ Content' = List!Without(i)
    <3>1. List!DelKey(k)
      BY <1>0, <2>2, <2>3 DEF List!DelKey
    <3> QED BY <3>1 DEF List!Next
  <2>4. CASE List!Overlap(i)
    BY <2>4 DEF List!Next
  <2> QED BY <2>1, <2>2, <2>3, <2>4, DeleteStep
<1>8. ASSUME NEW k \in Key, NEW e \in Stored, FindByKey(k, e) PROVE List!Next
  <2>1. PICK i \in 1..MaxSize : /\ HasKey(i, k) /\ vec' = [vec EXCEPT ![i] = e]
                                /\ call' = <<"storekey", k>> /\ UNCHANGED size
    BY <1>8 DEF FindByKey
  <2>2. i \in 1..size /\ List!IsFirst(i, k)
    BY <1>6, <2>1
  <2>3. /\ i \in DOMAIN Content /\ e \in Elem
        /\ Content' = [Content EXCEPT ![i] = e]
    BY <2>1, <2>2, StoreStep
  <2>4. List!StoreKey(k)
    BY <2>1, <2>2, <2>3 DEF List!StoreKey
  <2> QED BY <2>4 DEF List!Next
<1>9. ASSUME NEW m \in Inputs \cup {pb}, FromProtobuf(m) PROVE List!Next
  BY <1>9, LoadIsStep DEF List!Next
<1> QED BY <1>1, <1>2, <1>3, <1>4, <1>5, <1>7, <1>8, <1>9 DEF Next

\* The generated array with its size is a bounded list of elements to every
\* caller: no history of calls makes it lose, repeat or reorder an element,
\* act on another one than the first with the key, or refuse a call that
\* could be carried out, save where memcpy copies overlapping memory from
\* its end.
THEOREM ListCorrect == Spec => ImplementsList
<1>1. Init => List!Init
  <2> SUFFICES ASSUME Init PROVE List!Init
    OBVIOUS
  <2>1. Content = << >>
    BY SubSeqEmpty DEF Init, Zeroed, Content
  <2> QED BY <2>1 DEF Init, List!Init
<1>2. ASSUME TypeOK, TypeOK', [Next]_vars
      PROVE  [List!Next]_<<Content, IF call[1] = "save" THEN <<"other">> ELSE call>>
  <2>1. CASE UNCHANGED vars
    BY <2>1 DEF vars, Content
  <2> QED BY <1>2, <2>1, ListStep
<1> QED BY <1>1, <1>2, ListTypeCorrect, PTL DEF Spec, ImplementsList, List!Spec
=============================================================================
