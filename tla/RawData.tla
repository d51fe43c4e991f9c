------------------------------ MODULE RawData ------------------------------
(***************************************************************************)
(* The struct that tools/proto2obj4pb.py generates for a message type with *)
(* a repeated field of messages and the option keyopt: a fixed array and a *)
(* size, Add, Find and Del by index and by key, and the conversions from   *)
(* and to the protobuf message (the templates h_vec_field, cc_opt_func,    *)
(* cc_additional_opt_func, cc_encode_... and cc_decode_...).  An element   *)
(* has a key, a string field with a maximum length and a repeated field of *)
(* its own, of which only the number of entries is kept.                   *)
(*                                                                         *)
(* Slots behind the size keep what they last held: Add without argument    *)
(* and a string that does not fit bring it back.  A string is a sequence   *)
(* of bytes, since strncpy tells the byte NUL from the others.             *)
(***************************************************************************)
EXTENDS Naturals, Sequences

CONSTANTS
  Key,      \* values of the key, the first field of the element's type
  Char, NUL,  \* the bytes of strings, and the one that ends a C string
  MaxSize,  \* MAX_..._SIZE of the repeated field
  MaxStr,   \* MAX_..._SIZE of the string field
  MaxSub,   \* MAX_..._SIZE of the element's repeated field
  Stored,   \* elements that callers add or write
  Inputs,   \* protobuf messages that arrive: sequences of elements
  PbBound   \* bound: elements in the protobuf message ToProtobuf fills

ASSUME RawAssumption ==
  /\ MaxSize \in Nat \ {0} /\ MaxStr \in Nat /\ MaxSub \in Nat
  /\ NUL \in Char

VARIABLES
  vec, size,  \* the array (slots 1..MaxSize) and $$field$$_size
  pb,         \* the message ToProtobuf filled, until the next call but a save
  call,       \* history: the last call and its outcome
  inp,        \* history: the input, if the last call is FromProtobuf
  backward    \* memcpy of this machine's libc copies from the end

vars == <<vec, size, pb, call, inp, backward>>

StoredStr == UNION {[1..n -> Char] : n \in 0..MaxStr}
Elem == [key : Key, str : StoredStr, n : 0..MaxSub]
PbElem == [key : Key, str : Seq(Char), n : Nat]
Content == SubSeq(vec, 1, size)

\* Callers write elements within the maxima of their type; a message may
\* hold any.
ASSUME CallerAssumption ==
  Stored \subseteq Elem /\ Inputs \subseteq Seq(PbElem)

\* The caller has no use for the last message any more.
Drop == pb' = << >> /\ inp' = << >> /\ UNCHANGED backward

\* The struct has neither a constructor nor initialisers: it is its user who
\* has to zero the memory before the first call, sizes and elements.
Zeroed ==
  /\ \E zero \in Key :
       vec = [i \in 1..MaxSize |-> [key |-> zero, str |-> << >>, n |-> 0]]
  /\ size = 0

Init ==
  /\ Zeroed /\ pb = << >> /\ call = <<"init">> /\ inp = << >>
  /\ backward \in BOOLEAN

-----------------------------------------------------------------------------
(* cc_opt_func *)

Full == size >= MaxSize

AddSlot ==
  /\ ~Full
  /\ size' = size + 1 /\ call' = <<"add">>
  /\ UNCHANGED vec /\ Drop

Add(e) ==
  /\ ~Full
  /\ vec' = [vec EXCEPT ![size + 1] = e]
  /\ size' = size + 1 /\ call' = <<"add">>
  /\ Drop

\* Mutant of AddFull: the last slot cannot be used.
AddFullEarly ==
  /\ size >= MaxSize - 1
  /\ call' = <<"addrefused">>
  /\ UNCHANGED <<vec, size>> /\ Drop

AddFull ==
  /\ Full
  /\ call' = <<"addrefused">>
  /\ UNCHANGED <<vec, size>> /\ Drop

\* The caller writes the element FindByIdx points to.
FindByIdx(i, e) ==
  /\ IF i > size
     THEN vec' = vec /\ call' = <<"idxrefused", i>>
     ELSE vec' = [vec EXCEPT ![i] = e] /\ call' = <<"store", i>>
  /\ UNCHANGED size /\ Drop

\* memcpy(dest, src, end - src) on elements i + 1 .. size, one slot down.
\* More than one element overlaps; copied from the end, each one is taken
\* from a slot that has been overwritten.
Moved(i) ==
  [j \in 1..MaxSize |->
     CASE j < i \/ j >= size -> vec[j]
       [] OTHER -> IF backward THEN vec[size] ELSE vec[j + 1]]

DelOk(i, c) ==
  /\ vec' = IF i = size THEN vec ELSE Moved(i)
  /\ size' = size - 1
  /\ call' = IF backward /\ i < size - 1 THEN <<"overlap", i>> ELSE c

DelByIdx(i) ==
  /\ IF i > size
     THEN UNCHANGED <<vec, size>> /\ call' = <<"idxrefused", i>>
     ELSE DelOk(i, <<"del", i>>)
  /\ Drop

-----------------------------------------------------------------------------
(* cc_additional_opt_func *)

\* Mutant of HasKey: the search runs over the whole array.
HasKeyAnywhere(i, k) ==
  vec[i].key = k /\ \A j \in 1..(i - 1) : vec[j].key # k

\* The loop stops at the first element with the key.
HasKey(i, k) ==
  i <= size /\ vec[i].key = k /\ \A j \in 1..(i - 1) : vec[j].key # k

NoKey(k) ==
  /\ \A i \in 1..MaxSize : ~HasKey(i, k)
  /\ call' = <<"keyrefused", k>>
  /\ UNCHANGED <<vec, size>> /\ Drop

FindByKey(k, e) ==
  \E i \in 1..MaxSize :
    /\ HasKey(i, k)
    /\ vec' = [vec EXCEPT ![i] = e] /\ call' = <<"storekey", k>>
    /\ UNCHANGED size /\ Drop

DelByKey(k) ==
  \E i \in 1..MaxSize :
    /\ HasKey(i, k)
    /\ DelOk(i, <<"delkey", k>>)
    /\ Drop

-----------------------------------------------------------------------------
(* Conversions *)

\* ToProtobuf adds to whatever the message holds.
ToProtobuf ==
  /\ Len(pb) + size <= PbBound
  /\ pb' = pb \o Content /\ call' = <<"save">>
  /\ inp' = << >> /\ UNCHANGED <<vec, size, backward>>

\* strncpy(field, s, Len(s)): from the first NUL on every byte is a NUL.
strncpy(s) ==
  [j \in 1..Len(s) |-> IF \E h \in 1..j : s[h] = NUL THEN NUL ELSE s[j]]

\* Mutant of set_str: strings of the maximum length are refused.
set_str_early(old, s) == IF Len(s) >= MaxStr THEN old ELSE strncpy(s)

\* set_$$field$$(input, len): a string that does not fit is refused, and the
\* template cc_decode_string_field does not look at the result.
set_str(old, s) == IF Len(s) >= MaxStr + 1 THEN old ELSE strncpy(s)

\* The first element that FromProtobuf of the element's type refuses, and
\* one more than the length if there is none.
FirstBad(m) ==
  CHOOSE i \in 1..(Len(m) + 1) :
    /\ i = Len(m) + 1 \/ m[i].n > MaxSub
    /\ \A j \in 1..(i - 1) : m[j].n <= MaxSub

\* The elements before the bad one are replaced, of the bad one the fields
\* in front of the one that is refused.
Loaded(m, bad) ==
  [i \in 1..MaxSize |->
     CASE i > bad \/ i > Len(m) -> vec[i]
       [] OTHER -> [key |-> m[i].key, str |-> set_str(vec[i].str, m[i].str),
                    n |-> IF i = bad THEN vec[i].n ELSE m[i].n]]

FromProtobuf(m) ==
  /\ inp' = m
  /\ IF Len(m) > MaxSize
     THEN UNCHANGED <<vec, size>> /\ call' = <<"loadrefused">>
     ELSE LET bad == FirstBad(m)
          IN  /\ size' = Len(m)
              /\ vec' = Loaded(m, bad)
              /\ call' = IF bad <= Len(m) THEN <<"loadhalf", bad>>
                                           ELSE <<"load">>
  /\ pb' = << >> /\ UNCHANGED backward

-----------------------------------------------------------------------------
Next ==
  \/ AddSlot \/ AddFull \/ ToProtobuf
  \/ \E e \in Stored : Add(e)
  \/ \E i \in 1..(MaxSize + 1) : DelByIdx(i)
  \/ \E i \in 1..(MaxSize + 1), e \in Stored : FindByIdx(i, e)
  \/ \E k \in Key : NoKey(k) \/ DelByKey(k)
  \/ \E k \in Key, e \in Stored : FindByKey(k, e)
  \/ \E m \in Inputs \cup {pb} : FromProtobuf(m)

Spec == Init /\ [][Next]_vars

-----------------------------------------------------------------------------
(***************************************************************************)
(* Properties                                                              *)
(***************************************************************************)

\* The array, its size and the protobuf message have their types; the stored
\* strings and nested lists respect their maxima after every conversion.
TypeOK ==
  /\ vec \in [1..MaxSize -> Elem] /\ size \in 0..MaxSize
  /\ pb \in Seq(PbElem) /\ inp \in Seq(PbElem) /\ backward \in BOOLEAN

\* t is s, save bytes behind a NUL.
Kept(s, t) ==
  /\ Len(t) = Len(s)
  /\ \A j \in 1..Len(s) : t[j] = s[j] \/ \E h \in 1..j : s[h] = NUL

\* What FromProtobuf leaves behind.  It returns false for exactly the
\* messages with too many elements or a bad element.  Where it returned true
\* the list is the message; where it stopped at an element, everything in
\* front of it is the message's.  It falls short of that for strings only: one
\* that is too long is not taken at all, and of one that is taken bytes are
\* lost at most behind a NUL, none is moved and the length stays.
LoadExact ==
  LET same(i) == /\ vec[i].key = inp[i].key /\ vec[i].n = inp[i].n
                 /\ Len(inp[i].str) <= MaxStr => Kept(inp[i].str, vec[i].str)
  IN  /\ call[1] = "loadrefused" => Len(inp) > MaxSize
      /\ call[1] \in {"load", "loadhalf"} => size = Len(inp)
      /\ call[1] = "load" => \A i \in 1..size : same(i)
      /\ call[1] = "loadhalf" => /\ \A i \in 1..(call[2] - 1) : same(i)
                                 /\ inp[call[2]].n > MaxSub

List == INSTANCE KeyedList
  WITH list <- Content, Max <- MaxSize,
       op <- IF call[1] = "save" THEN <<"other">> ELSE call

\* The array with its size behaves as a bounded list: Add appends and is
\* refused only at the maximum, Find and Del by key act on the first element
\* with the key and are refused only without one, Del keeps the order of the
\* rest (save where memcpy copies overlapping memory backwards), and what is
\* behind the size never counts.
ImplementsList == List!Spec
=============================================================================
