----------------------------- MODULE KeyedList -----------------------------
(***************************************************************************)
(* What a repeated field of a generated struct promises its user: a list   *)
(* of at most Max elements with the operations Add, DelByIdx, DelByKey,    *)
(* Find and the load of a protobuf message.  op is the last call.          *)
(***************************************************************************)
EXTENDS Naturals, Sequences

CONSTANTS Elem, Key, Max

VARIABLES list, op

Without(i) == SubSeq(list, 1, i - 1) \o SubSeq(list, i + 1, Len(list))

\* The first element with a key.
IsFirst(i, k) ==
  list[i].key = k /\ \A j \in 1..(i - 1) : list[j].key # k

Init == list = << >> /\ op = <<"init">>

Add == \E e \in Elem : /\ Len(list) < Max
                       /\ list' = Append(list, e) /\ op' = <<"add">>

Del(i) == i \in DOMAIN list /\ list' = Without(i) /\ op' = <<"del", i>>

DelKey(k) == \E i \in DOMAIN list : /\ IsFirst(i, k) /\ list' = Without(i)
                                    /\ op' = <<"delkey", k>>

\* A caller writes through the pointer a Find returned.
Store(i) == \E e \in Elem : /\ i \in DOMAIN list
                            /\ list' = [list EXCEPT ![i] = e]
                            /\ op' = <<"store", i>>

StoreKey(k) == \E i \in DOMAIN list, e \in Elem :
  IsFirst(i, k) /\ list' = [list EXCEPT ![i] = e] /\ op' = <<"storekey", k>>

Load == \E n \in 0..Max : /\ list' \in [1..n -> Elem]
                          /\ op' = <<"load">>

\* A message with too many elements leaves the list alone; one with a bad
\* element at i has replaced the elements in front of it, and the length.
LoadRefused ==
  \/ list' = list /\ op' = <<"loadrefused">>
  \/ \E n \in 1..Max, i \in 1..Max :
       i <= n /\ list' \in [1..n -> Elem] /\ op' = <<"loadhalf", i>>

\* ToProtobuf and what happens to the protobuf message outside.
Other == list' = list /\ op' = <<"other">>

\* Full, no such index or no such key: nothing changes.
Refused ==
  \/ Len(list) = Max /\ op' = <<"addrefused">> /\ list' = list
  \/ \E i \in 1..(Max + 1) : /\ i > Len(list) /\ op' = <<"idxrefused", i>>
                             /\ list' = list
  \/ \E k \in Key : /\ \A i \in DOMAIN list : list[i].key # k
                    /\ op' = <<"keyrefused", k>> /\ list' = list

\* memcpy on overlapping memory is undefined: where it copies backwards the
\* elements that are moved come out wrong.
Overlap(i) == /\ i < Len(list) - 1 /\ op' = <<"overlap", i>>
              /\ list' \in [1..(Len(list) - 1) -> Elem]
              /\ \A j \in 1..(i - 1) : list'[j] = list[j]

Next == \/ Add \/ Load \/ LoadRefused \/ Refused \/ Other
        \/ \E i \in 1..Max : Del(i) \/ Store(i) \/ Overlap(i)
        \/ \E k \in Key : DelKey(k) \/ StoreKey(k)

Spec == Init /\ [][Next]_<<list, op>>
=============================================================================
