--------------------------- MODULE ChannelProofs ---------------------------
(***************************************************************************)
(* What holds of a channel for every set of peers, every limit of packs in *)
(* a row and everything the peers send meanwhile.                          *)
(***************************************************************************)
EXTENDS Channel, FiniteSetTheorems, SequenceTheorems, BaseLemmas

-----------------------------------------------------------------------------
(* The inductive invariant *)

\* Going round the map from x to c, y comes in between.
Between(x, y, c) == IF x < c THEN x < y /\ y < c ELSE x < y \/ y < c
Arc(x, c) == {y \in Peer : Between(x, y, c)}

\* Within a call the queues found empty are the ones the iterator passed
\* last, as many as the turns of the loop.
CallInv ==
  call # Idle =>
    /\ call.op \in {"Recv", "Peek"} /\ ret = NoRet
    /\ count < kMaxQueueRecvPkgCount
    /\ Cardinality(seen) = call.loop /\ cur \notin seen
    /\ \A x \in seen : Arc(x, cur) \subseteq seen

\* Since the queue of x was visited the iterator has passed those on the arc
\* from x to the current one, each with at most its share of packs.  When it
\* leaves a queue after a pack, it has just looked at that queue.
BypassInv ==
  /\ \A x \in Peer \ {cur} :
       bypass[x] <= kMaxQueueRecvPkgCount * Cardinality(Arc(x, cur)) + count
  /\ bypass[cur] <= kMaxQueueRecvPkgCount * (Cardinality(Peer) - 1)
  /\ count > 0 => bypass[cur] = 0

ChannelInv == TypeOK /\ CallInv /\ EmptyMeansAllEmpty /\ BypassInv

-----------------------------------------------------------------------------
(* The order of the queues *)

\* begin() of the map.
LEMMA FirstKey ==
  ASSUME NEW S \in SUBSET Peer, S # {}
  PROVE  Min(S) \in S /\ \A y \in S : Min(S) <= y
<1>1. S \in SUBSET Nat
  BY ConfigAssumption
<1>2. \E x \in S : \A y \in S : x <= y
  BY <1>1, LeastElement
<1> QED BY <1>2 DEF Min

\* n is the key behind c, or the first key and c the last.
Follows(c, n) ==
  \/ c < n /\ \A y \in Peer : y <= c \/ n <= y
  \/ n <= c /\ \A y \in Peer : n <= y /\ y <= c

\* ++cur_recv_queue_ with the wrap to begin() goes to the next key.
LEMMA NextFollows ==
  ASSUME cur \in Peer
  PROVE  NextQueue \in Peer /\ Follows(cur, NextQueue)
<1> DEFINE later == {x \in Peer : x > cur}
<1>1. cur \in Nat /\ Peer \subseteq Nat
  BY ConfigAssumption
<1>2. CASE later = {}
  <2>1. NextQueue = Min(Peer)
    BY <1>2 DEF NextQueue
  <2>2. Min(Peer) \in Peer /\ \A y \in Peer : Min(Peer) <= y
    BY FirstKey, ConfigAssumption
  <2>3. \A y \in Peer : y <= cur
    BY <1>1, <1>2
  <2> QED BY <1>1, <2>1, <2>2, <2>3 DEF Follows
<1>3. CASE later # {}
  <2>1. NextQueue = Min(later)
    BY <1>3 DEF NextQueue
  <2>2. Min(later) \in later /\ \A y \in later : Min(later) <= y
    BY <1>3, FirstKey
  <2> QED BY <1>1, <2>1, <2>2 DEF Follows
<1> QED BY <1>2, <1>3

\* When the iterator moves, the arc from any other queue grows by the one it
\* leaves.
LEMMA ArcGrows ==
  ASSUME NEW c \in Peer, NEW n \in Peer, Follows(c, n),
         NEW x \in Peer, x # c, x # n
  PROVE  Arc(x, n) = Arc(x, c) \union {c} /\ c \notin Arc(x, c)
<1>1. Peer \subseteq Nat
  BY ConfigAssumption
<1>2. ASSUME NEW y \in Peer
      PROVE  Between(x, y, n) <=> Between(x, y, c) \/ y = c
  <2>1. x \in Nat /\ y \in Nat /\ c \in Nat /\ n \in Nat
    BY <1>1
  <2> QED BY <2>1 DEF Follows, Between
<1>3. ~Between(x, c, c)
  BY <1>1 DEF Between
<1> QED BY <1>2, <1>3 DEF Arc

\* The arc from the next queue to the current one holds all the others; the
\* arc from the current one to the next is empty.
LEMMA ArcRound ==
  ASSUME NEW c \in Peer, NEW n \in Peer, Follows(c, n), n # c
  PROVE  /\ Arc(n, c) = (Peer \ {c}) \ {n}
         /\ Arc(c, n) = {}
<1>1. Peer \subseteq Nat
  BY ConfigAssumption
<1>2. ASSUME NEW y \in Peer
      PROVE  /\ Between(n, y, c) <=> y # c /\ y # n
             /\ ~Between(c, y, n)
  <2>1. y \in Nat /\ c \in Nat /\ n \in Nat
    BY <1>1
  <2> QED BY <2>1 DEF Follows, Between
<1> QED BY <1>2 DEF Arc

\* A channel with one queue stays at it.
LEMMA OnlyQueue ==
  ASSUME NEW c \in Peer, Follows(c, c)
  PROVE  Peer = {c}
<1>1. Peer \subseteq Nat
  BY ConfigAssumption
<1>2. \A y \in Peer : y = c
  BY <1>1 DEF Follows
<1> QED BY <1>2

\* Sizes of the arcs.
LEMMA ArcSize ==
  ASSUME NEW c \in Peer, NEW n \in Peer, Follows(c, n), NEW x \in Peer
  PROVE  /\ Cardinality(Peer) \in Nat \ {0}
         /\ IsFiniteSet(Arc(x, c)) /\ Cardinality(Arc(x, c)) \in Nat
         /\ x # c /\ x # n =>
              Cardinality(Arc(x, n)) = Cardinality(Arc(x, c)) + 1
         /\ n # c => Cardinality(Arc(n, c)) = Cardinality(Peer) - 2
<1>1. IsFiniteSet(Peer) /\ Peer # {}
  BY ConfigAssumption
<1>2. Cardinality(Peer) \in Nat \ {0}
  BY <1>1, FS_CardinalityType, FS_EmptySet
<1>3. IsFiniteSet(Arc(x, c))
  BY <1>1, FS_Subset DEF Arc
<1>4. Cardinality(Arc(x, c)) \in Nat
  BY <1>3, FS_CardinalityType
<1>5. ASSUME x # c, x # n
      PROVE  Cardinality(Arc(x, n)) = Cardinality(Arc(x, c)) + 1
  BY <1>3, <1>5, ArcGrows, FS_AddElement
<1>6. ASSUME n # c
      PROVE  Cardinality(Arc(n, c)) = Cardinality(Peer) - 2
  <2>1. IsFiniteSet(Peer \ {c}) /\ Cardinality(Peer \ {c}) = Cardinality(Peer) - 1
    BY <1>1, FS_RemoveElement
  <2>2. Cardinality((Peer \ {c}) \ {n}) = Cardinality(Peer \ {c}) - 1
    BY <1>6, <2>1, FS_RemoveElement
  <2>3. Arc(n, c) = (Peer \ {c}) \ {n}
    BY <1>6, ArcRound
  <2> QED BY <1>2, <2>1, <2>2, <2>3
<1> QED BY <1>2, <1>3, <1>4, <1>5, <1>6

\* One share more.
LEMMA OneMore ==
  \A k, a \in Nat : k * (a + 1) = k * a + k
  OBVIOUS

-----------------------------------------------------------------------------
(* Type correctness *)

\* The source a call reports fits the 32 bits it is kept in.
LEMMA SourceType ==
  ASSUME TypeOK
  PROVE  Source \in 0 .. IdMod - 1
<1>1. cur \in Int /\ IdMod \in Nat \ {0}
  BY ConfigAssumption DEF TypeOK
<1> QED BY <1>1, ModBounds DEF Source

\* The calls under way and the results of the last one, with their types.
CallSet == [op : {"none", "Recv", "Peek"}, space : Spaces \union {0},
            loop : 0 .. Cardinality(Peer) - 1]
RetSet == [op : {"none", "Send", "Recv", "Peek", "Drop"},
           code : {"none", "kOk", "kChanEmpty", "kChanFull",
                   "kChanDstNotExist", "kChanRecvSpaceLimit"},
           src : 0 .. IdMod - 1]
QueuesOK == inq \in [Peer -> Seq(Msg)] /\ outq \in [Peer -> 0 .. QueueCap]
RoundOK == /\ cur \in Peer /\ count \in 0 .. kMaxQueueRecvPkgCount
           /\ seen \subseteq Peer /\ bypass \in [Peer -> Nat]

LEMMA TypeParts == TypeOK <=> QueuesOK /\ RoundOK /\ call \in CallSet /\ ret \in RetSet
  BY DEF TypeOK, QueuesOK, RoundOK, CallSet, RetSet

\* Every call ends with a proper result.
LEMMA ReturnType ==
  ASSUME NEW op \in {"none", "Send", "Recv", "Peek", "Drop"},
         NEW code \in {"none", "kOk", "kChanEmpty", "kChanFull",
                       "kChanDstNotExist", "kChanRecvSpaceLimit"},
         NEW src \in 0 .. IdMod - 1
  PROVE  [op |-> op, code |-> code, src |-> src] \in RetSet
  BY DEF RetSet

LEMMA CallType ==
  ASSUME NEW op \in {"none", "Recv", "Peek"}, NEW space \in Spaces \union {0},
         NEW loop \in 0 .. Cardinality(Peer) - 1
  PROVE  [op |-> op, space |-> space, loop |-> loop] \in CallSet
  BY DEF CallSet

LEMMA Zeros ==
  /\ Cardinality(Peer) \in Nat \ {0} /\ 0 \in 0 .. Cardinality(Peer) - 1
  /\ 0 \in 0 .. IdMod - 1 /\ Idle \in CallSet /\ NoRet \in RetSet
<1>1. Cardinality(Peer) \in Nat \ {0}
  BY ConfigAssumption, FS_CardinalityType, FS_EmptySet
<1>2. 0 \in 0 .. Cardinality(Peer) - 1 /\ 0 \in 0 .. IdMod - 1
  BY <1>1, ConfigAssumption
<1>3. Idle \in CallSet
  BY <1>2, CallType DEF Idle
<1>4. NoRet \in RetSet
  BY <1>2, ReturnType DEF NoRet
<1> QED BY <1>1, <1>2, <1>3, <1>4

\* The queues lose and get packs of their own type.
LEMMA StepQueues ==
  ASSUME QueuesOK, RoundOK, [Next]_vars
  PROVE  QueuesOK'
<1>1. inq \in [Peer -> Seq(Msg)] /\ outq \in [Peer -> 0 .. QueueCap] /\ cur \in Peer
  BY DEF QueuesOK, RoundOK
<1>2. QueueCap \in Nat \ {0}
  BY ConfigAssumption
<1>3. \/ inq' = inq
      \/ \E x \in Peer, m \in Msg : inq' = [inq EXCEPT ![x] = Append(@, m)]
      \/ \E x \in Peer : inq[x] # <<>> /\ inq' = [inq EXCEPT ![x] = Tail(@)]
  BY <1>1 DEF Next, vars, PeerSends, PeerTakes, Send, RecvCall, VisitEmpty, VisitTakes,
              VisitFails, Drop
<1>4. \/ outq' = outq
      \/ \E x \in Peer : outq[x] > 0 /\ outq' = [outq EXCEPT ![x] = @ - 1]
      \/ \E x \in Peer : outq[x] < QueueCap /\ outq' = [outq EXCEPT ![x] = @ + 1]
  BY DEF Next, vars, PeerSends, PeerTakes, Send, RecvCall, VisitEmpty, VisitTakes,
         VisitFails, Drop
<1>5. inq' \in [Peer -> Seq(Msg)]
  <2>1. CASE inq' = inq
    BY <1>1, <2>1
  <2>2. ASSUME NEW x \in Peer, NEW m \in Msg, inq' = [inq EXCEPT ![x] = Append(@, m)]
        PROVE  inq' \in [Peer -> Seq(Msg)]
    <3>1. Append(inq[x], m) \in Seq(Msg)
      BY <1>1
    <3> QED BY <1>1, <2>2, <3>1
  <2>3. ASSUME NEW x \in Peer, inq[x] # <<>>, inq' = [inq EXCEPT ![x] = Tail(@)]
        PROVE  inq' \in [Peer -> Seq(Msg)]
    <3>1. Tail(inq[x]) \in Seq(Msg)
      BY <1>1, <2>3
    <3> QED BY <1>1, <2>3, <3>1
  <2> QED BY <1>3, <2>1, <2>2, <2>3
<1>6. outq' \in [Peer -> 0 .. QueueCap]
  <2>1. CASE outq' = outq
    BY <1>1, <2>1
  <2>2. ASSUME NEW x \in Peer, outq[x] > 0, outq' = [outq EXCEPT ![x] = @ - 1]
        PROVE  outq' \in [Peer -> 0 .. QueueCap]
    <3>1. outq[x] - 1 \in 0 .. QueueCap
      BY <1>1, <1>2, <2>2
    <3> QED BY <1>1, <2>2, <3>1
  <2>3. ASSUME NEW x \in Peer, outq[x] < QueueCap, outq' = [outq EXCEPT ![x] = @ + 1]
        PROVE  outq' \in [Peer -> 0 .. QueueCap]
    <3>1. outq[x] + 1 \in 0 .. QueueCap
      BY <1>1, <1>2, <2>3
    <3> QED BY <1>1, <2>3, <3>1
  <2> QED BY <1>4, <2>1, <2>2, <2>3
<1> QED BY <1>5, <1>6 DEF QueuesOK

\* The iterator stays on a queue; that the count stays within the limit needs
\* that a call never begins at it.
LEMMA StepRound ==
  ASSUME TypeOK, CallInv, [Next]_vars
  PROVE  RoundOK'
<1>1. /\ cur \in Peer /\ count \in 0 .. kMaxQueueRecvPkgCount
      /\ seen \subseteq Peer /\ bypass \in [Peer -> Nat]
  BY DEF TypeOK
<1>2. NextQueue \in Peer /\ kMaxQueueRecvPkgCount \in Nat \ {0}
  BY ConfigAssumption, NextFollows DEF TypeOK
<1>3. Passed \in [Peer -> Nat]
  BY <1>1 DEF Passed
<1>4. \/ cur' = cur /\ count' = count
      \/ cur' = NextQueue /\ count' = 0
      \/ cur' = cur /\ count' = count + 1 /\ call # Idle
  BY DEF Next, vars, PeerSends, PeerTakes, Send, RecvCall, MoveToNextQueue, VisitEmpty,
         VisitTakes, VisitFails, Drop
<1>5. cur' \in Peer /\ count' \in 0 .. kMaxQueueRecvPkgCount
  <2>1. call # Idle => count < kMaxQueueRecvPkgCount
    BY DEF CallInv
  <2> QED BY <1>1, <1>2, <1>4, <2>1
<1>6. seen' = seen \/ seen' = {} \/ seen' = seen \union {cur}
  BY DEF Next, vars, PeerSends, PeerTakes, Send, RecvCall, VisitEmpty, VisitTakes,
         VisitFails, Drop
<1>7. bypass' = bypass \/ bypass' = Passed
        \/ \E x \in Peer : bypass' = [bypass EXCEPT ![x] = 0]
  BY <1>1 DEF Next, vars, PeerSends, PeerTakes, Send, RecvCall, VisitEmpty, VisitTakes,
              VisitFails, Drop
<1>8. seen' \subseteq Peer
  BY <1>1, <1>6
<1>9. bypass' \in [Peer -> Nat]
  BY <1>1, <1>3, <1>7
<1> QED BY <1>5, <1>8, <1>9 DEF RoundOK

\* Every step keeps the types.
LEMMA StepType ==
  ASSUME TypeOK, CallInv, [Next]_vars
  PROVE  TypeOK'
<1>1. QueuesOK /\ RoundOK /\ call \in CallSet /\ ret \in RetSet
  BY TypeParts
<1>2. Source \in 0 .. IdMod - 1
  BY SourceType
<1>3. call # Idle => call.op \in {"Recv", "Peek"}
  BY DEF CallInv
<1>4. call' \in CallSet
  <2>1. ASSUME NEW op \in {"Recv", "Peek"}, NEW space \in Spaces \union {0},
               call' = [op |-> op, space |-> space, loop |-> 0]
        PROVE  call' \in CallSet
    BY <2>1, Zeros, CallType
  <2>2. CASE /\ call.loop + 1 < Cardinality(Peer)
             /\ call' = [call EXCEPT !.loop = call.loop + 1]
    <3>1. PICK n : n = Cardinality(Peer) /\ n \in Nat \ {0}
      BY Zeros
    <3>2. call.loop + 1 \in 0 .. n - 1
      BY <1>1, <2>2, <3>1 DEF CallSet
    <3> QED BY <1>1, <2>2, <3>1, <3>2 DEF CallSet
  <2>3. CASE call' = Idle \/ call' = call
    BY <1>1, <2>3, Zeros
  <2>4. CASE VisitEmpty
    <3>1. PICK n : n = Cardinality(Peer) /\ n \in Nat \ {0}
      BY Zeros
    <3>2. call.loop + 1 \in Int
      BY <1>1, <3>1 DEF CallSet
    <3>3. call' = Idle \/ (~(call.loop + 1 >= n) /\ call' = [call EXCEPT !.loop = call.loop + 1])
      BY <2>4, <3>1 DEF VisitEmpty, Return
    <3> QED BY <2>2, <2>3, <3>1, <3>2, <3>3
  <2>5. ASSUME NEW op \in {"Recv", "Peek"}, NEW space \in Spaces \union {0}, RecvCall(op, space)
        PROVE  call' \in CallSet
    BY <2>1, <2>5 DEF RecvCall
  <2>6. \/ call' = Idle \/ call' = call \/ VisitEmpty
        \/ \E op \in {"Recv", "Peek"}, space \in Spaces \union {0} : RecvCall(op, space)
    BY DEF Next, vars, PeerSends, PeerTakes, Send, VisitTakes, VisitFails, Drop, Return
  <2> QED BY <2>3, <2>4, <2>5, <2>6
<1>5. ret' \in RetSet
  <2>1. \/ ret' = ret \/ ret' = NoRet
        \/ \E op \in {"none", "Send", "Recv", "Peek", "Drop"},
              code \in {"none", "kOk", "kChanEmpty", "kChanFull",
                        "kChanDstNotExist", "kChanRecvSpaceLimit"},
              src \in {0, Source} : ret' = [op |-> op, code |-> code, src |-> src]
    BY <1>3 DEF Next, vars, PeerSends, PeerTakes, Send, RecvCall, VisitEmpty, VisitTakes,
                VisitFails, Drop, Return
  <2> QED BY <1>1, <1>2, <2>1, Zeros, ReturnType
<1>6. QueuesOK' /\ RoundOK'
  BY <1>1, StepQueues, StepRound
<1> QED BY <1>4, <1>5, <1>6 DEF TypeOK, QueuesOK, RoundOK, CallSet, RetSet

-----------------------------------------------------------------------------
(* The loop over the queues *)

\* One more empty queue: either it was the last one, or the next one has not
\* been visited in this call.
LEMMA SeenGrows ==
  ASSUME TypeOK, CallInv, call # Idle, NEW n, n = NextQueue,
         NEW s, s = seen \union {cur}
  PROVE  /\ Cardinality(s) = call.loop + 1
         /\ call.loop + 1 >= Cardinality(Peer) => s = Peer
         /\ call.loop + 1 < Cardinality(Peer) =>
              n \notin s /\ \A x \in s : Arc(x, n) \subseteq s
<1>1. IsFiniteSet(Peer) /\ Cardinality(Peer) \in Nat
  BY ConfigAssumption, FS_CardinalityType
<1>2. n \in Peer /\ cur \in Peer /\ Follows(cur, n)
  BY NextFollows DEF TypeOK
<1>3. s \in SUBSET Peer /\ IsFiniteSet(s) /\ IsFiniteSet(seen)
  BY <1>1, <1>2, FS_Subset DEF TypeOK
<1>4. Cardinality(s) = call.loop + 1
  BY <1>3, FS_AddElement DEF CallInv
<1>5. call.loop + 1 \in Nat
  BY <1>3, <1>4, FS_CardinalityType
<1>6. call.loop + 1 >= Cardinality(Peer) => s = Peer
  <2>1. Cardinality(s) <= Cardinality(Peer)
        /\ (Cardinality(Peer) = Cardinality(s) => Peer = s)
    BY <1>1, <1>3, FS_Subset
  <2> QED BY <2>1, <1>1, <1>4, <1>5
<1>7. ASSUME call.loop + 1 < Cardinality(Peer)
      PROVE  n \notin s /\ \A x \in s : Arc(x, n) \subseteq s
  <2>1. s # Peer
    <3>1. Cardinality(s) # Cardinality(Peer)
      BY <1>1, <1>4, <1>5, <1>7
    <3> QED BY <3>1
  <2>2. n # cur
    <3>1. n = cur => Peer = {cur}
      BY <1>2, OnlyQueue
    <3> QED BY <1>3, <2>1, <3>1
  <2>3. n \notin seen
    <3> SUFFICES ASSUME n \in seen
                 PROVE  FALSE
      OBVIOUS
    <3>1. Arc(n, cur) \subseteq seen
      BY DEF CallInv
    <3>2. Peer \subseteq s
      BY <1>2, <2>2, <3>1, ArcRound
    <3> QED BY <1>3, <2>1, <3>2
  <2>4. ASSUME NEW x \in s
        PROVE  Arc(x, n) \subseteq s
    <3>1. CASE x = cur
      BY <3>1, <1>2, <2>2, ArcRound
    <3>2. CASE x # cur
      <4>1. x \in seen /\ x \in Peer /\ x # n
        BY <3>2, <2>3, <1>3
      <4>2. Arc(x, n) = Arc(x, cur) \union {cur}
        BY <4>1, <3>2, <1>2, ArcGrows
      <4> QED BY <4>1, <4>2 DEF CallInv
    <3> QED BY <3>1, <3>2
  <2> QED BY <2>2, <2>3, <2>4
<1> QED BY <1>4, <1>6, <1>7

\* Every step keeps track of the queues found empty, and kChanEmpty is
\* returned once they are all there is.
LEMMA StepCall ==
  ASSUME TypeOK, CallInv, EmptyMeansAllEmpty, [Next]_vars
  PROVE  CallInv' /\ EmptyMeansAllEmpty'
<1> USE DEF CallInv, EmptyMeansAllEmpty
<1>1. ASSUME UNCHANGED <<cur, count, call, ret, seen>>
      PROVE  CallInv' /\ EmptyMeansAllEmpty'
  BY <1>1
<1>2. ASSUME call' = Idle, ret'.op \notin {"Recv", "Peek"} \/ ret'.code # "kChanEmpty"
      PROVE  CallInv' /\ EmptyMeansAllEmpty'
  BY <1>2
<1>3. ASSUME NEW x \in Peer, NEW m \in Msg, PeerSends(x, m)
      PROVE  CallInv' /\ EmptyMeansAllEmpty'
  BY <1>1, <1>3 DEF PeerSends
<1>4. ASSUME NEW x \in Peer, PeerTakes(x)
      PROVE  CallInv' /\ EmptyMeansAllEmpty'
  BY <1>1, <1>4 DEF PeerTakes
<1>5. ASSUME NEW dst \in Peer \union Stranger, Send(dst)
      PROVE  CallInv' /\ EmptyMeansAllEmpty'
  <2>1. call' = Idle /\ ret'.op = "Send"
    BY <1>5 DEF Send, Return
  <2> QED BY <1>2, <2>1
<1>6. ASSUME NEW op \in {"Recv", "Peek"}, NEW space \in Spaces \union {0},
             RecvCall(op, space)
      PROVE  CallInv' /\ EmptyMeansAllEmpty'
  <2>1. /\ call' = [op |-> op, space |-> space, loop |-> 0]
        /\ ret' = NoRet /\ seen' = {}
    BY <1>6 DEF RecvCall
  <2>2. count' < kMaxQueueRecvPkgCount
    BY <1>6, ConfigAssumption DEF RecvCall, MoveToNextQueue, TypeOK
  <2>3. Cardinality({}) = 0
    BY FS_EmptySet
  <2> QED BY <2>1, <2>2, <2>3 DEF NoRet
<1>7. CASE VisitEmpty
  <2> DEFINE s == seen \union {cur}
  <2>1. call # Idle /\ cur' = NextQueue /\ count' = 0 /\ seen' = s
    BY <1>7 DEF VisitEmpty, MoveToNextQueue
  <2>2. /\ Cardinality(s) = call.loop + 1
        /\ call.loop + 1 >= Cardinality(Peer) => s = Peer
        /\ call.loop + 1 < Cardinality(Peer) =>
             cur' \notin s /\ \A x \in s : Arc(x, cur') \subseteq s
    BY <2>1, SeenGrows
  <2> HIDE DEF s
  <2>3. CASE call.loop + 1 >= Cardinality(Peer)
    BY <1>7, <2>1, <2>2, <2>3 DEF VisitEmpty, Return
  <2>4. CASE ~(call.loop + 1 >= Cardinality(Peer))
    <3>1. call' = [call EXCEPT !.loop = call.loop + 1] /\ UNCHANGED ret
      BY <1>7, <2>4 DEF VisitEmpty
    <3>2. call'.op = call.op /\ call'.loop = call.loop + 1
      BY <3>1 DEF TypeOK
    <3>3. call.loop + 1 < Cardinality(Peer)
      BY <2>4, ConfigAssumption, FS_CardinalityType DEF TypeOK
    <3>4. Cardinality(seen') = call'.loop /\ cur' \notin seen'
      BY <2>1, <2>2, <3>2, <3>3
    <3>5. \A x \in seen' : Arc(x, cur') \subseteq seen'
      BY <2>1, <2>2, <3>3
    <3>6. count' < kMaxQueueRecvPkgCount
      BY <2>1, ConfigAssumption
    <3>7. call.op \in {"Recv", "Peek"} /\ ret = NoRet
      BY <2>1
    <3>8. CallInv'
      BY <3>1, <3>2, <3>4, <3>5, <3>6, <3>7 DEF Arc
    <3> QED BY <3>1, <3>7, <3>8 DEF NoRet
  <2> QED BY <2>3, <2>4
<1>8. CASE VisitTakes
  <2>1. call' = Idle /\ ret'.code = "kOk"
    BY <1>8 DEF VisitTakes, Return
  <2> QED BY <1>2, <2>1
<1>9. CASE VisitFails
  <2>1. call' = Idle /\ ret'.code = "kChanRecvSpaceLimit"
    BY <1>9 DEF VisitFails, Return
  <2> QED BY <1>2, <2>1
<1>10. ASSUME NEW src \in Peer \union Stranger, Drop(src)
       PROVE  CallInv' /\ EmptyMeansAllEmpty'
  <2>1. call' = Idle /\ ret'.op = "Drop"
    BY <1>10 DEF Drop, Return
  <2> QED BY <1>2, <2>1
<1>11. CASE UNCHANGED vars
  BY <1>1, <1>11 DEF vars
<1> QED
  BY <1>3, <1>4, <1>5, <1>6, <1>7, <1>8, <1>9, <1>10, <1>11 DEF Next

-----------------------------------------------------------------------------
(* The share of each queue *)

\* The iterator leaves a queue that has just been looked at.
LEMMA MoveBypass ==
  ASSUME TypeOK, BypassInv, cur' = NextQueue, count' = 0,
         bypass' \in [Peer -> Nat], bypass'[cur] = 0,
         \A x \in Peer : bypass'[x] <= bypass[x]
  PROVE  BypassInv'
<1> DEFINE K == kMaxQueueRecvPkgCount
           N == Cardinality(Peer)
<1>1. /\ K \in Nat \ {0} /\ count \in Nat /\ count <= K /\ cur \in Peer
      /\ \A x \in Peer : bypass[x] \in Nat /\ bypass'[x] \in Nat
  BY ConfigAssumption DEF TypeOK
<1> PICK n \in Peer : n = cur' /\ Follows(cur, n)
  BY <1>1, NextFollows
<1>2. N \in Nat \ {0}
  BY <1>1, ArcSize
<1>3. ASSUME NEW x \in Peer, x # n
      PROVE  bypass'[x] <= K * Cardinality(Arc(x, n)) + 0
  <2> DEFINE a == Cardinality(Arc(x, cur))
             b == Cardinality(Arc(x, n))
  <2>1. a \in Nat /\ K * a \in Nat
    BY <1>1, ArcSize
  <2>2. CASE x = cur
    <3>1. b \in Nat
      BY NextFollows, ArcSize, FS_Subset, FS_CardinalityType, ConfigAssumption DEF Arc
    <3>2. K * b \in Nat
      BY <1>1, <3>1
    <3> QED BY <2>2, <3>2
  <2>3. CASE x # cur
    <3>1. b = a + 1
      BY <1>1, <1>3, <2>3, ArcSize
    <3>2. bypass[x] <= K * a + count
      BY <1>1, <2>3 DEF BypassInv
    <3>3. K * b = K * a + K
      BY <1>1, <2>1, <3>1, OneMore
    <3> HIDE DEF a, b, K
    <3>4. bypass'[x] <= K * b + 0
      BY <1>1, <2>1, <3>2, <3>3
    <3> QED BY <3>4 DEF b, K
  <2> QED BY <2>2, <2>3
<1>4. bypass'[n] <= K * (N - 1)
  <2>1. CASE n = cur
    <3>1. K * (N - 1) \in Nat
      BY <1>1, <1>2
    <3> QED BY <2>1, <3>1
  <2>2. CASE n # cur
    <3> DEFINE a == Cardinality(Arc(n, cur))
    <3>1. a = N - 2 /\ a \in Nat /\ N - 1 = a + 1
      BY <1>1, <1>2, <2>2, ArcSize
    <3>2. bypass[n] <= K * a + count
      BY <2>2 DEF BypassInv
    <3>3. K * (a + 1) = K * a + K /\ K * a \in Nat
      BY <1>1, <3>1, OneMore
    <3> HIDE DEF a, K, N
    <3>4. bypass'[n] <= K * (a + 1)
      BY <1>1, <3>2, <3>3
    <3> QED BY <3>1, <3>4
  <2> QED BY <2>1, <2>2
<1> QED BY <1>3, <1>4 DEF BypassInv, Arc

\* Every step keeps the bounds.
LEMMA StepBypass ==
  ASSUME TypeOK, TypeOK', CallInv, BypassInv, [Next]_vars
  PROVE  BypassInv'
<1> DEFINE K == kMaxQueueRecvPkgCount
<1>1. /\ K \in Nat \ {0} /\ count \in Nat /\ count <= K /\ cur \in Peer
      /\ bypass \in [Peer -> Nat] /\ bypass' \in [Peer -> Nat]
  <2>1. bypass' \in [Peer -> Nat]
    BY DEF TypeOK
  <2>2. K \in Nat \ {0} /\ count \in 0 .. K
    BY ConfigAssumption DEF TypeOK
  <2>3. cur \in Peer /\ bypass \in [Peer -> Nat]
    BY DEF TypeOK
  <2> QED BY <2>1, <2>2, <2>3
<1>2. ASSUME UNCHANGED <<cur, count, bypass>>
      PROVE  BypassInv'
  BY <1>2 DEF BypassInv, Arc
<1>3. ASSUME NEW x \in Peer, NEW m \in Msg, PeerSends(x, m)
      PROVE  BypassInv'
  BY <1>2, <1>3 DEF PeerSends
<1>4. ASSUME NEW x \in Peer, PeerTakes(x)
      PROVE  BypassInv'
  BY <1>2, <1>4 DEF PeerTakes
<1>5. ASSUME NEW dst \in Peer \union Stranger, Send(dst)
      PROVE  BypassInv'
  BY <1>2, <1>5 DEF Send
<1>6. ASSUME NEW op \in {"Recv", "Peek"}, NEW space \in Spaces \union {0},
             RecvCall(op, space)
      PROVE  BypassInv'
  <2>1. CASE UNCHANGED <<cur, count>>
    BY <1>2, <1>6, <2>1 DEF RecvCall
  <2>2. CASE count >= K /\ MoveToNextQueue
    <3>1. bypass' = bypass /\ bypass[cur] = 0
      BY <1>1, <1>6, <2>2 DEF RecvCall, BypassInv
    <3>2. cur' = NextQueue /\ count' = 0
      BY <2>2 DEF MoveToNextQueue
    <3>3. \A x \in Peer : bypass'[x] <= bypass[x]
      BY <1>1, <3>1
    <3> QED BY <1>1, <3>1, <3>2, <3>3, MoveBypass
  <2> QED BY <1>6, <2>1, <2>2 DEF RecvCall
<1>7. ASSUME VisitEmpty \/ VisitFails
      PROVE  BypassInv'
  <2>1. /\ cur' = NextQueue /\ count' = 0
        /\ bypass' = [bypass EXCEPT ![cur] = 0]
    BY <1>7 DEF VisitEmpty, VisitFails, MoveToNextQueue
  <2>2. bypass'[cur] = 0 /\ \A x \in Peer : bypass'[x] <= bypass[x]
    BY <1>1, <2>1
  <2> QED BY <1>1, <2>1, <2>2, MoveBypass
<1>8. CASE VisitTakes
  <2>1. cur' = cur /\ count' = count + 1 /\ bypass' = Passed
    BY <1>8 DEF VisitTakes
  <2>2. bypass'[cur] = 0
    BY <1>1, <2>1 DEF Passed
  <2>3. \A x \in Peer : bypass'[x] <= bypass[x] + 1
    BY <1>1, <2>1 DEF Passed
  <2>4. ASSUME NEW x \in Peer \ {cur}
        PROVE  bypass'[x] <= K * Cardinality(Arc(x, cur)) + (count + 1)
    <3>1. K * Cardinality(Arc(x, cur)) \in Nat
      BY <1>1, NextFollows, ArcSize
    <3>2. bypass[x] <= K * Cardinality(Arc(x, cur)) + count
      BY DEF BypassInv
    <3> QED BY <1>1, <2>3, <3>1, <3>2
  <2>5. K * (Cardinality(Peer) - 1) \in Nat
    <3>1. Cardinality(Peer) - 1 \in Nat
      BY <1>1, NextFollows, ArcSize
    <3> QED BY <1>1, <3>1
  <2> QED BY <2>1, <2>2, <2>4, <2>5 DEF BypassInv, Arc
<1>9. ASSUME NEW src \in Peer \union Stranger, Drop(src)
      PROVE  BypassInv'
  <2>1. CASE UNCHANGED bypass
    BY <1>2, <1>9, <2>1 DEF Drop
  <2>2. CASE src \in Peer /\ bypass' = [bypass EXCEPT ![src] = 0]
    <3>1. UNCHANGED <<cur, count>>
      BY <1>9 DEF Drop
    <3>2. /\ \A x \in Peer : bypass'[x] <= bypass[x]
          /\ bypass[cur] = 0 => bypass'[cur] = 0
      BY <1>1, <2>2
    <3>3. ASSUME NEW x \in Peer \ {cur}
          PROVE  bypass'[x] <= K * Cardinality(Arc(x, cur)) + count
      <4>1. K * Cardinality(Arc(x, cur)) \in Nat
        BY <1>1, NextFollows, ArcSize
      <4>2. bypass[x] <= K * Cardinality(Arc(x, cur)) + count
        BY DEF BypassInv
      <4> QED BY <1>1, <3>2, <4>1, <4>2
    <3>4. bypass'[cur] <= K * (Cardinality(Peer) - 1)
      <4>1. Cardinality(Peer) - 1 \in Nat
        BY <1>1, NextFollows, ArcSize
      <4>2. K * (Cardinality(Peer) - 1) \in Nat
        BY <1>1, <4>1
      <4>3. bypass[cur] <= K * (Cardinality(Peer) - 1)
        BY DEF BypassInv
      <4> QED BY <1>1, <3>2, <4>2, <4>3
    <3> QED BY <3>1, <3>2, <3>3, <3>4 DEF BypassInv, Arc
  <2> QED BY <1>9, <2>1, <2>2 DEF Drop
<1>10. CASE UNCHANGED vars
  BY <1>2, <1>10 DEF vars
<1> QED
  BY <1>3, <1>4, <1>5, <1>6, <1>7, <1>8, <1>9, <1>10 DEF Next

-----------------------------------------------------------------------------
(* The theorems *)

\* The inductive invariant of a channel.
THEOREM ChannelInvariant == Spec => []ChannelInv
<1>1. Init => ChannelInv
  <2> SUFFICES ASSUME Init
               PROVE  ChannelInv
    OBVIOUS
  <2> USE DEF Init
  <2>1. /\ Cardinality(Peer) \in Nat \ {0} /\ Min(Peer) \in Peer
        /\ kMaxQueueRecvPkgCount \in Nat /\ IdMod \in Nat \ {0}
        /\ QueueCap \in Nat
    BY ConfigAssumption, FirstKey, FS_CardinalityType, FS_EmptySet
  <2>2. TypeOK
    BY <2>1 DEF TypeOK, Idle, NoRet
  <2>3. CallInv /\ EmptyMeansAllEmpty
    BY DEF CallInv, EmptyMeansAllEmpty, NoRet
  <2>4. BypassInv
    <3>1. ASSUME NEW x \in Peer
          PROVE  kMaxQueueRecvPkgCount * Cardinality(Arc(x, cur)) \in Nat
      <4>1. Cardinality(Arc(x, cur)) \in Nat
        BY <2>1, NextFollows, ArcSize
      <4> QED BY <2>1, <4>1
    <3>2. kMaxQueueRecvPkgCount * (Cardinality(Peer) - 1) \in Nat
      BY <2>1
    <3> QED BY <2>1, <3>1, <3>2 DEF BypassInv
  <2> QED BY <2>2, <2>3, <2>4 DEF ChannelInv
<1>2. ChannelInv /\ [Next]_vars => ChannelInv'
  BY StepType, StepCall, StepBypass DEF ChannelInv
<1> QED BY <1>1, <1>2, PTL DEF Spec

\* Type correctness for any channel: the iterator stands at a queue and no
\* queue gets more than its share of packs in a row.
THEOREM ChannelTypeCorrect == Spec => []TypeOK
<1>1. ChannelInv => TypeOK
  BY DEF ChannelInv
<1> QED BY <1>1, ChannelInvariant, PTL

\* kChanEmpty means that the call found every queue empty, wherever in the
\* map the iterator stood and however often it wrapped.
THEOREM ChannelEmpty == Spec => []EmptyMeansAllEmpty
<1>1. ChannelInv => EmptyMeansAllEmpty
  BY DEF ChannelInv
<1> QED BY <1>1, ChannelInvariant, PTL

\* A pack waits for at most one share of each other queue, for any number of
\* peers and whatever they send.
THEOREM ChannelFair == Spec => []BoundedBypass
<1>1. ChannelInv => BoundedBypass
  <2> SUFFICES ASSUME ChannelInv, NEW x \in Peer
               PROVE  bypass[x] <= kMaxQueueRecvPkgCount * (Cardinality(Peer) - 1)
    BY DEF BoundedBypass
  <2> DEFINE K == kMaxQueueRecvPkgCount
             N == Cardinality(Peer)
             a == Cardinality(Arc(x, cur))
  <2>1. K \in Nat /\ count \in Nat /\ count <= K /\ cur \in Peer /\ bypass[x] \in Nat
    BY ConfigAssumption DEF ChannelInv, TypeOK
  <2>2. CASE x = cur
    BY <2>2 DEF ChannelInv, BypassInv
  <2>3. CASE x # cur
    <3>1. IsFiniteSet(Peer) /\ N \in Nat /\ a \in Nat
      BY <2>1, NextFollows, ArcSize, ConfigAssumption
    <3>2. a <= N - 2
      <4>1. Arc(x, cur) \in SUBSET ((Peer \ {cur}) \ {x})
        <5>1. Peer \subseteq Nat
          BY ConfigAssumption
        <5> QED BY <2>1, <5>1 DEF Arc, Between
      <4>2. IsFiniteSet(Peer \ {cur}) /\ Cardinality(Peer \ {cur}) = N - 1
        BY <2>1, <3>1, FS_RemoveElement
      <4>3. /\ IsFiniteSet((Peer \ {cur}) \ {x})
            /\ Cardinality((Peer \ {cur}) \ {x}) = Cardinality(Peer \ {cur}) - 1
        BY <2>3, <4>2, FS_RemoveElement
      <4>4. a <= Cardinality((Peer \ {cur}) \ {x})
        BY <4>1, <4>3, FS_Subset
      <4> HIDE DEF a, N
      <4> QED BY <3>1, <4>2, <4>3, <4>4
    <3>3. bypass[x] <= K * a + count
      BY <2>3 DEF ChannelInv, BypassInv
    <3>4. K * (N - 1) = K * (a + 1) + K * (N - 2 - a)
      BY <2>1, <3>1
    <3>5. K * (a + 1) = K * a + K /\ K * a \in Nat /\ K * (N - 2 - a) \in Nat
      <4>1. N - 2 - a \in Nat
        BY <3>1, <3>2
      <4> QED BY <2>1, <3>1, <4>1, OneMore
    <3> HIDE DEF a, K, N
    <3>6. bypass[x] <= K * (N - 1)
      BY <2>1, <3>3, <3>4, <3>5
    <3> QED BY <3>6 DEF K, N
  <2> QED BY <2>2, <2>3
<1> QED BY <1>1, ChannelInvariant, PTL
=============================================================================
