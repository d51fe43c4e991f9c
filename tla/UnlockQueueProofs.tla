------------------------- MODULE UnlockQueueProofs -------------------------
(***************************************************************************)
(* What holds of the lock-free queue for every capacity, every set of      *)
(* messages and every interleaving of the two sides, crashes included.     *)
(***************************************************************************)
EXTENDS UnlockQueueInv, SequenceTheorems, TLAPS

-----------------------------------------------------------------------------
(* Arithmetic of the sizes *)

\* The remainder that wraps a position at the end of the ring.
LEMMA ModRange ==
  \A x \in Int, c \in Nat \ {0} : x % c \in 0 .. c - 1
  OBVIOUS

\* A position that is at most the end of the ring wraps only there.
LEMMA ModAtEnd ==
  ASSUME NEW c \in Nat \ {0}, NEW x \in Nat, x <= c
  PROVE  x % c = IF x = c THEN 0 ELSE x
  OBVIOUS

\* GetAlignmentSize returns a size, and the sanity check Send makes says it
\* has room for the pack if the sum in front of it did not wrap.
LEMMA AlignSize ==
  ASSUME NEW m \in Msg
  PROVE  /\ PackSize(m) \in Nat /\ AlignPackSize(m) \in Nat
         /\ Proper(m) => AlignPackSize(m) >= PackHeadSize + MsgLen[m]
<1> DEFINE sum == PackHeadSize + MsgLen[m]
           s == (PackSize(m) + AlignLevel - 1) % Word
<1>1. sum \in Nat /\ Word \in Nat \ {0}
  BY SizeAssumption, MsgAssumption
<1>2. PackSize(m) \in Nat /\ (sum < Word => PackSize(m) = sum)
  <2>1. PackSize(m) = sum % Word
    BY DEF PackSize
  <2> HIDE DEF sum
  <2> QED BY <1>1, <2>1
<1>3. s \in Nat
  <2>1. PackSize(m) + AlignLevel - 1 \in Int
    BY <1>2, SizeAssumption
  <2> QED BY <1>1, <2>1, ModRange
<1>4. s - (s % AlignLevel) \in Nat
  <2> HIDE DEF s
  <2> QED BY <1>3, SizeAssumption
<1>5. AlignPackSize(m) \in Nat
  BY <1>4 DEF AlignPackSize, GetAlignmentSize
<1>6. Proper(m) => AlignPackSize(m) >= PackSize(m) /\ PackSize(m) = sum
  BY <1>2, <1>5 DEF Proper, Overflows, SizesKept
<1> QED BY <1>2, <1>5, <1>6

-----------------------------------------------------------------------------
(* Type correctness *)

\* A head copied by Send has the fields of a ChannelPackHead.
LEMMA PackHeadType ==
  ASSUME NEW m \in Msg, NEW s \in 0 .. SeqMod - 1
  PROVE  PackHead(m, s) \in ChannelPackHead
<1>1. MsgLen[m] % Half \in Nat
  <2>1. MsgLen[m] \in Int
    BY MsgAssumption
  <2> QED BY <2>1, SizeAssumption, ModRange
<1>2. (AlignPackSize(m) - PackHeadSize) % Half \in Nat
  <2>1. AlignPackSize(m) - PackHeadSize \in Int
    BY AlignSize, SizeAssumption
  <2>2. Half \in Nat \ {0}
    BY SizeAssumption
  <2> QED BY <2>1, <2>2, ModRange
<1>3. s \in Nat
  BY SizeAssumption
<1> QED BY <1>1, <1>2, <1>3 DEF PackHead, ChannelPackHead

\* The place holder is a pack head too.
LEMMA PlaceHoldType == PlaceHoldHead \in ChannelPackHead
  BY DEF PlaceHoldHead, ChannelPackHead

\* memcpy keeps the ring a ring of bytes.
LEMMA CopyHeadType ==
  ASSUME TypeOK, NEW pos \in Offset, NEW h \in ChannelPackHead
  PROVE  CopyHead(pos, h) \in [Offset -> Content \X Nat]
<1> SUFFICES ASSUME NEW x \in Offset
             PROVE  (IF pos <= x /\ x < pos + PackHeadSize
                     THEN <<h, x - pos>> ELSE buf[x]) \in Content \X Nat
  BY DEF CopyHead
<1>1. h \in Content
  BY DEF Content
<1>2. pos <= x => x - pos \in Nat
  BY SizeAssumption DEF Offset
<1>3. buf[x] \in Content \X Nat
  BY DEF TypeOK
<1> QED BY <1>1, <1>2, <1>3

\* So does copying a body.
LEMMA CopyBodyType ==
  ASSUME TypeOK, NEW pos \in Offset, NEW m \in Msg
  PROVE  CopyBody(pos, m) \in [Offset -> Content \X Nat]
<1> DEFINE start == pos + PackHeadSize
<1> SUFFICES ASSUME NEW x \in Offset
             PROVE  (IF start <= x /\ x < start + MsgLen[m]
                     THEN BodyByte(m, x - start) ELSE buf[x])
                      \in Content \X Nat
  BY DEF CopyBody
<1>1. [cmd |-> "body", msg |-> m] \in Content
  BY DEF Content
<1>2. start <= x => x - start \in Nat
  BY SizeAssumption DEF Offset
<1>3. buf[x] \in Content \X Nat
  BY DEF TypeOK
<1> QED BY <1>1, <1>2, <1>3 DEF BodyByte

\* Whatever GetNextPack reads as a pack head has the fields of one.
LEMMA HeadAtType ==
  ASSUME TypeOK, NEW pos \in Offset, NEW h \in HeadAt(pos)
  PROVE  h \in ChannelPackHead
<1>1. CASE IsHead(pos)
  <2>1. h = buf[pos][1] /\ buf[pos][1].cmd \in {"transfer", "placeholder"}
    BY <1>1 DEF HeadAt, IsHead
  <2>2. h \in Content
    BY <2>1 DEF TypeOK
  <2> QED BY <2>1, <2>2 DEF Content, ChannelPackHead
<1>2. CASE ~IsHead(pos)
  <2>1. h \in GarbageHead
    BY <1>2 DEF HeadAt
  <2> QED BY <2>1, SizeAssumption DEF GarbageHead, ChannelPackHead
<1> QED BY <1>1, <1>2

\* A fresh queue is well typed.
LEMMA TypeInit == Init => TypeOK
<1> SUFFICES ASSUME Init PROVE TypeOK
  OBVIOUS
<1>1. 0 \in Offset /\ 0 \in 0 .. SeqMod - 1
  BY SizeAssumption DEF Offset
<1>2. RawByte \in Content \X Nat
  BY DEF RawByte, Content
<1> QED BY <1>1, <1>2, PlaceHoldType DEF Init, TypeOK

\* Send returning, and Recv, Peek or Drop returning, leaves proper locals.
LEMMA SendReturnType ==
  ASSUME NEW code \in {"none", "kOk", "kUnexpect", "kChanFull"},
         SendReturn(code)
  PROVE  /\ spc' = "idle" /\ spos' \in Offset
         /\ sret' \in {"none", "kOk", "kUnexpect", "kChanFull"}
  BY SizeAssumption DEF SendReturn, Offset

\* Likewise for the receiver.
LEMMA RecvReturnType ==
  ASSUME NEW code \in {"none", "kOk", "kChanEmpty", "kChanRecvSpaceLimit",
                      "kChanPackInvalid", "kUnexpect"},
         RecvReturn(code)
  PROVE  /\ rpc' = "idle" /\ rret' = code /\ rop' = "none" /\ rspace' \in Nat
         /\ rtail' \in Offset /\ rhead' \in Offset
         /\ rpack' \in ChannelPackHead
  BY SizeAssumption, PlaceHoldType DEF RecvReturn, Offset

\* Every step of either side keeps the state well typed.
LEMMA TypeStep == TypeOK /\ [Next]_vars => TypeOK'
<1> SUFFICES ASSUME TypeOK, [Next]_vars PROVE TypeOK'
  OBVIOUS
<1> USE DEF shared, history, svars, rvars
<1>1. ASSUME NEW m \in Msg, SendCall(m) PROVE TypeOK'
  <2>1. CASE SendOverflow(m)
    BY <2>1, SendReturnType DEF SendOverflow, TypeOK
  <2>2. CASE SendFull(m)
    BY <2>2, SendReturnType DEF SendFull, TypeOK
  <2>3. CASE SendFits(m)
    BY <2>3 DEF SendFits, TypeOK
  <2> QED BY <1>1, <2>1, <2>2, <2>3 DEF SendCall
<1>2. CASE SendInPlace
  BY <1>2 DEF SendInPlace, TypeOK
<1>3. CASE SendWrapFull
  BY <1>3, SendReturnType DEF SendWrapFull, TypeOK
<1>4. CASE SendWrap
  BY <1>4, SizeAssumption DEF SendWrap, TypeOK, Offset
<1>5. CASE SendHold
  BY <1>5, CopyHeadType, PlaceHoldType DEF SendHold, TypeOK
<1>6. CASE SendHead
  <2>1. smsg \in Msg /\ seq \in 0 .. SeqMod - 1 /\ spos \in Offset
    BY DEF TypeOK
  <2>2. PackHead(smsg, seq) \in ChannelPackHead
    BY <2>1, PackHeadType
  <2>3. buf' \in [Offset -> Content \X Nat]
    BY <1>6, <2>1, <2>2, CopyHeadType DEF SendHead
  <2> QED BY <1>6, <2>3 DEF SendHead, TypeOK
<1>7. CASE SendBody
  <2>1. buf' \in [Offset -> Content \X Nat]
    BY <1>7, CopyBodyType DEF SendBody, TypeOK
  <2> QED BY <1>7, <2>1 DEF SendBody, TypeOK
<1>19. CASE SendBodyDies
  <2>1. buf' \in [Offset -> Content \X Nat]
    BY <1>19, CopyBodyType DEF SendBodyDies, TypeOK
  <2> QED BY <1>19, <2>1, SendReturnType DEF SendBodyDies, TypeOK
<1>8. CASE SendPublish
  <2>1. tail' \in Offset
    <3>1. spos + AlignPackSize(smsg) \in Int /\ Capacity \in Nat \ {0}
      BY AlignSize, SizeAssumption DEF TypeOK, Offset
    <3> QED BY <1>8, <3>1, ModRange DEF SendPublish, Offset
  <2>2. q' \in Seq([at : Offset, off : Offset, msg : Msg, seq : 0 .. SeqMod - 1])
    <3> DEFINE S == [at : Offset, off : Offset, msg : Msg, seq : 0 .. SeqMod - 1]
               p == [at |-> tail, off |-> spos, msg |-> smsg, seq |-> seq]
    <3>1. p \in S /\ q \in Seq(S)
      BY DEF TypeOK
    <3>2. q' = q \/ q' = Append(q, p)
      BY <1>8 DEF SendPublish
    <3> HIDE DEF S, p
    <3>3. q' \in Seq(S)
      BY <3>1, <3>2
    <3> QED BY <3>3 DEF S
  <2> QED BY <1>8, <2>1, <2>2 DEF SendPublish, TypeOK
<1>9. CASE SendSeq
  <2>1. seq' \in 0 .. SeqMod - 1
    <3>1. seq + 1 \in Int /\ SeqMod \in Nat \ {0}
      BY SizeAssumption DEF TypeOK
    <3> QED BY <1>9, <3>1, ModRange DEF SendSeq
  <2> QED BY <1>9, <2>1, SendReturnType DEF SendSeq, TypeOK
<1>10. CASE RecvEmpty
  BY <1>10, RecvReturnType DEF RecvEmpty, TypeOK
<1>11. ASSUME NEW op \in {"Recv", "Peek", "Drop"}, NEW space \in Nat,
              RecvCall(op, space)
       PROVE  TypeOK'
  BY <1>11 DEF RecvCall, TypeOK
<1>12. CASE RecvScan
  <2>1. PICK skip \in Skips :
          LET cur == IF skip THEN 0 ELSE head IN
          \E pack \in HeadAt(cur) :
            LET code == NextPackCode(skip, cur, pack) IN
            \/ ScanFails(code, pack) /\ UNCHANGED peek
            \/ ScanPeeks(code, cur, pack)
            \/ ScanTakes(code, cur, pack) /\ UNCHANGED peek
    BY <1>12 DEF RecvScan
  <2> DEFINE cur == IF skip THEN 0 ELSE head
  <2>2. PICK pack \in HeadAt(cur) :
          LET code == NextPackCode(skip, cur, pack) IN
          \/ ScanFails(code, pack) /\ UNCHANGED peek
          \/ ScanPeeks(code, cur, pack)
          \/ ScanTakes(code, cur, pack) /\ UNCHANGED peek
    BY <2>1
  <2> DEFINE code == NextPackCode(skip, cur, pack)
  <2>3. cur \in Offset
    BY SizeAssumption DEF TypeOK, Offset
  <2>4. pack \in ChannelPackHead
    BY <2>3, HeadAtType
  <2>5. code \in {"kOk", "kChanPackInvalid", "kUnexpect"}
    BY DEF NextPackCode
  <2>6. UNCHANGED <<out, shared, history, svars>>
    BY <1>12 DEF RecvScan
  <2> HIDE DEF cur, code
  <2>7. CASE ScanFails(code, pack)
    BY <2>5, <2>6, <2>7, RecvReturnType DEF ScanFails, TypeOK
  <2>8. CASE ScanPeeks(code, cur, pack)
    BY <2>6, <2>8, RecvReturnType DEF ScanPeeks, TypeOK
  <2>9. CASE ScanTakes(code, cur, pack)
    BY <2>3, <2>4, <2>6, <2>9 DEF ScanTakes, TypeOK
  <2> QED BY <2>2, <2>7, <2>8, <2>9 DEF cur, code
<1>13. CASE RecvCopy
  BY <1>13 DEF RecvCopy, TypeOK
<1>14. CASE RecvAdvance
  <2>1. head' \in Offset
    <3>1. /\ rhead + PackHeadSize + rpack.align_body_len \in Int
          /\ Capacity \in Nat \ {0}
      BY SizeAssumption DEF TypeOK, Offset, ChannelPackHead
    <3> QED BY <1>14, <3>1, ModRange DEF RecvAdvance, Offset
  <2>2. q' \in Seq([at : Offset, off : Offset, msg : Msg, seq : 0 .. SeqMod - 1])
    BY <1>14 DEF RecvAdvance, TypeOK
  <2> QED BY <1>14, <2>1, <2>2, RecvReturnType DEF RecvAdvance, TypeOK
<1>15. CASE CrashSender
  BY <1>15, SendReturnType DEF CrashSender, TypeOK
<1>16. CASE CrashReceiver
  BY <1>16, RecvReturnType DEF CrashReceiver, TypeOK
<1>17. CASE Reset
  BY <1>17, SizeAssumption DEF Reset, TypeOK, Offset
<1>18. CASE UNCHANGED vars
  BY <1>18 DEF vars, TypeOK
<1> QED
  <2>1. \A space \in RecvSpaces : space \in Nat
    BY MsgAssumption
  <2> QED
    BY <2>1, <1>1, <1>2, <1>3, <1>4, <1>5, <1>6, <1>7, <1>8, <1>9, <1>10,
       <1>11, <1>12, <1>13, <1>14, <1>15, <1>16, <1>17, <1>18, <1>19
    DEF Next, SendStep, RecvStep

\* Type correctness of the queue, for every size and every set of messages:
\* whatever bytes GetNextPack meets, header_->head, header_->tail and the
\* positions Send and Recv compute from them stay inside the ring.
THEOREM TypeCorrect == Spec => []TypeOK
  BY TypeInit, TypeStep, PTL DEF Spec

-----------------------------------------------------------------------------
(* Facts about packs and positions *)

\* With lengths that fit their fields, a pack head says how long its pack is.
LEMMA HeadFields ==
  ASSUME NEW m \in Msg, Proper(m), NEW s
  PROVE  /\ PackHead(m, s).cmd = "transfer"
         /\ PackHead(m, s).body_len = MsgLen[m]
         /\ PackHeadSize + PackHead(m, s).align_body_len = AlignPackSize(m)
<1> DEFINE a == AlignPackSize(m) - PackHeadSize
<1>1. a \in Nat /\ a < Half /\ MsgLen[m] \in Nat /\ MsgLen[m] <= a
  BY AlignSize, SizeAssumption, MsgAssumption DEF Proper, SizesKept
<1>2. a % Half = a /\ MsgLen[m] % Half = MsgLen[m]
  <2> HIDE DEF a
  <2> QED BY <1>1, SizeAssumption
<1>3. AlignPackSize(m) \in Nat
  BY AlignSize
<1> QED BY <1>2, <1>3, SizeAssumption DEF PackHead

\* The types of a pack in the ring, and where it ends.
LEMMA PackFacts ==
  ASSUME TypeOK, PacksInv, NEW i \in 1 .. Len(q)
  PROVE  /\ q[i].at \in Offset /\ q[i].off \in Offset
         /\ q[i].msg \in Msg /\ q[i].seq \in 0 .. SeqMod - 1
         /\ Proper(q[i].msg)
         /\ AlignPackSize(q[i].msg) \in Nat
         /\ AlignPackSize(q[i].msg) >= PackHeadSize + MsgLen[q[i].msg]
         /\ q[i].off + AlignPackSize(q[i].msg) <= Capacity
         /\ PackEnd(q[i]) \in Offset
<1>1. q[i] \in [at : Offset, off : Offset, msg : Msg, seq : 0 .. SeqMod - 1]
  <2>1. q \in Seq([at : Offset, off : Offset, msg : Msg, seq : 0 .. SeqMod - 1])
    BY DEF TypeOK
  <2> QED BY <2>1, ElementOfSeq
<1>2. Proper(q[i].msg) /\ q[i].off + AlignPackSize(q[i].msg) <= Capacity
  BY DEF PacksInv, PackOK
<1>3. /\ AlignPackSize(q[i].msg) \in Nat
      /\ AlignPackSize(q[i].msg) >= PackHeadSize + MsgLen[q[i].msg]
  BY <1>1, <1>2, AlignSize
<1>4. PackEnd(q[i]) \in Offset
  <2> DEFINE e == q[i].off + AlignPackSize(q[i].msg)
  <2>1. e \in Nat /\ e <= Capacity
    BY <1>1, <1>2, <1>3 DEF Offset
  <2>2. PackEnd(q[i]) = IF e = Capacity THEN 0 ELSE e
    BY DEF PackEnd
  <2> HIDE DEF e
  <2> QED BY <2>1, <2>2, SizeAssumption DEF Offset
<1> QED BY <1>1, <1>2, <1>3, <1>4

\* The k-th byte of a pack that lies in one piece in the ring.
LEMMA ByteOfPack ==
  ASSUME NEW off \in Offset, NEW a \in Nat, off + a <= Capacity,
         NEW k \in Nat, k < a
  PROVE  off + k \in Offset /\ off <= off + k /\ off + k < off + a
  BY SizeAssumption DEF Offset

\* A byte in use lies before tail in reading order.
InUse(x) == Key(x) < Key(tail)

\* The bytes of every pack, and those the receiver skips before a pack that
\* was wrapped, are in use.
LEMMA PackBytesInUse ==
  ASSUME TypeOK, PacksInv, OrderInv, NEW i \in 1 .. Len(q), NEW x \in Offset,
         \/ q[i].off <= x /\ x < q[i].off + AlignPackSize(q[i].msg)
         \/ q[i].off # q[i].at /\ q[i].at <= x
  PROVE  InUse(x)
<1> DEFINE at == q[i].at  off == q[i].off  a == AlignPackSize(q[i].msg)
           end == PackEnd(q[i])
<1>1. /\ at \in Offset /\ off \in Offset /\ a \in Nat /\ off + a <= Capacity
      /\ end \in Offset
  BY PackFacts
<1>2. Key(at) < Key(end) /\ Key(end) <= Key(tail)
  BY DEF OrderInv
<1>3. off = at \/ (off = 0 /\ head <= at /\ a < head)
  BY DEF PacksInv, PackOK
<1>4. end = IF off + a = Capacity THEN 0 ELSE off + a
  BY DEF PackEnd
<1>5. head \in Offset /\ tail \in Offset
  BY DEF TypeOK
<1>6. (off <= x /\ x < off + a) \/ (off # at /\ at <= x)
  OBVIOUS
<1> HIDE DEF at, off, a, end
<1>7. CASE off # at
  <2>1. off = 0 /\ head <= at /\ a < head /\ end = a
    BY <1>1, <1>3, <1>4, <1>5, <1>7, SizeAssumption DEF Offset
  <2>2. Key(end) = a + Capacity
    BY <1>1, <1>5, <2>1 DEF Key, Offset
  <2>3. x < a \/ head <= x
    BY <1>1, <1>5, <1>6, <1>7, <2>1 DEF Offset
  <2>4. Key(x) < a + Capacity
    BY <1>1, <1>5, <2>1, <2>3, SizeAssumption DEF Key, Offset
  <2>5. Key(tail) \in Int /\ Key(x) \in Int
    BY <1>5, SizeAssumption DEF Key, Offset
  <2> QED BY <1>1, <1>2, <2>2, <2>4, <2>5, SizeAssumption DEF InUse
<1>8. CASE off = at
  <2>1. at <= x /\ x < at + a
    BY <1>6, <1>8
  <2>2. Key(x) < Key(end)
    <3>1. CASE at >= head
      BY <1>1, <1>2, <1>4, <1>5, <1>8, <2>1, <3>1, SizeAssumption DEF Key, Offset
    <3>2. CASE at < head
      BY <1>1, <1>2, <1>4, <1>5, <1>8, <2>1, <3>2, SizeAssumption DEF Key, Offset
    <3> QED BY <1>1, <1>5, <3>1, <3>2 DEF Offset
  <2>3. Key(tail) \in Int /\ Key(x) \in Int /\ Key(end) \in Int
    BY <1>1, <1>5, SizeAssumption DEF Key, Offset
  <2> QED BY <1>2, <2>2, <2>3 DEF InUse
<1> QED BY <1>7, <1>8

-----------------------------------------------------------------------------
(* Frames: what a step that leaves some variables alone cannot disturb *)

\* A step that leaves the ring alone keeps the packs where they are.
LEMMA RingFrame ==
  ASSUME PacksInv, ChainInv, OrderInv, UNCHANGED <<head, tail, buf, q>>
  PROVE  PacksInv' /\ ChainInv' /\ OrderInv'
<1>1. PacksInv'
  BY DEF PacksInv, PackOK, HasHead, HasBody, Skipped
<1>2. ChainInv'
  BY DEF ChainInv, PackEnd
<1>3. OrderInv'
  BY DEF OrderInv, PackEnd, Key
<1> QED BY <1>1, <1>2, <1>3

\* A step of the receiver that moves no position keeps what Send knows.
LEMMA SendFrame ==
  ASSUME SendInv, UNCHANGED <<head, tail, seq, buf, spc, smsg, spos>>
  PROVE  SendInv'
  BY DEF SendInv, HasHead, HasBody, Skipped

\* A step of the sender that publishes nothing keeps what the receiver knows.
LEMMA RecvFrame ==
  ASSUME RecvInv,
         UNCHANGED <<head, tail, q, rpc, rop, rtail, rhead, rpack, rdata, peek>>
  PROVE  RecvInv'
  BY DEF RecvInv, PackEnd, Key

\* A write of Send that spares the bytes in use leaves every pack whole.
LEMMA WriteFrame ==
  ASSUME TypeOK, PacksInv, ChainInv, OrderInv, UNCHANGED <<head, tail, q>>,
         \A x \in Offset : InUse(x) => buf'[x] = buf[x]
  PROVE  PacksInv' /\ ChainInv' /\ OrderInv'
<1>1. ChainInv'
  BY DEF ChainInv, PackEnd
<1>2. OrderInv'
  BY DEF OrderInv, PackEnd, Key
<1>3. ASSUME NEW i \in 1 .. Len(q) PROVE PackOK(q[i])'
  <2> DEFINE p == q[i]  a == AlignPackSize(p.msg)
  <2>1. /\ p.at \in Offset /\ p.off \in Offset /\ p.msg \in Msg
        /\ a \in Nat /\ a >= PackHeadSize + MsgLen[p.msg]
        /\ p.off + a <= Capacity /\ Proper(p.msg)
    BY PackFacts
  <2>2. MsgLen[p.msg] \in Nat
    BY <2>1, MsgAssumption
  <2>3. ASSUME NEW x \in Offset, p.off <= x, x < p.off + a PROVE buf'[x] = buf[x]
    BY <2>3, PackBytesInUse
  <2>4. ASSUME NEW x \in Offset, p.off # p.at, p.at <= x PROVE buf'[x] = buf[x]
    BY <2>4, PackBytesInUse
  <2>5. HasHead(p.off, PackHead(p.msg, p.seq))'
    <3>1. HasHead(p.off, PackHead(p.msg, p.seq))
      BY DEF PacksInv, PackOK
    <3>2. ASSUME NEW k \in 0 .. PackHeadSize - 1
          PROVE  buf'[p.off + k] = buf[p.off + k]
      <4>1. k \in Nat /\ k < a
        BY <2>1, <2>2, SizeAssumption
      <4> HIDE DEF p, a
      <4> QED BY <2>1, <2>3, <4>1, ByteOfPack
    <3> QED BY <3>1, <3>2 DEF HasHead
  <2>6. HasBody(p.off, p.msg)'
    <3>1. HasBody(p.off, p.msg)
      BY DEF PacksInv, PackOK
    <3>2. ASSUME NEW k \in 0 .. MsgLen[p.msg] - 1
          PROVE  buf'[p.off + PackHeadSize + k] = buf[p.off + PackHeadSize + k]
      <4> DEFINE j == PackHeadSize + k
      <4>1. j \in Nat /\ j < a
        BY <2>1, <2>2, SizeAssumption
      <4>2. p.off + PackHeadSize + k = p.off + j
        BY <2>1, SizeAssumption DEF Offset
      <4>3. buf'[p.off + j] = buf[p.off + j]
        <5> HIDE DEF p, a, j
        <5> QED BY <2>1, <2>3, <4>1, ByteOfPack
      <4> QED BY <4>2, <4>3
    <3> QED BY <3>1, <3>2 DEF HasBody
  <2>7. p.off # p.at /\ Skipped(p.at) => Skipped(p.at)'
    <3> DEFINE at == p.at
    <3>1. at \in Offset /\ at' = at
      BY <2>1
    <3> SUFFICES ASSUME p.off # p.at, Skipped(at)
                 PROVE  Capacity - at < PackHeadSize
                        \/ HasHead(at, PlaceHoldHead)'
      BY <3>1 DEF Skipped
    <3>2. ASSUME at + PackHeadSize <= Capacity, NEW k \in 0 .. PackHeadSize - 1
          PROVE  buf'[at + k] = buf[at + k]
      <4>1. at + k \in Offset /\ at <= at + k
        <5> HIDE DEF at
        <5> QED BY <3>1, <3>2, SizeAssumption DEF Offset
      <4> QED BY <2>4, <4>1
    <3>3. CASE Capacity - at < PackHeadSize
      BY <3>3
    <3>4. CASE ~(Capacity - at < PackHeadSize)
      <4>1. at + PackHeadSize <= Capacity
        <5> HIDE DEF at
        <5> QED BY <3>1, <3>4, SizeAssumption DEF Offset
      <4>2. HasHead(at, PlaceHoldHead)
        BY <3>4 DEF Skipped
      <4> HIDE DEF at
      <4> QED BY <3>1, <3>2, <4>1, <4>2 DEF HasHead
    <3> QED BY <3>3, <3>4
  <2>8. \/ p.off = p.at
        \/ /\ p.off # p.at /\ p.off = 0 /\ head <= p.at /\ a < head
           /\ Skipped(p.at)
    BY DEF PacksInv, PackOK
  <2> HIDE DEF p, a
  <2> QED BY <2>1, <2>5, <2>6, <2>7, <2>8 DEF PackOK, p, a
<1>4. PacksInv'
  BY <1>3 DEF PacksInv
<1> QED BY <1>1, <1>2, <1>4

-----------------------------------------------------------------------------
(* Send preserves the invariant *)

\* The bytes Send is about to write are free.
LEMMA SendRegionFree ==
  ASSUME TypeOK, SendInv, spc \in {"head", "body"}, NEW x \in Offset,
         spos <= x, x < spos + AlignPackSize(smsg)
  PROVE  ~InUse(x)
<1> DEFINE a == AlignPackSize(smsg)
<1>1. a \in Nat
  BY AlignSize DEF TypeOK
<1>2. head \in Offset /\ tail \in Offset /\ spos \in Offset
  BY DEF TypeOK
<1>3. \/ /\ spos = tail /\ tail + a <= Capacity
         /\ head > tail => tail + a < head
      \/ spos = 0 /\ head <= tail /\ a < head
  BY DEF SendInv
<1> HIDE DEF a
<1> QED BY <1>1, <1>2, <1>3, SizeAssumption DEF InUse, Key, Offset, a

\* A return of Send: it owns no bytes any more.
LEMMA SendIdle ==
  ASSUME QueueInv, spc' = "idle", UNCHANGED <<shared, q, rvars>>
  PROVE  QueueInv'
<1> USE DEF shared, rvars
<1>1. PacksInv' /\ ChainInv' /\ OrderInv'
  BY RingFrame DEF QueueInv
<1>2. RecvInv'
  BY RecvFrame DEF QueueInv
<1>3. SendInv'
  BY DEF SendInv
<1>4. NoFatalError'
  BY DEF QueueInv, NoFatalError
<1> QED BY <1>1, <1>2, <1>3, <1>4 DEF QueueInv

\* A step of Send that only moves on in its code.
LEMMA SendMoves ==
  ASSUME QueueInv, UNCHANGED <<shared, q, rvars>>, SendInv'
  PROVE  QueueInv'
<1> USE DEF shared, rvars
<1>1. PacksInv' /\ ChainInv' /\ OrderInv'
  BY RingFrame DEF QueueInv
<1>2. RecvInv'
  BY RecvFrame DEF QueueInv
<1>3. NoFatalError'
  BY DEF QueueInv, NoFatalError
<1> QED BY <1>1, <1>2, <1>3 DEF QueueInv

\* A step of Send that writes free bytes.
LEMMA SendWrites ==
  ASSUME TypeOK, QueueInv, UNCHANGED <<head, tail, q, rvars>>,
         \A x \in Offset : InUse(x) => buf'[x] = buf[x],
         SendInv'
  PROVE  QueueInv'
<1> USE DEF rvars
<1>1. PacksInv' /\ ChainInv' /\ OrderInv'
  BY WriteFrame DEF QueueInv
<1>2. RecvInv'
  BY RecvFrame DEF QueueInv
<1>3. NoFatalError'
  BY DEF QueueInv, NoFatalError
<1> QED BY <1>1, <1>2, <1>3 DEF QueueInv

\* free_size >= align_pack_size, in terms of positions.
LEMMA FreeSizeMeans ==
  ASSUME TypeOK, NEW a \in Nat, FreeSize >= a
  PROVE  IF head > tail THEN tail + a < head ELSE a <= Capacity - tail - 1 + head
<1> DEFINE v == Capacity - tail - 1 + head
<1>1. head \in Offset /\ tail \in Offset
  BY DEF TypeOK
<1>2. v \in Nat /\ v < 2 * Capacity /\ v < Word
  BY <1>1, SizeAssumption DEF Offset
<1>3. v % Word = v
  <2> HIDE DEF v
  <2> QED BY <1>2, SizeAssumption
<1>4. v % Capacity = IF v < Capacity THEN v ELSE v - Capacity
  <2> HIDE DEF v
  <2> QED BY <1>2, SizeAssumption
<1> QED BY <1>1, <1>2, <1>3, <1>4, SizeAssumption DEF FreeSize, Offset

\* Send begins: the sizes and the first look at header_->head.
LEMMA SendCallStep ==
  ASSUME TypeOK, QueueInv, NEW m \in Msg, SendCall(m), ~cut'
  PROVE  QueueInv'
<1>1. CASE SendOverflow(m)
  BY <1>1, SendIdle DEF SendOverflow, SendReturn, history
<1>2. CASE SendFull(m)
  BY <1>2, SendIdle DEF SendFull, SendReturn, history
<1>3. CASE SendFits(m)
  <2>1. AlignPackSize(m) \in Nat /\ FreeSize >= AlignPackSize(m) /\ Proper(m)
    BY <1>3, AlignSize DEF SendFits, Proper
  <2>2. IF head > tail THEN tail + AlignPackSize(m) < head
        ELSE AlignPackSize(m) <= Capacity - tail - 1 + head
    BY <2>1, FreeSizeMeans
  <2>3. SendInv'
    BY <1>3, <2>1, <2>2 DEF SendFits, SendInv, shared
  <2> QED BY <1>3, <2>3, SendMoves DEF SendFits
<1> QED BY <1>1, <1>2, <1>3 DEF SendCall

\* Send chooses the place of the pack, header_->head read once more.
LEMMA SendPlaceStep ==
  ASSUME TypeOK, QueueInv, SendInPlace \/ SendWrapFull \/ SendWrap
  PROVE  QueueInv'
<1> DEFINE a == AlignPackSize(smsg)
<1>1. a \in Nat /\ head \in Offset /\ tail \in Offset
  BY AlignSize DEF TypeOK
<1>2. spc = "place"
  BY DEF SendInPlace, SendWrapFull, SendWrap
<1>3. /\ Proper(smsg)
      /\ IF head > tail THEN tail + a < head ELSE a <= Capacity - tail - 1 + head
  BY <1>2 DEF QueueInv, SendInv
<1>4. NeedsWrap <=> tail >= head /\ Capacity - tail < a
  BY DEF NeedsWrap
<1>5. CASE SendWrapFull
  BY <1>5, SendIdle DEF SendWrapFull, SendReturn, history
<1>6. CASE SendInPlace
  <2>1. /\ tail + a <= Capacity
        /\ head > tail => tail + a < head
        /\ tail + a = Capacity => 0 < head
    <3>1. ~NeedsWrap
      BY <1>6 DEF SendInPlace
    <3> HIDE DEF a
    <3> QED BY <1>1, <1>3, <1>4, <3>1, SizeAssumption DEF Offset
  <2>2. SendInv'
    BY <1>3, <1>6, <2>1 DEF SendInPlace, SendInv, shared
  <2> QED BY <1>6, <2>2, SendMoves DEF SendInPlace, history
<1>7. CASE SendWrap
  <2>1. NeedsWrap /\ head > a
    BY <1>7 DEF SendWrap
  <2>2. head <= tail /\ a < head
    BY <1>1, <1>4, <2>1, SizeAssumption DEF Offset
  <2>3. CASE Capacity - tail < PackHeadSize
    <3>1. Skipped(tail)'
      BY <1>7, <2>3 DEF SendWrap, Skipped, shared
    <3>2. SendInv'
      BY <1>3, <1>7, <2>2, <2>3, <3>1 DEF SendWrap, SendInv, shared
    <3> QED BY <1>7, <3>2, SendMoves DEF SendWrap, history
  <2>4. CASE ~(Capacity - tail < PackHeadSize)
    <3>1. tail + PackHeadSize <= Capacity
      BY <1>1, <2>4, SizeAssumption DEF Offset
    <3>2. SendInv'
      BY <1>3, <1>7, <2>2, <2>4, <3>1 DEF SendWrap, SendInv, shared
    <3> QED BY <1>7, <3>2, SendMoves DEF SendWrap, history
  <2> QED BY <2>3, <2>4
<1> QED BY <1>5, <1>6, <1>7

\* What memcpy has written can be read back.
LEMMA CopiedHead ==
  ASSUME NEW pos \in Offset, pos + PackHeadSize <= Capacity, NEW h,
         NEW k \in 0 .. PackHeadSize - 1
  PROVE  CopyHead(pos, h)[pos + k] = <<h, k>>
<1> DEFINE x == pos + k
<1>1. x \in Offset /\ pos <= x /\ x < pos + PackHeadSize /\ x - pos = k
  BY SizeAssumption DEF Offset
<1> HIDE DEF x
<1>2. CopyHead(pos, h)[x] = <<h, x - pos>>
  BY <1>1 DEF CopyHead
<1>3. CopyHead(pos, h)[x] = <<h, k>>
  BY <1>1, <1>2
<1> QED BY <1>3 DEF x

\* A body copied to the ring is there.
LEMMA CopiedBody ==
  ASSUME NEW pos \in Offset, NEW m \in Msg,
         pos + PackHeadSize + MsgLen[m] <= Capacity,
         NEW k \in 0 .. MsgLen[m] - 1
  PROVE  CopyBody(pos, m)[pos + PackHeadSize + k] = BodyByte(m, k)
<1> DEFINE start == pos + PackHeadSize  x == start + k
<1>1. /\ x \in Offset /\ start <= x /\ x < start + MsgLen[m]
      /\ x - start = k
  BY SizeAssumption, MsgAssumption DEF Offset
<1>2. CopyBody(pos, m) =
        [y \in Offset |-> IF start <= y /\ y < start + MsgLen[m]
                          THEN BodyByte(m, y - start) ELSE buf[y]]
  BY DEF CopyBody
<1> HIDE DEF x, start
<1>3. CopyBody(pos, m)[x] = BodyByte(m, x - start)
  BY <1>1, <1>2
<1>4. CopyBody(pos, m)[x] = BodyByte(m, k)
  BY <1>1, <1>3
<1> QED BY <1>4 DEF x, start

\* The place holder goes to the free bytes behind tail.
LEMMA SendHoldStep ==
  ASSUME TypeOK, QueueInv, SendHold
  PROVE  QueueInv'
<1>1. /\ head \in Offset /\ tail \in Offset
      /\ buf' = CopyHead(tail, PlaceHoldHead)
  BY DEF TypeOK, SendHold
<1>2. /\ spos = 0 /\ head <= tail /\ AlignPackSize(smsg) < head
      /\ tail + PackHeadSize <= Capacity /\ Proper(smsg)
  BY DEF SendHold, QueueInv, SendInv
<1>3. ASSUME NEW x \in Offset, InUse(x) PROVE buf'[x] = buf[x]
  <2>1. ~(tail <= x)
    BY <1>1, <1>2, <1>3, SizeAssumption DEF InUse, Key, Offset
  <2> QED BY <1>1, <2>1 DEF CopyHead
<1>4. HasHead(tail, PlaceHoldHead)'
  <2> SUFFICES ASSUME NEW k \in 0 .. PackHeadSize - 1
               PROVE  buf'[tail + k] = <<PlaceHoldHead, k>>
    BY DEF SendHold, HasHead
  <2> QED BY <1>1, <1>2, CopiedHead
<1>5. SendInv'
  BY <1>2, <1>4 DEF SendHold, SendInv, Skipped
<1> QED BY <1>3, <1>5, SendWrites DEF SendHold, history

\* What SendInv says of the place chosen for a pack.
LEMMA PlaceFacts ==
  ASSUME TypeOK, SendInv, spc \in {"head", "body", "publish"}
  PROVE  /\ smsg \in Msg /\ spos \in Offset /\ head \in Offset /\ tail \in Offset
         /\ AlignPackSize(smsg) \in Nat /\ MsgLen[smsg] \in Nat
         /\ AlignPackSize(smsg) >= PackHeadSize + MsgLen[smsg]
         /\ spos + AlignPackSize(smsg) <= Capacity
<1>1. /\ smsg \in Msg /\ spos \in Offset /\ head \in Offset /\ tail \in Offset
  BY DEF TypeOK
<1>2. Proper(smsg)
  BY DEF SendInv
<1>3. /\ AlignPackSize(smsg) \in Nat /\ MsgLen[smsg] \in Nat
      /\ AlignPackSize(smsg) >= PackHeadSize + MsgLen[smsg]
  BY <1>1, <1>2, AlignSize, MsgAssumption
<1>4. \/ tail + AlignPackSize(smsg) <= Capacity /\ spos = tail
      \/ spos = 0 /\ AlignPackSize(smsg) < head
  BY DEF SendInv
<1> QED BY <1>1, <1>3, <1>4, SizeAssumption DEF Offset

\* memcpy of the pack head.
LEMMA SendHeadStep ==
  ASSUME TypeOK, QueueInv, SendHead
  PROVE  QueueInv'
<1> DEFINE a == AlignPackSize(smsg)  h == PackHead(smsg, seq)
<1>1. spc = "head" /\ spc' = "body" /\ buf' = CopyHead(spos, h)
  BY DEF SendHead
<1>2. /\ spos \in Offset /\ head \in Offset /\ tail \in Offset /\ a \in Nat
      /\ MsgLen[smsg] \in Nat /\ a >= PackHeadSize + MsgLen[smsg]
      /\ spos + a <= Capacity
  BY <1>1, PlaceFacts DEF QueueInv
<1>3. ASSUME NEW x \in Offset, InUse(x) PROVE buf'[x] = buf[x]
  <2>1. ~(spos <= x /\ x < spos + a)
    BY <1>1, <1>3, SendRegionFree DEF QueueInv
  <2>2. ~(spos <= x /\ x < spos + PackHeadSize)
    BY <1>2, <2>1, SizeAssumption DEF Offset
  <2> QED BY <1>1, <2>2 DEF CopyHead
<1>4. HasHead(spos, h)'
  <2> SUFFICES ASSUME NEW k \in 0 .. PackHeadSize - 1
               PROVE  buf'[spos + k] = <<h, k>>
    BY DEF SendHead, HasHead, PackHead
  <2>1. spos + PackHeadSize <= Capacity
    BY <1>2, SizeAssumption DEF Offset
  <2> HIDE DEF h
  <2> QED BY <1>1, <1>2, <2>1, CopiedHead
<1>5. spos # tail /\ Skipped(tail) => Skipped(tail)'
  <2> SUFFICES ASSUME spos # tail, HasHead(tail, PlaceHoldHead),
                      tail + PackHeadSize <= Capacity
               PROVE  HasHead(tail, PlaceHoldHead)'
    BY <1>2, SizeAssumption DEF SendHead, Skipped, Offset
  <2>1. spos = 0 /\ head <= tail /\ a < head
    BY <1>1 DEF QueueInv, SendInv
  <2>2. ASSUME NEW k \in 0 .. PackHeadSize - 1 PROVE buf'[tail + k] = buf[tail + k]
    <3>1. tail + k \in Offset /\ ~(tail + k < spos + PackHeadSize)
      BY <1>2, <2>1, SizeAssumption DEF Offset
    <3> QED BY <1>1, <3>1 DEF CopyHead
  <2> QED BY <2>2 DEF HasHead, SendHead
<1>6. SendInv'
  <2>1. /\ Proper(smsg)
        /\ \/ /\ spos = tail /\ tail + a <= Capacity
              /\ head > tail => tail + a < head
              /\ tail + a = Capacity => 0 < head
           \/ /\ spos = 0 /\ head <= tail /\ a < head
              /\ Skipped(tail)
    BY <1>1 DEF QueueInv, SendInv
  <2>2. a < head /\ head <= tail => spos # tail \/ spos # 0
    BY <1>2, SizeAssumption DEF Offset
  <2>3. HasHead(spos, PackHead(smsg, seq))'
    BY <1>4
  <2> HIDE DEF h
  <2> QED BY <1>1, <1>5, <2>1, <2>2, <2>3 DEF SendHead, SendInv
<1> QED BY <1>3, <1>6, SendWrites DEF SendHead, history

\* memcpy of the body.
LEMMA SendBodyStep ==
  ASSUME TypeOK, QueueInv, SendBody
  PROVE  QueueInv'
<1> DEFINE a == AlignPackSize(smsg)  start == spos + PackHeadSize
<1>1. spc = "body" /\ spc' = "publish" /\ buf' = CopyBody(spos, smsg)
  BY DEF SendBody
<1>2. /\ spos \in Offset /\ head \in Offset /\ tail \in Offset /\ a \in Nat
      /\ MsgLen[smsg] \in Nat /\ a >= PackHeadSize + MsgLen[smsg]
      /\ spos + a <= Capacity
  BY <1>1, PlaceFacts DEF QueueInv
<1>3. ASSUME NEW x \in Offset, ~(start <= x /\ x < start + MsgLen[smsg])
      PROVE  buf'[x] = buf[x]
  BY <1>1, <1>3 DEF CopyBody
<1>4. ASSUME NEW x \in Offset, InUse(x) PROVE buf'[x] = buf[x]
  <2>1. ~(spos <= x /\ x < spos + a)
    BY <1>1, <1>4, SendRegionFree DEF QueueInv
  <2>2. ~(start <= x /\ x < start + MsgLen[smsg])
    BY <1>2, <2>1, SizeAssumption DEF Offset
  <2> QED BY <1>3, <2>2
<1>5. HasBody(spos, smsg)'
  <2> SUFFICES ASSUME NEW k \in 0 .. MsgLen[smsg] - 1
               PROVE  buf'[start + k] = BodyByte(smsg, k)
    <3>1. smsg' = smsg /\ spos' = spos
      BY DEF SendBody
    <3> QED BY <3>1 DEF HasBody
  <2>1. spos + PackHeadSize + MsgLen[smsg] <= Capacity
    <3> HIDE DEF a
    <3> QED BY <1>2, SizeAssumption DEF Offset
  <2>2. smsg \in Msg
    BY DEF TypeOK
  <2> QED BY <1>1, <1>2, <2>1, <2>2, CopiedBody
<1>6. HasHead(spos, PackHead(smsg, seq))'
  <2>1. HasHead(spos, PackHead(smsg, seq))
    BY <1>1 DEF QueueInv, SendInv
  <2>2. ASSUME NEW k \in 0 .. PackHeadSize - 1 PROVE buf'[spos + k] = buf[spos + k]
    <3>1. spos + k \in Offset /\ ~(start <= spos + k)
      BY <1>2, SizeAssumption DEF Offset
    <3> QED BY <1>3, <3>1
  <2>3. UNCHANGED <<spos, smsg, seq>>
    BY DEF SendBody
  <2> QED BY <2>1, <2>2, <2>3 DEF HasHead, PackHead
<1>7. spos # tail /\ Skipped(tail) => Skipped(tail)'
  <2> SUFFICES ASSUME spos # tail, HasHead(tail, PlaceHoldHead),
                      tail + PackHeadSize <= Capacity
               PROVE  HasHead(tail, PlaceHoldHead)'
    BY <1>2, SizeAssumption DEF SendBody, Skipped, Offset
  <2>1. spos = 0 /\ head <= tail /\ a < head
    BY <1>1 DEF QueueInv, SendInv
  <2>2. ASSUME NEW k \in 0 .. PackHeadSize - 1 PROVE buf'[tail + k] = buf[tail + k]
    <3>1. tail + k \in Offset /\ ~(tail + k < start + MsgLen[smsg])
      BY <1>2, <2>1, SizeAssumption DEF Offset
    <3> QED BY <1>3, <3>1
  <2> QED BY <2>2 DEF HasHead, SendBody
<1>8. SendInv'
  <2>1. /\ Proper(smsg)
        /\ \/ /\ spos = tail /\ tail + a <= Capacity
              /\ head > tail => tail + a < head
              /\ tail + a = Capacity => 0 < head
           \/ /\ spos = 0 /\ head <= tail /\ a < head
              /\ Skipped(tail)
    BY <1>1 DEF QueueInv, SendInv
  <2>2. a < head /\ head <= tail => spos # tail \/ spos # 0
    BY <1>2, SizeAssumption DEF Offset
  <2> QED BY <1>1, <1>5, <1>6, <1>7, <2>1, <2>2 DEF SendBody, SendInv
<1> QED BY <1>4, <1>8, SendWrites DEF SendBody, history

\* The body of a proper message does not run over the end of the ring.
LEMMA BodyStaysInside ==
  ASSUME TypeOK, QueueInv
  PROVE  ~SendBodyDies
<1> SUFFICES ASSUME SendBodyDies PROVE FALSE
  OBVIOUS
<1> DEFINE a == AlignPackSize(smsg)
<1>1. spc = "body" /\ spos + PackHeadSize + MsgLen[smsg] > Capacity
  BY DEF SendBodyDies
<1>2. /\ spos \in Offset /\ a \in Nat /\ MsgLen[smsg] \in Nat
      /\ a >= PackHeadSize + MsgLen[smsg] /\ spos + a <= Capacity
  BY <1>1, PlaceFacts DEF QueueInv
<1> HIDE DEF a
<1> QED BY <1>1, <1>2, SizeAssumption DEF Offset

\* header_->tail = cur_tail hands the bytes written to the receiver.
LEMMA SendPublishStep ==
  ASSUME TypeOK, QueueInv, ~cut, SendPublish
  PROVE  QueueInv'
<1> DEFINE a == AlignPackSize(smsg)  n == Len(q)
           p == [at |-> tail, off |-> spos, msg |-> smsg, seq |-> seq]
<1>1. /\ spc = "publish" /\ spc' = "seq" /\ q' = Append(q, p)
      /\ tail' = (spos + a) % Capacity
      /\ UNCHANGED <<head, buf, rvars>>
  BY DEF SendPublish
<1>2. /\ smsg \in Msg /\ spos \in Offset /\ head \in Offset /\ tail \in Offset
      /\ a \in Nat /\ MsgLen[smsg] \in Nat /\ a >= PackHeadSize + MsgLen[smsg]
      /\ spos + a <= Capacity
  BY <1>1, PlaceFacts DEF QueueInv
<1>3. /\ Proper(smsg)
      /\ HasHead(spos, PackHead(smsg, seq)) /\ HasBody(spos, smsg)
      /\ \/ /\ spos = tail /\ tail + a <= Capacity
            /\ head > tail => tail + a < head
            /\ tail + a = Capacity => 0 < head
         \/ /\ spos = 0 /\ head <= tail /\ a < head
            /\ Skipped(tail)
  BY <1>1 DEF QueueInv, SendInv
<1>4. /\ n \in Nat /\ Len(q') = n + 1 /\ q'[n + 1] = p
      /\ \A i \in 1 .. n : q'[i] = q[i]
  BY <1>1 DEF TypeOK
<1>5. tail' = IF spos + a = Capacity THEN 0 ELSE spos + a
  <2>1. spos + a \in Nat
    BY <1>2 DEF Offset
  <2>2. Capacity \in Nat \ {0}
    BY SizeAssumption
  <2> QED BY <1>1, <1>2, <2>1, <2>2, ModAtEnd
<1>6. PackEnd(p) = tail' /\ tail' \in Offset
  BY <1>2, <1>5, SizeAssumption DEF PackEnd, Offset
<1>7. Key(tail) < Key(tail')
  <2> HIDE DEF a
  <2> QED BY <1>2, <1>3, <1>5, <1>6, SizeAssumption DEF Key, Offset
<1>8. \A x \in Offset : Key(x) \in Int
  BY <1>1, <1>2, SizeAssumption DEF Key, Offset
<1>9. ASSUME NEW i \in 1 .. n
      PROVE  /\ q[i].at \in Offset /\ PackEnd(q[i]) \in Offset
             /\ Key(q[i].at) < Key(PackEnd(q[i]))
             /\ Key(PackEnd(q[i])) <= Key(tail)
             /\ PackEnd(q'[i]) = PackEnd(q[i])
  BY <1>4, PackFacts DEF QueueInv, OrderInv, PackEnd
<1>10. PackEnd(q'[n + 1]) = tail'
  BY <1>4, <1>6 DEF PackEnd
<1>11. PacksInv'
  <2> SUFFICES ASSUME NEW i \in 1 .. n + 1 PROVE PackOK(q[i])'
    BY <1>4 DEF PacksInv
  <2>1. CASE i \in 1 .. n
    <3>1. PackOK(q[i])
      BY <2>1 DEF QueueInv, PacksInv
    <3> QED BY <1>1, <1>4, <2>1, <3>1 DEF PackOK, HasHead, HasBody, Skipped
  <2>2. CASE i = n + 1
    <3>1. PackOK(p)
      BY <1>2, <1>3 DEF PackOK
    <3> HIDE DEF p
    <3> QED BY <1>1, <1>4, <2>2, <3>1 DEF PackOK, HasHead, HasBody, Skipped
  <2> QED BY <1>4, <2>1, <2>2
<1>12. ChainInv'
  <2>1. q' # <<>>
    BY <1>4
  <2>2. q'[1].at = head'
    <3>1. CASE n = 0
      <4>1. q = <<>>
        BY <3>1 DEF TypeOK
      <4> QED BY <1>1, <1>4, <3>1, <4>1 DEF QueueInv, ChainInv
    <3>2. CASE n # 0
      <4>1. q # <<>> /\ 1 \in 1 .. n
        BY <1>4, <3>2
      <4> QED BY <1>1, <1>4, <4>1 DEF QueueInv, ChainInv
    <3> QED BY <3>1, <3>2
  <2>3. PackEnd(q'[Len(q')]) = tail'
    BY <1>4, <1>10
  <2>4. ASSUME NEW i \in 1 .. Len(q') - 1
        PROVE  PackEnd(q'[i]) = q'[i + 1].at
    <3>1. i \in 1 .. n /\ n \in 1 .. n /\ q # <<>>
      BY <1>4
    <3>2. CASE i = n
      <4>1. PackEnd(q[n]) = tail
        BY <3>1 DEF QueueInv, ChainInv
      <4> QED BY <1>4, <1>9, <3>1, <3>2, <4>1
    <3>3. CASE i # n
      <4>1. i \in 1 .. n - 1 /\ i + 1 \in 1 .. n
        BY <1>4, <3>1, <3>3
      <4>2. PackEnd(q[i]) = q[i + 1].at
        BY <4>1 DEF QueueInv, ChainInv
      <4> QED BY <1>4, <1>9, <3>1, <4>1, <4>2
    <3> QED BY <3>2, <3>3
  <2> QED BY <2>1, <2>2, <2>3, <2>4 DEF ChainInv, PackEnd
<1>13. OrderInv'
  <2> HIDE DEF n, p, a
  <2>1. ASSUME NEW i \in 1 .. n + 1
        PROVE  /\ Key(q'[i].at) < Key(PackEnd(q'[i]))
               /\ Key(PackEnd(q'[i])) <= Key(tail')
    <3>1. CASE i \in 1 .. n
      BY <1>2, <1>4, <1>6, <1>7, <1>8, <1>9, <3>1
    <3>2. CASE i = n + 1
      BY <1>2, <1>4, <1>6, <1>7, <1>8, <1>10, <3>2 DEF p
    <3> QED BY <1>4, <3>1, <3>2
  <2>2. ASSUME NEW i \in 1 .. n + 1, NEW j \in 1 .. n + 1, i < j
        PROVE  Key(PackEnd(q'[i])) <= Key(q'[j].at)
    <3>1. i \in 1 .. n
      BY <1>4, <2>2
    <3>2. CASE j \in 1 .. n
      <4>1. Key(PackEnd(q[i])) <= Key(q[j].at)
        BY <2>2, <3>1, <3>2 DEF QueueInv, OrderInv, n
      <4> QED BY <1>4, <1>8, <1>9, <3>1, <3>2, <4>1
    <3>3. CASE j = n + 1
      BY <1>2, <1>4, <1>8, <1>9, <3>1, <3>3 DEF p
    <3> QED BY <1>4, <3>2, <3>3
  <2> QED BY <1>1, <1>4, <2>1, <2>2 DEF OrderInv, Key, PackEnd
<1>14. SendInv'
  BY <1>1 DEF SendInv
<1>15. RecvInv'
  <2>1. q # <<>> => q'[1] = q[1] /\ q' # <<>> /\ PackEnd(q'[1]) = PackEnd(q[1])
                    /\ PackEnd(q[1]) \in Offset
    <3>1. q # <<>> => 1 \in 1 .. n
      BY <1>4 DEF TypeOK
    <3> QED BY <1>4, <1>9, <3>1
  <2>2. rtail \in Offset
    BY DEF TypeOK
  <2>3. rpc # "idle" =>
          /\ q # <<>> /\ Key(PackEnd(q[1])) <= Key(rtail)
          /\ Key(rtail) <= Key(tail) /\ rop # "none"
    BY DEF QueueInv, RecvInv
  <2>4. rpc' # "idle" =>
          /\ q' # <<>> /\ Key(PackEnd(q'[1])) <= Key(rtail')
          /\ Key(rtail') <= Key(tail') /\ rop' # "none"
    <3>1. \A x \in Offset : Key(x)' = Key(x)
      BY <1>1 DEF Key
    <3>2. rpc' = rpc /\ rtail' = rtail /\ rop' = rop /\ tail' \in Offset
      BY <1>1, <1>6 DEF rvars
    <3> SUFFICES ASSUME rpc # "idle"
                 PROVE  /\ q' # <<>> /\ Key(PackEnd(q'[1])) <= Key(rtail)
                        /\ Key(rtail) <= Key(tail') /\ rop # "none"
      BY <1>1, <3>1, <3>2 DEF Key
    <3>3. Key(rtail) \in Int /\ Key(tail) \in Int /\ Key(tail') \in Int
      BY <1>2, <1>8, <2>2, <3>2
    <3>4. Key(rtail) <= Key(tail')
      BY <1>7, <2>3, <3>3
    <3> QED BY <2>1, <2>3, <3>4
  <2>5. rpc \in {"copy", "advance"} => q # <<>>
    BY <2>3
  <2> QED
    BY <1>1, <2>1, <2>4, <2>5 DEF QueueInv, RecvInv, rvars, Key, PackEnd
<1>16. NoFatalError'
  BY <1>1 DEF QueueInv, NoFatalError, rvars
<1> QED BY <1>11, <1>12, <1>13, <1>14, <1>15, <1>16 DEF QueueInv

\* header_->seq++ concerns the ring no more.
LEMMA SendSeqStep ==
  ASSUME TypeOK, QueueInv, SendSeq
  PROVE  QueueInv'
<1> USE DEF rvars
<1>1. UNCHANGED <<head, tail, buf, q, rvars>> /\ spc' = "idle"
  BY DEF SendSeq, SendReturn, history
<1>2. PacksInv' /\ ChainInv' /\ OrderInv'
  BY <1>1, RingFrame DEF QueueInv
<1>3. RecvInv'
  BY <1>1, RecvFrame DEF QueueInv
<1>4. SendInv'
  BY <1>1 DEF SendInv
<1>5. NoFatalError'
  BY <1>1 DEF QueueInv, NoFatalError
<1> QED BY <1>2, <1>3, <1>4, <1>5 DEF QueueInv

-----------------------------------------------------------------------------
(* Recv, Peek and Drop preserve the invariant *)

\* A step of the receiver that consumes nothing.
LEMMA RecvMoves ==
  ASSUME QueueInv, UNCHANGED <<shared, q, svars>>, RecvInv', NoFatalError'
  PROVE  QueueInv'
<1> USE DEF shared, svars
<1>1. PacksInv' /\ ChainInv' /\ OrderInv'
  BY RingFrame DEF QueueInv
<1>2. SendInv'
  BY SendFrame DEF QueueInv
<1> QED BY <1>1, <1>2 DEF QueueInv

\* GetNextPack reads header_->tail.
LEMMA RecvCallStep ==
  ASSUME TypeOK, QueueInv, NEW op \in {"Recv", "Peek", "Drop"}, NEW space,
         RecvCall(op, space)
  PROVE  QueueInv'
<1>1. /\ rpc' = "scan" /\ rop' = op /\ rtail' = tail /\ tail # head
      /\ rret' = "none" /\ UNCHANGED <<peek, shared, q, svars>>
  BY DEF RecvCall, history
<1>2. q # <<>> /\ 1 \in 1 .. Len(q)
  BY <1>1 DEF TypeOK, QueueInv, ChainInv
<1>3. Key(PackEnd(q[1])) <= Key(tail)
  BY <1>2 DEF QueueInv, OrderInv
<1>4. head \in Offset /\ tail \in Offset /\ Key(tail) <= Key(tail)
  BY SizeAssumption DEF TypeOK, Key, Offset
<1>5. RecvInv'
  BY <1>1, <1>2, <1>3, <1>4 DEF QueueInv, RecvInv, Key, PackEnd, shared
<1>6. NoFatalError'
  BY <1>1 DEF NoFatalError
<1> QED BY <1>1, <1>5, <1>6, RecvMoves

\* The bytes of a head copied to pos read as that head.
LEMMA ReadsHead ==
  ASSUME NEW pos \in Offset, pos + PackHeadSize <= Capacity, NEW h,
         h.cmd \in {"transfer", "placeholder"}, HasHead(pos, h)
  PROVE  HeadAt(pos) = {h}
<1>1. 0 \in 0 .. PackHeadSize - 1 /\ pos + 0 = pos
  BY SizeAssumption DEF Offset
<1>2. buf[pos] = <<h, 0>>
  BY <1>1 DEF HasHead
<1>3. buf[pos][1] = h
  BY <1>2
<1>4. IsHead(pos)
  BY <1>3 DEF IsHead, HasHead
<1> QED BY <1>3, <1>4 DEF HeadAt

\* GetNextPack finds the oldest pack, at its place and with its head, and
\* accepts it, although the tail it has read may be out of date.
LEMMA FindsFirst ==
  ASSUME TypeOK, QueueInv, rpc = "scan",
         NEW skip \in Skips, NEW pack \in HeadAt(IF skip THEN 0 ELSE head)
  PROVE  /\ (IF skip THEN 0 ELSE head) = q[1].off
         /\ pack = PackHead(q[1].msg, q[1].seq)
         /\ NextPackCode(skip, IF skip THEN 0 ELSE head, pack) = "kOk"
<1> DEFINE p == q[1]  a == AlignPackSize(q[1].msg)  off == q[1].off
           end == PackEnd(q[1])  h == PackHead(q[1].msg, q[1].seq)
<1>1. /\ q # <<>> /\ 1 \in 1 .. Len(q)
      /\ Key(end) <= Key(rtail)
  BY DEF TypeOK, QueueInv, RecvInv
<1>2. /\ p.msg \in Msg /\ Proper(p.msg) /\ off \in Offset /\ a \in Nat
      /\ MsgLen[p.msg] \in Nat /\ a >= PackHeadSize + MsgLen[p.msg]
      /\ off + a <= Capacity /\ end \in Offset
  BY <1>1, PackFacts, MsgAssumption DEF QueueInv
<1>3. p.at = head
  BY <1>1 DEF QueueInv, ChainInv
<1>4. /\ HasHead(off, h)
      /\ \/ off = head
         \/ off = 0 /\ a < head /\ Skipped(head)
  BY <1>1, <1>3 DEF QueueInv, PacksInv, PackOK
<1>5. h.cmd = "transfer" /\ PackHeadSize + h.align_body_len = a
  BY <1>2, HeadFields
<1>6. end = IF off + a = Capacity THEN 0 ELSE off + a
  BY DEF PackEnd
<1>7. Key(head) < Key(end)
  BY <1>1, <1>3 DEF QueueInv, OrderInv
<1>8. head \in Offset /\ rtail \in Offset
  BY DEF TypeOK
<1>9. HeadAt(off) = {h}
  <2>1. off + PackHeadSize <= Capacity
    BY <1>2, SizeAssumption DEF Offset
  <2> HIDE DEF h, off
  <2> QED BY <1>2, <1>4, <1>5, <2>1, ReadsHead
<1>10. \A from \in Offset :
         AllocSize(from) = IF rtail >= from THEN rtail - from
                           ELSE rtail + Capacity - from
  <2> SUFFICES ASSUME NEW from \in Offset
               PROVE  AllocSize(from) = IF rtail >= from THEN rtail - from
                                        ELSE rtail + Capacity - from
    OBVIOUS
  <2> DEFINE v == rtail + Capacity - from
  <2>1. v \in Nat /\ v < 2 * Capacity /\ v < Word
    BY <1>8, SizeAssumption DEF Offset
  <2>2. v % Word = v
    <3> HIDE DEF v
    <3> QED BY <2>1, SizeAssumption
  <2>3. v % Capacity = IF v < Capacity THEN v ELSE v - Capacity
    <3> HIDE DEF v
    <3> QED BY <2>1, SizeAssumption
  <2> QED BY <1>8, <2>1, <2>2, <2>3, SizeAssumption DEF AllocSize, Offset
<1>11. CASE off = head
  <2>1. ~(TailAllocSize < PackHeadSize)
    BY <1>2, <1>8, <1>11, SizeAssumption DEF TailAllocSize, Offset
  <2>2. Skips = {FALSE}
    BY <1>5, <1>9, <1>11, <2>1 DEF Skips
  <2>3. skip = FALSE /\ pack = h
    BY <1>9, <1>11, <2>2
  <2>4. ~(a > AllocSize(head))
    <3> HIDE DEF a, off, end
    <3> QED BY <1>1, <1>2, <1>6, <1>7, <1>8, <1>10, <1>11, SizeAssumption
            DEF Key, Offset
  <2> HIDE DEF h, a, off
  <2>5. NextPackCode(skip, head, pack) = "kOk"
    BY <1>5, <2>3, <2>4 DEF NextPackCode
  <2> QED BY <1>11, <2>3, <2>5 DEF off, h
<1>12. CASE off # head
  <2>1. off = 0 /\ a < head /\ Skipped(head)
    BY <1>4, <1>12
  <2>2. Skips = {TRUE}
    <3>1. CASE TailAllocSize < PackHeadSize
      BY <3>1 DEF Skips
    <3>2. CASE ~(TailAllocSize < PackHeadSize)
      <4>1. head + PackHeadSize <= Capacity /\ HasHead(head, PlaceHoldHead)
        BY <1>8, <2>1, <3>2, SizeAssumption DEF TailAllocSize, Skipped, Offset
      <4>2. PlaceHoldHead.cmd = "placeholder"
        BY DEF PlaceHoldHead
      <4>3. HeadAt(head) = {PlaceHoldHead}
        BY <1>8, <4>1, <4>2, ReadsHead
      <4> QED BY <3>2, <4>2, <4>3 DEF Skips
    <3> QED BY <3>1, <3>2
  <2>3. skip = TRUE
    BY <2>2
  <2>4. pack = h
    BY <1>9, <2>1, <2>3
  <2>5. ~(AllocSize(head) < TailAllocSize) /\ ~(a > AllocSize(0))
    <3>1. 0 \in Offset
      BY SizeAssumption DEF Offset
    <3> HIDE DEF a, off, end
    <3>2. end = a /\ Key(end) = a + Capacity
      BY <1>2, <1>6, <1>8, <2>1, SizeAssumption DEF Key, Offset
    <3>3. rtail < head /\ a <= rtail
      BY <1>1, <1>2, <1>8, <3>2, SizeAssumption DEF Key, Offset
    <3>4. AllocSize(head) = rtail + Capacity - head
      BY <1>8, <1>10, <3>3 DEF Offset
    <3>5. AllocSize(0) = rtail
      BY <1>8, <1>10, <3>1 DEF Offset
    <3> QED BY <1>2, <1>8, <3>3, <3>4, <3>5, SizeAssumption
            DEF Offset, TailAllocSize
  <2> HIDE DEF h, a, off
  <2>6. NextPackCode(skip, 0, pack) = "kOk"
    BY <1>5, <2>3, <2>4, <2>5 DEF NextPackCode
  <2> QED BY <2>1, <2>3, <2>4, <2>6 DEF off, h
<1> QED BY <1>11, <1>12

\* A call of the receiver that returns and leaves the queue alone.
LEMMA RecvIdle ==
  ASSUME QueueInv, UNCHANGED <<shared, q, svars>>, rpc' = "idle", RecvInv,
         rret' \notin {"kChanPackInvalid", "kUnexpect"},
         \A p \in peek' : p \in peek \/
           (q # <<>> /\ p = [off |-> q[1].off + PackHeadSize,
                             len |-> MsgLen[q[1].msg]])
  PROVE  QueueInv'
<1>1. RecvInv'
  BY DEF RecvInv
<1>2. NoFatalError'
  BY DEF NoFatalError
<1> QED BY <1>1, <1>2, RecvMoves

\* The rest of GetNextPack, and what Recv, Peek and Drop make of it.
LEMMA RecvScanStep ==
  ASSUME TypeOK, QueueInv, RecvScan
  PROVE  QueueInv'
<1>1. PICK skip \in Skips :
        LET cur == IF skip THEN 0 ELSE head IN
        \E pack \in HeadAt(cur) :
          LET code == NextPackCode(skip, cur, pack) IN
          \/ ScanFails(code, pack) /\ UNCHANGED peek
          \/ ScanPeeks(code, cur, pack)
          \/ ScanTakes(code, cur, pack) /\ UNCHANGED peek
  BY DEF RecvScan
<1> DEFINE cur == IF skip THEN 0 ELSE head
<1>2. PICK pack \in HeadAt(cur) :
        LET code == NextPackCode(skip, cur, pack) IN
        \/ ScanFails(code, pack) /\ UNCHANGED peek
        \/ ScanPeeks(code, cur, pack)
        \/ ScanTakes(code, cur, pack) /\ UNCHANGED peek
  BY <1>1
<1> DEFINE code == NextPackCode(skip, cur, pack)
<1>3. rpc = "scan" /\ UNCHANGED <<shared, q, svars>>
  BY DEF RecvScan, history
<1>4. cur = q[1].off /\ pack = PackHead(q[1].msg, q[1].seq) /\ code = "kOk"
  BY <1>3, FindsFirst
<1>5. q # <<>> /\ 1 \in 1 .. Len(q) /\ RecvInv
  BY <1>3 DEF TypeOK, QueueInv, RecvInv
<1>6. pack.body_len = MsgLen[q[1].msg]
  BY <1>4, <1>5, PackFacts, HeadFields DEF QueueInv
<1> HIDE DEF cur, code
<1>7. CASE ScanFails(code, pack) /\ UNCHANGED peek
  BY <1>3, <1>4, <1>5, <1>7, RecvIdle DEF ScanFails, RecvReturn
<1>8. CASE ScanPeeks(code, cur, pack)
  BY <1>3, <1>4, <1>5, <1>6, <1>8, RecvIdle DEF ScanPeeks, RecvReturn
<1>9. CASE ScanTakes(code, cur, pack) /\ UNCHANGED peek
  <2>1. /\ rpc' \in {"copy", "advance"} /\ (rpc' = "advance" => rop = "Drop")
        /\ rhead' = q[1].off /\ rpack' = PackHead(q[1].msg, q[1].seq)
        /\ UNCHANGED <<rop, rtail, rret, peek>>
    BY <1>4, <1>9 DEF ScanTakes
  <2>2. RecvInv'
    BY <1>3, <1>5, <2>1 DEF RecvInv, PackHead, Key, PackEnd, shared
  <2>3. NoFatalError'
    BY <2>1 DEF QueueInv, NoFatalError
  <2> QED BY <1>3, <2>2, <2>3, RecvMoves
<1> QED BY <1>2, <1>7, <1>8, <1>9 DEF code

\* memcpy hands out the payload of the oldest pack.
LEMMA RecvCopyStep ==
  ASSUME TypeOK, QueueInv, RecvCopy
  PROVE  QueueInv'
<1> DEFINE m == q[1].msg  off == q[1].off
<1>1. /\ rpc = "copy" /\ rpc' = "advance"
      /\ rdata' = [k \in 0 .. rpack.body_len - 1 |->
                     LET x == rhead + PackHeadSize + k IN
                     IF x < Capacity THEN buf[x] ELSE RawByte]
      /\ UNCHANGED <<rop, rtail, rhead, rpack, rret, peek, shared, q, svars>>
  BY DEF RecvCopy, history
<1>2. /\ q # <<>> /\ 1 \in 1 .. Len(q)
      /\ rhead = off /\ rpack = PackHead(m, q[1].seq)
  BY <1>1 DEF TypeOK, QueueInv, RecvInv
<1>3. /\ off \in Offset /\ m \in Msg /\ Proper(m) /\ MsgLen[m] \in Nat
      /\ AlignPackSize(m) \in Nat /\ AlignPackSize(m) >= PackHeadSize + MsgLen[m]
      /\ off + AlignPackSize(m) <= Capacity
  BY <1>2, PackFacts, MsgAssumption DEF QueueInv
<1>4. rpack.body_len = MsgLen[m]
  BY <1>2, <1>3, HeadFields
<1>5. HasBody(off, m)
  BY <1>2 DEF QueueInv, PacksInv, PackOK
<1> HIDE DEF m, off
<1>6. ASSUME NEW k \in 0 .. MsgLen[m] - 1
      PROVE  /\ off + PackHeadSize + k < Capacity
             /\ buf[off + PackHeadSize + k] = BodyByte(m, k)
  BY <1>3, <1>5, SizeAssumption DEF HasBody, Offset
<1>7. rdata' = Payload(m)
  BY <1>1, <1>2, <1>4, <1>6 DEF Payload
<1>8. RecvInv'
  BY <1>1, <1>2, <1>7
     DEF QueueInv, RecvInv, PackHead, Payload, BodyByte, Key, PackEnd, shared, m
<1>9. NoFatalError'
  BY <1>1 DEF QueueInv, NoFatalError
<1> QED BY <1>1, <1>8, <1>9, RecvMoves

\* header_->head = cur_head gives the bytes of the oldest pack back to Send.
LEMMA RecvAdvanceStep ==
  ASSUME TypeOK, QueueInv, RecvAdvance
  PROVE  QueueInv'
<1> DEFINE a == AlignPackSize(q[1].msg)  h2 == PackEnd(q[1])  n == Len(q)
           d == IF h2 >= head THEN 0 ELSE Capacity
<1>1. /\ rpc = "advance" /\ rpc' = "idle" /\ rret' = "kOk" /\ peek' = {}
      /\ head' = (rhead + PackHeadSize + rpack.align_body_len) % Capacity
      /\ UNCHANGED <<tail, seq, buf, svars>>
  BY DEF RecvAdvance, RecvReturn
<1>2. /\ q # <<>> /\ n \in Nat /\ 1 \in 1 .. n
      /\ rhead = q[1].off /\ rpack = PackHead(q[1].msg, q[1].seq)
  <2>1. /\ q # <<>> /\ rhead = q[1].off
        /\ rpack = PackHead(q[1].msg, q[1].seq)
    BY <1>1 DEF QueueInv, RecvInv
  <2>2. n \in Nat /\ n # 0
    BY <2>1 DEF TypeOK
  <2> QED BY <2>1, <2>2
<1>3. /\ q' = Tail(q) /\ Len(q') = n - 1
      /\ \A i \in 1 .. n - 1 : q'[i] = q[i + 1]
  BY <1>2 DEF RecvAdvance, TypeOK
<1>4. /\ q[1].off \in Offset /\ q[1].msg \in Msg /\ Proper(q[1].msg)
      /\ a \in Nat /\ q[1].off + a <= Capacity /\ h2 \in Offset
  BY <1>2, PackFacts DEF QueueInv
<1>5. head' = h2
  <2>1. PackHeadSize + rpack.align_body_len = a /\ rpack.align_body_len \in Nat
    BY <1>2, <1>4, HeadFields DEF TypeOK, ChannelPackHead
  <2>2. rhead + PackHeadSize + rpack.align_body_len = q[1].off + a
    <3>1. rhead = q[1].off /\ rhead \in Int /\ PackHeadSize \in Int
      BY <1>2, <1>4, SizeAssumption DEF Offset
    <3> HIDE DEF a
    <3> QED BY <2>1, <3>1
  <2>3. h2 = IF q[1].off + a = Capacity THEN 0 ELSE q[1].off + a
    BY DEF PackEnd
  <2>4. q[1].off + a \in Nat
    BY <1>4 DEF Offset
  <2> QED BY <1>1, <1>4, <2>2, <2>3, <2>4, SizeAssumption
<1>6. head \in Offset /\ tail \in Offset /\ Key(h2) <= Key(tail)
  BY <1>2 DEF TypeOK, QueueInv, OrderInv
<1>7. ASSUME NEW i \in 1 .. n - 1
      PROVE  /\ i + 1 \in 1 .. n /\ i + 1 # 1 /\ q'[i] = q[i + 1]
             /\ q[i + 1].at \in Offset /\ PackEnd(q[i + 1]) \in Offset
             /\ Key(h2) <= Key(q[i + 1].at)
             /\ Key(q[i + 1].at) < Key(PackEnd(q[i + 1]))
             /\ Key(PackEnd(q[i + 1])) <= Key(tail)
  <2>1. i + 1 \in 1 .. n /\ 1 < i + 1
    BY <1>2
  <2> QED BY <1>2, <1>3, <2>1, PackFacts DEF QueueInv, OrderInv
<1>8. \A x \in Offset : Key(x) \in Int
  BY <1>6, SizeAssumption DEF Key, Offset
<1>9. ASSUME NEW x \in Offset, Key(h2) <= Key(x)
      PROVE  (IF x >= head' THEN x ELSE x + Capacity) = Key(x) - d
  <2> HIDE DEF h2
  <2> QED BY <1>4, <1>5, <1>6, <1>9, SizeAssumption DEF Key, Offset
<1> DEFINE Key2(x) == IF x >= head' THEN x ELSE x + Capacity
<1>10. PacksInv'
  <2> SUFFICES ASSUME NEW i \in 1 .. n - 1 PROVE PackOK(q[i])'
    BY <1>3 DEF PacksInv
  <2>1. PackOK(q[i + 1])
    BY <1>7 DEF QueueInv, PacksInv
  <2>2. head <= q[i + 1].at => head <= h2 /\ h2 <= q[i + 1].at
    <3>1. q[i + 1].at \in Offset /\ Key(h2) <= Key(q[i + 1].at)
      BY <1>7
    <3> HIDE DEF h2
    <3> QED BY <1>4, <1>6, <3>1, SizeAssumption DEF Key, Offset
  <2>3. AlignPackSize(q[i + 1].msg) < head /\ head <= h2
          => AlignPackSize(q[i + 1].msg) < h2
    <3>1. AlignPackSize(q[i + 1].msg) \in Nat
      BY <1>7, PackFacts DEF QueueInv
    <3> HIDE DEF h2
    <3> QED BY <1>4, <1>6, <3>1, SizeAssumption DEF Offset
  <2>4. q'[i] = q[i + 1]
    BY <1>7
  <2> HIDE DEF h2
  <2> QED BY <1>1, <1>5, <2>1, <2>2, <2>3, <2>4
          DEF PackOK, HasHead, HasBody, Skipped
<1>11. ChainInv'
  <2>1. CASE n = 1
    <3>1. q' = <<>>
      <4> DEFINE T == [at : Offset, off : Offset, msg : Msg, seq : 0 .. SeqMod - 1]
      <4>1. Tail(q) \in Seq(T)
        BY <1>2 DEF TypeOK
      <4> HIDE DEF T
      <4> QED BY <1>3, <2>1, <4>1, EmptySeq
    <3>2. h2 = tail
      BY <1>2, <2>1 DEF QueueInv, ChainInv
    <3>3. ASSUME NEW i \in 1 .. Len(q') - 1 PROVE FALSE
      <4>1. Len(q') = 0
        BY <1>3, <2>1
      <4> QED BY <4>1
    <3> QED BY <1>1, <1>5, <3>1, <3>2, <3>3 DEF ChainInv
  <2>2. CASE n # 1
    <3>1. 1 \in 1 .. n - 1 /\ n - 1 \in 1 .. n - 1 /\ q' # <<>>
      <4>1. n \in Nat /\ 1 \in 1 .. n /\ n # 1 /\ Len(q') = n - 1
        BY <1>2, <1>3, <2>2
      <4> HIDE DEF n
      <4>2. 1 \in 1 .. n - 1 /\ n - 1 \in 1 .. n - 1 /\ Len(q') # 0
        BY <4>1
      <4> QED BY <4>2
    <3>2. q'[1].at = head'
      <4>1. PackEnd(q[1]) = q[1 + 1].at
        BY <3>1 DEF QueueInv, ChainInv
      <4> QED BY <1>5, <1>7, <3>1, <4>1
    <3>3. PackEnd(q'[Len(q')]) = tail
      <4>1. q'[n - 1] = q[n - 1 + 1] /\ n - 1 + 1 = n
        BY <1>2, <1>7, <3>1
      <4>2. PackEnd(q[n]) = tail
        BY <1>2 DEF QueueInv, ChainInv
      <4> QED BY <1>3, <4>1, <4>2
    <3>4. ASSUME NEW i \in 1 .. Len(q') - 1
          PROVE  PackEnd(q'[i]) = q'[i + 1].at
      <4>1. i \in 1 .. n - 1 /\ i + 1 \in 1 .. n - 1
        BY <1>2, <1>3
      <4>2. PackEnd(q[i + 1]) = q[i + 1 + 1].at
        BY <4>1 DEF QueueInv, ChainInv
      <4> QED BY <1>7, <4>1, <4>2
    <3> QED BY <1>1, <3>1, <3>2, <3>3, <3>4 DEF ChainInv, PackEnd
  <2> QED BY <2>1, <2>2
<1>12. OrderInv'
  <2> HIDE DEF n, h2, d
  <2>1. d \in Int
    BY SizeAssumption DEF d
  <2>2. ASSUME NEW i \in 1 .. n - 1
        PROVE  /\ Key2(q'[i].at) < Key2(PackEnd(q'[i]))
               /\ Key2(PackEnd(q'[i])) <= Key2(tail')
    <3> DEFINE at == q[i + 1].at  end == PackEnd(q[i + 1])
    <3>1. /\ at \in Offset /\ end \in Offset /\ Key(h2) <= Key(at)
          /\ Key(at) < Key(end) /\ Key(end) <= Key(tail)
          /\ q'[i].at = at /\ PackEnd(q'[i]) = end /\ tail' = tail
      BY <1>1, <1>7
    <3> HIDE DEF at, end
    <3>2. Key(h2) <= Key(end)
      BY <1>4, <1>8, <3>1
    <3>3. /\ Key2(at) = Key(at) - d /\ Key2(end) = Key(end) - d
          /\ Key2(tail) = Key(tail) - d
      BY <1>6, <1>9, <3>1, <3>2
    <3> HIDE DEF Key2
    <3> QED BY <1>6, <1>8, <2>1, <3>1, <3>3
  <2>3. ASSUME NEW i \in 1 .. n - 1, NEW j \in 1 .. n - 1, i < j
        PROVE  Key2(PackEnd(q'[i])) <= Key2(q'[j].at)
    <3> DEFINE end == PackEnd(q[i + 1])  at == q[j + 1].at
    <3>1. /\ at \in Offset /\ end \in Offset /\ Key(h2) <= Key(at)
          /\ q'[j].at = at /\ PackEnd(q'[i]) = end
          /\ Key(h2) <= Key(q[i + 1].at) /\ Key(q[i + 1].at) < Key(end)
          /\ q[i + 1].at \in Offset
      BY <1>7
    <3>2. Key(end) <= Key(at)
      <4>1. i + 1 \in 1 .. n /\ j + 1 \in 1 .. n /\ i + 1 < j + 1
        BY <1>7, <2>3
      <4> QED BY <4>1 DEF QueueInv, OrderInv, n
    <3>3. Key(h2) <= Key(end)
      BY <1>4, <1>8, <3>1
    <3> HIDE DEF at, end
    <3>4. Key2(at) = Key(at) - d /\ Key2(end) = Key(end) - d
      BY <1>9, <3>1, <3>3
    <3> HIDE DEF Key2
    <3> QED BY <1>8, <2>1, <3>1, <3>2, <3>4
  <2> QED BY <1>3, <2>2, <2>3 DEF OrderInv, Key, PackEnd
<1>13. SendInv'
  <2> DEFINE b == AlignPackSize(smsg)
  <2>1. b \in Nat
    BY AlignSize DEF TypeOK
  <2>2. \/ head <= tail /\ head <= h2 /\ h2 <= tail
        \/ head > tail /\ head <= h2
        \/ head > tail /\ h2 <= tail
    <3> HIDE DEF h2
    <3> QED BY <1>4, <1>6, SizeAssumption DEF Key, Offset
  <2>3. spc = "place" =>
          IF h2 > tail THEN tail + b < h2 ELSE b <= Capacity - tail - 1 + h2
    <3>1. spc = "place" =>
            IF head > tail THEN tail + b < head
            ELSE b <= Capacity - tail - 1 + head
      BY DEF QueueInv, SendInv
    <3> HIDE DEF h2, b
    <3> QED BY <1>4, <1>6, <2>1, <2>2, <3>1, SizeAssumption DEF Offset
  <2>4. ASSUME head <= tail, b < head PROVE h2 <= tail /\ b < h2
    <3> HIDE DEF h2, b
    <3> QED BY <1>4, <1>6, <2>1, <2>2, <2>4, SizeAssumption DEF Offset
  <2>5. ASSUME tail + b <= Capacity, head > tail => tail + b < head,
               tail + b = Capacity => 0 < head
        PROVE  /\ h2 > tail => tail + b < h2
               /\ tail + b = Capacity => 0 < h2
    <3> HIDE DEF h2, b
    <3> QED BY <1>4, <1>6, <2>1, <2>2, <2>5, SizeAssumption DEF Offset
  <2>6. SendInv
    BY DEF QueueInv
  <2> HIDE DEF h2
  <2> QED BY <1>1, <1>5, <2>3, <2>4, <2>5, <2>6
          DEF SendInv, HasHead, HasBody, Skipped, svars
<1>14. RecvInv'
  BY <1>1 DEF RecvInv
<1>15. NoFatalError'
  BY <1>1 DEF NoFatalError
<1> QED BY <1>10, <1>11, <1>12, <1>13, <1>14, <1>15 DEF QueueInv

-----------------------------------------------------------------------------
(* The invariant of the queue *)

\* A fresh queue satisfies the invariant.
LEMMA RingInit == Init => QueueInv
<1> SUFFICES ASSUME Init PROVE QueueInv
  OBVIOUS
<1>1. /\ q = <<>> /\ head = tail /\ spc = "idle" /\ rpc = "idle" /\ peek = {}
      /\ rret = "none"
  BY DEF Init
<1>2. ASSUME NEW i \in 1 .. Len(q) PROVE FALSE
  <2>1. Len(q) = 0
    BY <1>1
  <2> QED BY <2>1
<1>3. ASSUME NEW i \in 1 .. Len(q) - 1 PROVE FALSE
  <2>1. Len(q) = 0
    BY <1>1
  <2> QED BY <2>1
<1>4. PacksInv
  BY <1>2 DEF PacksInv
<1>5. ChainInv
  BY <1>1, <1>3 DEF ChainInv
<1>6. OrderInv
  BY <1>2 DEF OrderInv
<1>7. SendInv
  BY <1>1 DEF SendInv
<1>8. RecvInv
  BY <1>1 DEF RecvInv
<1>9. NoFatalError
  BY <1>1 DEF NoFatalError
<1> QED BY <1>4, <1>5, <1>6, <1>7, <1>8, <1>9 DEF QueueInv

\* CreateUnlockQueue(reset = true) empties the queue.
LEMMA ResetStep ==
  ASSUME QueueInv, Reset
  PROVE  QueueInv'
<1>1. /\ q' = <<>> /\ head' = tail' /\ spc' = "idle" /\ rpc' = "idle"
      /\ peek' = {} /\ rret' = rret
  BY DEF Reset, svars, rvars
<1>2. Len(q') = 0
  BY <1>1
<1>3. ASSUME NEW i \in 1 .. Len(q') PROVE FALSE
  BY <1>2
<1>4. ASSUME NEW i \in 1 .. Len(q') - 1 PROVE FALSE
  BY <1>2
<1>5. PacksInv'
  BY <1>3 DEF PacksInv
<1>6. ChainInv'
  BY <1>1, <1>4 DEF ChainInv
<1>7. OrderInv'
  BY <1>3 DEF OrderInv
<1>8. SendInv'
  BY <1>1 DEF SendInv
<1>9. RecvInv'
  BY <1>1 DEF RecvInv
<1>10. NoFatalError'
  BY <1>1 DEF QueueInv, NoFatalError
<1> QED BY <1>5, <1>6, <1>7, <1>8, <1>9, <1>10 DEF QueueInv

\* Every step of either side, a crash or a reset preserves the invariant.
LEMMA RingStep ==
  ASSUME TypeOK, QueueInv, ~cut, ~cut', [Next]_vars
  PROVE  QueueInv'
<1>1. ASSUME NEW m \in Msg, SendCall(m) PROVE QueueInv'
  BY <1>1, SendCallStep
<1>2. CASE SendStep
  BY <1>2, SendPlaceStep, SendHoldStep, SendHeadStep, SendBodyStep,
     BodyStaysInside, SendPublishStep, SendSeqStep DEF SendStep
<1>3. CASE RecvEmpty
  BY <1>3, RecvIdle DEF RecvEmpty, RecvReturn, QueueInv, history
<1>4. ASSUME NEW op \in {"Recv", "Peek", "Drop"}, NEW space, RecvCall(op, space)
      PROVE  QueueInv'
  BY <1>4, RecvCallStep
<1>5. CASE RecvStep
  BY <1>5, RecvScanStep, RecvCopyStep, RecvAdvanceStep DEF RecvStep
<1>6. CASE CrashSender
  BY <1>6, SendIdle DEF CrashSender, SendReturn, history
<1>7. CASE CrashReceiver
  BY <1>7, RecvIdle DEF CrashReceiver, RecvReturn, QueueInv, history
<1>8. CASE Reset
  BY <1>8, ResetStep
<1>9. CASE UNCHANGED vars
  <2>1. RecvInv' /\ NoFatalError'
    BY <1>9, RecvFrame DEF vars, shared, rvars, QueueInv, NoFatalError, history
  <2> QED BY <1>9, <2>1, RecvMoves DEF vars, shared, svars, history
<1> QED BY <1>1, <1>2, <1>3, <1>4, <1>5, <1>6, <1>7, <1>8, <1>9 DEF Next

\* Once a size was cut, the history stays marked.
LEMMA CutStays ==
  ASSUME [Next]_vars
  PROVE  cut => cut'
<1> USE DEF shared, history, svars, rvars
<1>1. ASSUME NEW m \in Msg, SendCall(m) PROVE cut => cut'
  BY <1>1 DEF SendCall, SendOverflow, SendFull, SendFits
<1>2. CASE SendStep
  BY <1>2 DEF SendStep, SendInPlace, SendWrapFull, SendWrap, SendHold, SendHead,
              SendBody, SendBodyDies, SendPublish, SendSeq
<1>3. CASE RecvStep
  BY <1>3 DEF RecvStep, RecvScan, RecvCopy, RecvAdvance
<1>4. ASSUME NEW op, NEW space, RecvCall(op, space) PROVE cut => cut'
  BY <1>4 DEF RecvCall
<1>5. CASE RecvEmpty \/ CrashSender \/ CrashReceiver \/ Reset
  BY <1>5 DEF RecvEmpty, CrashSender, CrashReceiver, Reset
<1>6. CASE UNCHANGED vars
  BY <1>6 DEF vars
<1> QED BY <1>1, <1>2, <1>3, <1>4, <1>5, <1>6 DEF Next

\* The invariant of the ring, for every capacity, every set of messages of any
\* lengths and every interleaving of Send with Recv, Peek and Drop, crashes
\* and new attachments included: until Send finds room for a message whose
\* sizes the uint32_t sum or the uint16_t fields cut, the packs between head
\* and tail are whole and in order, Send writes to free bytes only, and
\* GetNextPack never returns kChanPackInvalid or kUnexpect.
THEOREM RingCorrect == Spec => []RingInv
<1>1. Init => RingInv
  BY TypeInit, RingInit DEF RingInv
<1>2. RingInv /\ [Next]_vars => RingInv'
  BY TypeStep, RingStep, CutStays DEF RingInv
<1> QED BY <1>1, <1>2, PTL DEF Spec

\* Neither a full ring looks empty to GetNextPack nor an empty one full.
THEOREM EmptyCorrect == Spec => []EmptyIsEmpty
<1>1. RingInv => EmptyIsEmpty
  <2> SUFFICES ASSUME RingInv, ~cut, q # <<>> PROVE head # tail
    BY DEF RingInv, QueueInv, ChainInv, EmptyIsEmpty
  <2>1. 1 \in 1 .. Len(q) /\ q[1].at = head
    BY DEF RingInv, TypeOK, QueueInv, ChainInv
  <2>2. /\ Key(head) < Key(PackEnd(q[1])) /\ Key(PackEnd(q[1])) <= Key(tail)
    BY <2>1 DEF RingInv, QueueInv, OrderInv
  <2>3. head \in Offset /\ tail \in Offset /\ PackEnd(q[1]) \in Offset
    BY <2>1, PackFacts DEF RingInv, QueueInv, TypeOK
  <2> QED BY <2>2, <2>3, SizeAssumption DEF Key, Offset
<1> QED BY <1>1, RingCorrect, PTL

\* The data a Peek pointer refers to stays what it was, while Send runs, until
\* the consumer gives it up or Send accepts a message whose sizes are cut.
THEOREM PeekCorrect == Spec => []PeekStable
<1>1. RingInv => PeekStable
  <2> SUFFICES ASSUME RingInv, ~cut, NEW p \in peek
               PROVE  /\ q # <<>>
                      /\ [k \in 0 .. p.len - 1 |-> buf[p.off + k]]
                           = Payload(q[1].msg)
    BY DEF PeekStable
  <2>1. /\ q # <<>> /\ 1 \in 1 .. Len(q)
        /\ p.off = q[1].off + PackHeadSize /\ p.len = MsgLen[q[1].msg]
    BY DEF RingInv, TypeOK, QueueInv, RecvInv
  <2>2. HasBody(q[1].off, q[1].msg)
    BY <2>1 DEF RingInv, QueueInv, PacksInv, PackOK
  <2> QED BY <2>1, <2>2 DEF HasBody, Payload
<1> QED BY <1>1, RingCorrect, PTL

-----------------------------------------------------------------------------
(* Steps that matter to a user of the queue *)

\* A step that neither publishes nor consumes a pack, counts it, empties the
\* queue nor is the death of the sender is not seen by a user.
Quiet ==
  UNCHANGED <<q, seq, out>> /\ (spc' = "seq" <=> spc = "seq")

\* These are all the steps of the sender and the receiver.
LEMMA QuietSteps ==
  ASSUME [Next]_vars
  PROVE  Quiet \/ SendPublish \/ SendSeq \/ RecvAdvance \/ CrashSender \/ Reset
<1> USE DEF Quiet, shared, history, svars, rvars
<1>1. ASSUME NEW m \in Msg, SendCall(m) PROVE Quiet
  BY <1>1 DEF SendCall, SendOverflow, SendFull, SendFits, SendReturn
<1>2. CASE SendInPlace \/ SendWrapFull \/ SendWrap
  BY <1>2 DEF SendInPlace, SendWrapFull, SendWrap, SendReturn
<1>3. CASE SendHold \/ SendHead \/ SendBody \/ SendBodyDies
  BY <1>3 DEF SendHold, SendHead, SendBody, SendBodyDies, SendReturn
<1>4. CASE RecvEmpty \/ CrashReceiver
  BY <1>4 DEF RecvEmpty, CrashReceiver
<1>5. ASSUME NEW op, NEW space, RecvCall(op, space) PROVE Quiet
  BY <1>5 DEF RecvCall
<1>6. CASE RecvScan \/ RecvCopy
  BY <1>6 DEF RecvScan, RecvCopy
<1>7. CASE UNCHANGED vars
  BY <1>7 DEF vars
<1> QED BY <1>1, <1>2, <1>3, <1>4, <1>5, <1>6, <1>7
        DEF Next, SendStep, RecvStep

\* What the history variable q is after the oldest pack has been consumed.
LEMMA TailOfQueue ==
  ASSUME TypeOK, q # <<>>, q' = Tail(q)
  PROVE  /\ Len(q) \in Nat \ {0} /\ Len(q') = Len(q) - 1
         /\ \A i \in 1 .. Len(q') : i + 1 \in 1 .. Len(q) /\ q'[i] = q[i + 1]
<1> DEFINE S == [at : Offset, off : Offset, msg : Msg, seq : 0 .. SeqMod - 1]
<1>1. q \in Seq(S)
  BY DEF TypeOK
<1>2. Len(q) \in Nat \ {0}
  BY <1>1, EmptySeq
<1> HIDE DEF S
<1>3. Len(q') = Len(q) - 1 /\ \A i \in 1 .. Len(q') : q'[i] = q[i + 1]
  BY <1>1, HeadTailProperties
<1> QED BY <1>2, <1>3

\* What it is after another one has been published.
LEMMA AppendToQueue ==
  ASSUME TypeOK, NEW p, q' = Append(q, p)
  PROVE  /\ Len(q) \in Nat /\ Len(q') = Len(q) + 1 /\ q'[Len(q) + 1] = p
         /\ \A i \in 1 .. Len(q) : q'[i] = q[i]
  BY DEF TypeOK

-----------------------------------------------------------------------------
(* Sequence numbers *)

\* SeqInv is inductive: publication takes the number, SendSeq moves on.
LEMMA SeqStep ==
  ASSUME TypeOK, SeqInv, [Next]_vars
  PROVE  SeqInv'
<1> SUFFICES ASSUME ~cut' PROVE SeqInv'
  BY DEF SeqInv
<1> DEFINE n == Len(q)
<1>7. ~cut
  BY CutStays
<1> USE <1>7
<1>1. CASE Quiet
  BY <1>1 DEF Quiet, SeqInv, SeqInOrder, NextSeq
<1>2. CASE SendPublish
  <2> DEFINE p == [at |-> tail, off |-> spos, msg |-> smsg, seq |-> seq]
  <2>1. spc = "publish" /\ spc' = "seq" /\ seq' = seq /\ q' = Append(q, p)
    BY <1>2 DEF SendPublish
  <2>2. /\ n \in Nat /\ Len(q') = n + 1 /\ q'[n + 1] = p
        /\ \A i \in 1 .. n : q'[i] = q[i]
    BY <2>1, AppendToQueue
  <2>3. p.seq = seq
    OBVIOUS
  <2>4. ASSUME NEW i \in 1 .. n
        PROVE  \/ q'[i + 1].seq = NextSeq(q'[i].seq)
               \/ Crashes /\ q'[i + 1].seq = q'[i].seq
    <3>1. CASE i = n
      <4>1. q # <<>>
        BY <2>2, <3>1
      <4>2. seq = NextSeq(q[n].seq) \/ (Crashes /\ seq = q[n].seq)
        BY <2>1, <4>1 DEF SeqInv
      <4> QED BY <2>2, <2>3, <3>1, <4>2
    <3>2. CASE i # n
      <4>1. i \in 1 .. n - 1 /\ i + 1 \in 1 .. n
        BY <2>2, <3>2
      <4> QED BY <2>2, <4>1 DEF SeqInv, SeqInOrder
    <3> QED BY <3>1, <3>2
  <2>5. SeqInOrder'
    BY <2>2, <2>4 DEF SeqInOrder, NextSeq
  <2> HIDE DEF p
  <2> QED BY <2>1, <2>2, <2>3, <2>5 DEF SeqInv
<1>3. CASE SendSeq
  <2>1. spc = "seq" /\ spc' = "idle" /\ q' = q /\ seq' = NextSeq(seq)
    BY <1>3 DEF SendSeq, SendReturn, NextSeq, history
  <2> QED BY <2>1 DEF SeqInv, SeqInOrder, NextSeq
<1>4. CASE RecvAdvance
  <2>1. spc' = spc /\ seq' = seq /\ q' = IF q = <<>> THEN q ELSE Tail(q)
    BY <1>4 DEF RecvAdvance, svars
  <2>2. CASE q = <<>>
    BY <2>1, <2>2 DEF SeqInv, SeqInOrder, NextSeq
  <2>3. CASE q # <<>>
    <3>1. /\ n \in Nat \ {0} /\ Len(q') = n - 1
          /\ \A i \in 1 .. Len(q') : i + 1 \in 1 .. n /\ q'[i] = q[i + 1]
      BY <2>1, <2>3, TailOfQueue
    <3>2. ASSUME NEW i \in 1 .. Len(q') - 1
          PROVE  \/ q'[i + 1].seq = NextSeq(q'[i].seq)
                 \/ Crashes /\ q'[i + 1].seq = q'[i].seq
      <4>1. i \in 1 .. Len(q') /\ i + 1 \in 1 .. Len(q') /\ i + 1 \in 1 .. n - 1
        BY <3>1
      <4>2. q'[i] = q[i + 1] /\ q'[i + 1] = q[i + 1 + 1]
        BY <3>1, <4>1
      <4> QED BY <4>1, <4>2 DEF SeqInv, SeqInOrder
    <3>3. SeqInOrder'
      BY <3>2 DEF SeqInOrder, NextSeq
    <3>4. q' # <<>> => q'[Len(q')] = q[n]
      <4>1. q' # <<>> => Len(q') \in 1 .. Len(q')
        <5>1. q' \in Seq([at : Offset, off : Offset, msg : Msg,
                          seq : 0 .. SeqMod - 1])
          BY <2>1, <2>3 DEF TypeOK
        <5> QED BY <5>1, EmptySeq
      <4> QED BY <3>1, <4>1
    <3> QED BY <2>1, <2>3, <3>3, <3>4 DEF SeqInv, NextSeq
  <2> QED BY <2>2, <2>3
<1>5. CASE CrashSender
  <2>1. Crashes /\ spc' = "idle" /\ q' = q /\ seq' = seq
    BY <1>5 DEF CrashSender, SendReturn, shared, history
  <2> QED BY <2>1 DEF SeqInv, SeqInOrder, NextSeq
<1>6. CASE Reset
  BY <1>6 DEF Reset, SeqInv, SeqInOrder
<1> QED BY <1>1, <1>2, <1>3, <1>4, <1>5, <1>6, QuietSteps

\* Packs carry consecutive numbers (modulo 2^32) in the order they were sent;
\* only the death of a sender between header_->tail = cur_tail and
\* header_->seq++ makes one repeat its predecessor's.
THEOREM SeqCorrect == Spec => []SeqInv
<1>1. Init => SeqInv
  BY DEF Init, SeqInv, SeqInOrder
<1>2. TypeOK /\ SeqInv /\ [Next]_vars => SeqInv'
  BY SeqStep
<1> QED BY <1>1, <1>2, TypeCorrect, PTL DEF Spec

-----------------------------------------------------------------------------
(* The ring implements the abstract queue *)

\* The refinement mapping.
Payloads == [i \in 1 .. Len(q) |-> Payload(q[i].msg)]

\* It yields a sequence of payloads ...
LEMMA PayloadsSeq ==
  ASSUME TypeOK
  PROVE  /\ Payloads \in Seq({Payload(m) : m \in Msg})
         /\ Len(Payloads) = Len(q)
         /\ \A i \in 1 .. Len(q) : Payloads[i] = Payload(q[i].msg)
<1>1. Len(q) \in Nat /\ \A i \in 1 .. Len(q) : q[i].msg \in Msg
  <2> DEFINE S == [at : Offset, off : Offset, msg : Msg, seq : 0 .. SeqMod - 1]
  <2>1. q \in Seq(S)
    BY DEF TypeOK
  <2>2. \A i \in 1 .. Len(q) : q[i] \in S
    BY <2>1, ElementOfSeq
  <2> QED BY <2>1, <2>2
<1> QED BY <1>1 DEF Payloads

\* ... in the next state as well.
LEMMA PayloadsPrimed ==
  ASSUME TypeOK'
  PROVE  /\ Payloads' \in Seq({Payload(m) : m \in Msg})
         /\ Len(Payloads') = Len(q')
         /\ \A i \in 1 .. Len(q') : Payloads'[i] = Payload(q'[i].msg)
<1>1. Payloads' = [i \in 1 .. Len(q') |-> Payload(q'[i].msg)]
  BY DEF Payloads, Payload, BodyByte
<1>2. Len(q') \in Nat /\ \A i \in 1 .. Len(q') : q'[i].msg \in Msg
  <2> DEFINE S == [at : Offset, off : Offset, msg : Msg, seq : 0 .. SeqMod - 1]
  <2>1. q' \in Seq(S)
    BY DEF TypeOK
  <2>2. \A i \in 1 .. Len(q') : q'[i] \in S
    BY <2>1, ElementOfSeq
  <2> QED BY <2>1, <2>2
<1> QED BY <1>1, <1>2

\* header_->tail = cur_tail is the abstract Send.
LEMMA PublishIsSend ==
  ASSUME TypeOK, TypeOK', ~cut, SendPublish
  PROVE  /\ Payload(smsg) \in {Payload(m) : m \in Msg}
         /\ Payloads' = Append(Payloads, Payload(smsg)) /\ out' = out
<1> DEFINE p == [at |-> tail, off |-> spos, msg |-> smsg, seq |-> seq]
           e == Payload(smsg)  P == {Payload(m) : m \in Msg}
<1>1. q' = Append(q, p) /\ out' = out
  BY DEF SendPublish, rvars
<1>2. /\ Len(q) \in Nat /\ Len(q') = Len(q) + 1 /\ q'[Len(q) + 1] = p
      /\ \A i \in 1 .. Len(q) : q'[i] = q[i]
  BY <1>1, AppendToQueue
<1>3. p.msg = smsg /\ e \in P
  BY DEF TypeOK
<1>4. /\ Payloads' \in Seq(P) /\ Len(Payloads') = Len(q')
      /\ \A i \in 1 .. Len(q') : Payloads'[i] = Payload(q'[i].msg)
  BY PayloadsPrimed
<1>5. /\ Payloads \in Seq(P) /\ Len(Payloads) = Len(q)
      /\ \A i \in 1 .. Len(q) : Payloads[i] = Payload(q[i].msg)
  BY PayloadsSeq
<1> HIDE DEF P, p, e
<1>6. /\ Append(Payloads, e) \in Seq(P) /\ Len(Append(Payloads, e)) = Len(q) + 1
      /\ Append(Payloads, e)[Len(q) + 1] = e
      /\ \A i \in 1 .. Len(q) : Append(Payloads, e)[i] = Payloads[i]
  BY <1>3, <1>5
<1>7. ASSUME NEW i \in 1 .. Len(q')
      PROVE  Payloads'[i] = Append(Payloads, e)[i]
  <2>1. CASE i = Len(q) + 1
    BY <1>2, <1>3, <1>4, <1>6, <2>1 DEF e
  <2>2. CASE i # Len(q) + 1
    <3>1. i \in 1 .. Len(q)
      BY <1>2, <2>2
    <3> QED BY <1>2, <1>4, <1>5, <1>6, <3>1
  <2> QED BY <2>1, <2>2
<1>8. Payloads' = Append(Payloads, e)
  BY <1>2, <1>4, <1>6, <1>7, SeqEqual
<1> QED BY <1>1, <1>3, <1>8 DEF e, P

\* header_->head = cur_head is the abstract Recv or Drop.
LEMMA AdvanceIsTake ==
  ASSUME TypeOK, TypeOK', QueueInv, RecvAdvance
  PROVE  /\ Payloads # <<>> /\ Payloads' = Tail(Payloads)
         /\ out' = IF rop = "Recv" THEN Payloads[1] ELSE out
<1> DEFINE P == {Payload(m) : m \in Msg}
<1>1. /\ q # <<>> /\ q' = Tail(q)
      /\ out' = IF rop = "Recv" THEN Payload(q[1].msg) ELSE out
  <2>1. q # <<>> /\ (rop = "Recv" => rdata = Payload(q[1].msg))
    BY DEF RecvAdvance, QueueInv, RecvInv
  <2> QED BY <2>1 DEF RecvAdvance
<1>2. /\ Len(q) \in Nat \ {0} /\ Len(q') = Len(q) - 1
      /\ \A i \in 1 .. Len(q') : i + 1 \in 1 .. Len(q) /\ q'[i] = q[i + 1]
  BY <1>1, TailOfQueue
<1>3. /\ Payloads \in Seq(P) /\ Len(Payloads) = Len(q)
      /\ \A i \in 1 .. Len(q) : Payloads[i] = Payload(q[i].msg)
  BY PayloadsSeq
<1>4. /\ Payloads' \in Seq(P) /\ Len(Payloads') = Len(q')
      /\ \A i \in 1 .. Len(q') : Payloads'[i] = Payload(q'[i].msg)
  BY PayloadsPrimed
<1> HIDE DEF P
<1>5. Payloads # <<>> /\ Payloads[1] = Payload(q[1].msg)
  BY <1>2, <1>3
<1>6. /\ Tail(Payloads) \in Seq(P) /\ Len(Tail(Payloads)) = Len(q')
      /\ \A i \in 1 .. Len(q') : Tail(Payloads)[i] = Payloads[i + 1]
  BY <1>2, <1>3, <1>5, HeadTailProperties
<1>7. ASSUME NEW i \in 1 .. Len(q') PROVE Payloads'[i] = Tail(Payloads)[i]
  BY <1>2, <1>3, <1>4, <1>6
<1>8. Payloads' = Tail(Payloads)
  BY <1>4, <1>6, <1>7, SeqEqual
<1> QED BY <1>1, <1>5, <1>8

\* Every step of the ring is a step of the abstract queue, or none.
LEMMA FifoStep ==
  ASSUME TypeOK, TypeOK', cut \/ QueueInv, [Next]_vars
  PROVE  [Channel!Next]_(Channel!vars)
<1> USE DEF Payloads
<1>1. CASE cut'
  BY <1>1 DEF Channel!Next
<1>2. CASE ~cut'
  <2> USE <1>2
  <2>1. ~cut /\ cut' = cut /\ QueueInv
    BY CutStays DEF TypeOK
  <2>2. ASSUME q' = q, out' = out PROVE UNCHANGED Channel!vars
    BY <2>1, <2>2 DEF Channel!vars, Payload, BodyByte
  <2>3. CASE Quiet \/ SendSeq \/ CrashSender
    BY <2>2, <2>3 DEF Quiet, SendSeq, CrashSender, shared, rvars, history
  <2>4. CASE SendPublish
    BY <2>1, <2>4, PublishIsSend DEF Channel!Next, Channel!Send
  <2>5. CASE RecvAdvance
    BY <2>1, <2>5, AdvanceIsTake DEF Channel!Next, Channel!Recv, Channel!Drop
  <2>6. CASE Reset
    <3>1. q' = <<>> /\ out' = out
      BY <2>6 DEF Reset, rvars
    <3>2. Payloads' = <<>>
      BY <3>1
    <3> QED BY <2>1, <3>1, <3>2 DEF Channel!Next, Channel!Reset
  <2> QED BY <2>3, <2>4, <2>5, <2>6, QuietSteps
<1> QED BY <1>1, <1>2

\* The byte ring implements the abstract queue: what Recv hands out is, byte
\* for byte, the oldest payload sent, and no interleaving of Send with Recv,
\* Peek and Drop and no crash loses, repeats or reorders one, until a payload
\* whose sizes are cut gets past the tests of Send.
THEOREM FifoCorrect == Spec => ImplementsFifo
<1>1. Init => Channel!Init
  BY DEF Init, Channel!Init
<1>2. RingInv /\ RingInv' /\ [Next]_vars => [Channel!Next]_(Channel!vars)
  BY FifoStep DEF RingInv
<1> QED BY <1>1, <1>2, RingCorrect, PTL DEF Spec, ImplementsFifo, Channel!Spec
=============================================================================
