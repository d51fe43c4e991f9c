--------------------------- MODULE UnlockQueueInv ---------------------------
(***************************************************************************)
(* Properties of the lock-free queue and the inductive invariant they      *)
(* follow from.                                                            *)
(***************************************************************************)
EXTENDS UnlockQueue

\* What the 48 bytes of a ChannelPackHead may say, and what any bytes of the
\* ring may come from.
ChannelPackHead ==
  [cmd : {"transfer", "placeholder", "other"}, body_len : Nat,
   align_body_len : Nat, seq : Nat]
Content ==
  ChannelPackHead \union [cmd : {"body"}, msg : Msg]
    \union {[cmd |-> "raw"]}

\* Type correctness: positions stay inside the ring, whatever is stored in
\* it, and each side is at a known place in its code.
TypeOK ==
  /\ head \in Offset /\ tail \in Offset /\ seq \in 0 .. SeqMod - 1
  /\ buf \in [Offset -> Content \X Nat]
  /\ q \in Seq([at : Offset, off : Offset, msg : Msg, seq : 0 .. SeqMod - 1])
  /\ spc \in {"idle", "place", "hold", "head", "body", "publish", "seq"}
  /\ smsg \in Msg /\ spos \in Offset /\ cut \in BOOLEAN
  /\ sret \in {"none", "kOk", "kUnexpect", "kChanFull"}
  /\ rpc \in {"idle", "scan", "copy", "advance"}
  /\ rop \in {"none", "Recv", "Peek", "Drop"} /\ rspace \in Nat
  /\ rtail \in Offset /\ rhead \in Offset /\ rpack \in ChannelPackHead
  /\ rret \in {"none", "kOk", "kChanEmpty", "kChanRecvSpaceLimit",
               "kChanPackInvalid", "kUnexpect"}

-----------------------------------------------------------------------------
(* What the users of the queue rely on, for as long as no size was cut:    *)
(* Send tests neither that kPackHeadSize + len wraps nor that the length   *)
(* fields can hold the lengths, and what it then writes is no pack.        *)

\* GetNextPack never meets bytes that are not a pack head: the receiver
\* never returns the fatal kChanPackInvalid nor the "cannot happen"
\* kUnexpect, however its steps interleave with Send and whoever crashes.
NoFatalError == rret \notin {"kChanPackInvalid", "kUnexpect"}

\* head = tail means "empty" to GetNextPack, and Send leaves one byte free
\* so that a full ring never looks empty (nor an empty one full).
EmptyIsEmpty == cut \/ ((head = tail) <=> (q = <<>>))

\* The bytes a Peek pointer refers to are those of the oldest message for as
\* long as the consumer may use it: Send, which runs concurrently, does not
\* write to them before Drop or Recv has advanced header_->head.
PeekStable ==
  cut \/ \A p \in peek :
    /\ q # <<>>
    /\ [k \in 0 .. p.len - 1 |-> buf[p.off + k]] = Payload(q[1].msg)

\* Packs in the ring carry consecutive sequence numbers; a sender that dies
\* between header_->tail = cur_tail and header_->seq++ makes the next pack
\* repeat a number, never skip one.
NextSeq(s) == (s + 1) % SeqMod
SeqInOrder ==
  \A i \in 1 .. Len(q) - 1 :
    \/ q[i + 1].seq = NextSeq(q[i].seq)
    \/ Crashes /\ q[i + 1].seq = q[i].seq

\* The queue implements the abstract FIFO: a published pack is a sent
\* payload, and what Recv copies out of the ring is the oldest one.
Channel == INSTANCE Fifo WITH
  Item <- {Payload(m) : m \in Msg},
  queue <- [i \in 1 .. Len(q) |-> Payload(q[i].msg)],
  broken <- cut
ImplementsFifo == Channel!Spec

-----------------------------------------------------------------------------
(* The inductive invariant *)

\* A message that passed the sanity check and whose sizes were kept.
Proper(m) == ~Overflows(m) /\ SizesKept(m)

\* Positions in the order the receiver will reach them.
Key(x) == IF x >= head THEN x ELSE x + Capacity

PackEnd(p) ==
  LET e == p.off + AlignPackSize(p.msg) IN IF e = Capacity THEN 0 ELSE e

HasHead(pos, h) == \A k \in 0 .. PackHeadSize - 1 : buf[pos + k] = <<h, k>>
HasBody(pos, m) ==
  \A k \in 0 .. MsgLen[m] - 1 : buf[pos + PackHeadSize + k] = BodyByte(m, k)

\* The receiver standing at pos will skip to offset 0.
Skipped(pos) == Capacity - pos < PackHeadSize \/ HasHead(pos, PlaceHoldHead)

\* Pack p lies in one piece in the ring, whole, at the place the receiver
\* coming from p.at will look for it.
PackOK(p) ==
  /\ Proper(p.msg)
  /\ p.off + AlignPackSize(p.msg) <= Capacity
  /\ HasHead(p.off, PackHead(p.msg, p.seq)) /\ HasBody(p.off, p.msg)
  /\ \/ p.off = p.at
     \/ /\ p.off = 0 /\ head <= p.at /\ AlignPackSize(p.msg) < head
        /\ Skipped(p.at)

PacksInv == \A i \in 1 .. Len(q) : PackOK(q[i])

\* The packs follow each other from head to tail ...
ChainInv ==
  /\ q = <<>> => head = tail
  /\ q # <<>> => q[1].at = head /\ PackEnd(q[Len(q)]) = tail
  /\ \A i \in 1 .. Len(q) - 1 : PackEnd(q[i]) = q[i + 1].at

\* ... in reading order, without overlap.
OrderInv ==
  /\ \A i \in 1 .. Len(q) :
       Key(q[i].at) < Key(PackEnd(q[i])) /\ Key(PackEnd(q[i])) <= Key(tail)
  /\ \A i, j \in 1 .. Len(q) :
       i < j => Key(PackEnd(q[i])) <= Key(q[j].at)

\* The bytes Send is going to write, or has written, are free; head may
\* have advanced since Send looked at it.
SendInv ==
  LET size == AlignPackSize(smsg) IN
  /\ spc \in {"place", "hold", "head", "body", "publish"} => Proper(smsg)
  /\ spc = "place" =>
       IF head > tail THEN tail + size < head
       ELSE size <= Capacity - tail - 1 + head
  /\ spc = "hold" =>
       /\ spos = 0 /\ head <= tail /\ size < head
       /\ tail + PackHeadSize <= Capacity
  /\ spc \in {"head", "body", "publish"} =>
       \/ /\ spos = tail /\ tail + size <= Capacity
          /\ head > tail => tail + size < head
          /\ tail + size = Capacity => 0 < head
       \/ /\ spos = 0 /\ head <= tail /\ size < head
          /\ Skipped(tail)
  /\ spc \in {"body", "publish"} => HasHead(spos, PackHead(smsg, seq))
  /\ spc = "publish" => HasBody(spos, smsg)

\* The receiver works on the oldest pack; the tail it read may be old, but
\* not older than that pack.
RecvInv ==
  /\ rpc # "idle" =>
       /\ q # <<>>
       /\ Key(PackEnd(q[1])) <= Key(rtail) /\ Key(rtail) <= Key(tail)
       /\ rop # "none"
  /\ rpc \in {"copy", "advance"} =>
       rhead = q[1].off /\ rpack = PackHead(q[1].msg, q[1].seq)
  /\ rpc = "advance" /\ rop = "Recv" => rdata = Payload(q[1].msg)
  /\ \A p \in peek :
       /\ q # <<>>
       /\ p = [off |-> q[1].off + PackHeadSize, len |-> MsgLen[q[1].msg]]

QueueInv ==
  PacksInv /\ ChainInv /\ OrderInv /\ SendInv /\ RecvInv /\ NoFatalError

RingInv == TypeOK /\ (cut \/ QueueInv)

\* The number the next pack will carry follows the one the last pack has.
SeqInv ==
  cut \/
    /\ SeqInOrder
    /\ q # <<>> =>
         LET last == q[Len(q)].seq IN
         IF spc = "seq" THEN seq = last
         ELSE seq = NextSeq(last) \/ (Crashes /\ seq = last)
=============================================================================
