---------------------------- MODULE UnlockQueue ----------------------------
(***************************************************************************)
(* The one-way lock-free queue of src/yarf/channel/unlock_queue.cc: a byte *)
(* ring in (shared) memory with one sender, CSendUnlockQueue, and one      *)
(* receiver, CRecvUnlockQueue.  The two sides share the queue head (head,  *)
(* tail, seq) and the buffer and take no lock, so every access one side    *)
(* makes to what the other side writes is a step of its own here.          *)
(*                                                                         *)
(* The queue outlives its users: a process that dies and attaches again    *)
(* (CUnlockQueue::Init, CreateUnlockQueue with reset = false) finds the    *)
(* head and the buffer as it left them.  CrashSender and CrashReceiver may *)
(* strike between any two steps and lose only local variables.             *)
(*                                                                         *)
(* Memory model: the build is -O0 for x86 (CMakeLists.txt), which keeps    *)
(* the program order of the stores of one thread and of its loads.         *)
(***************************************************************************)
EXTENDS Integers, Sequences

CONSTANTS
  Capacity,      \* header_->capacity: bytes of the ring
  PackHeadSize,  \* kPackHeadSize = sizeof(ChannelPackHead), 48 in the build
  AlignLevel,    \* kChannelAlignLevel, 8 in the build
  Word,          \* 2^32: modulus of uint32_t arithmetic on sizes
  Half,          \* 2^16: modulus of the uint16_t length fields of a pack head
  SeqMod,        \* 2^32: modulus of the uint32_t sequence number
  Msg,           \* messages a caller may send
  MsgLen,        \* MsgLen[m]: bytes of message m, the len of Send
  RecvSpaces,    \* buffer sizes a caller may pass to Recv
  Crashes        \* TRUE iff the two processes may die and attach again

\* What CSendUnlockQueue::Init and CRecvUnlockQueue::Init enforce (a queue
\* no larger than a pack head is refused with kArg).
ASSUME SizeAssumption ==
  /\ Capacity \in Nat /\ PackHeadSize \in Nat \ {0}
  /\ PackHeadSize < Capacity
  /\ AlignLevel \in {2, 4, 8}
  /\ Word \in Nat /\ 2 * Capacity <= Word
  /\ Half \in Nat \ {0} /\ SeqMod \in Nat \ {0}
  /\ Crashes \in BOOLEAN

\* Lengths are values of uint32_t: any value.
ASSUME MsgAssumption ==
  /\ MsgLen \in [Msg -> 0 .. Word - 1]
  /\ RecvSpaces \subseteq 0 .. Word - 1

VARIABLES
  head, tail, seq, \* UnlockQueueHead, in shared memory
  buf,             \* the bytes of the ring, in shared memory
  q,               \* history: the packs published and not yet consumed, as
                   \* long as no size was cut
  cut,             \* history: TRUE once Send found room for a message whose
                   \* sizes the types of the code cut
  spc, smsg, spos, sret,
                   \* Send: position in the code, message, cur_tail, result
  rpc, rop, rspace, rtail, rhead, rpack, rdata, rret,
                   \* Recv/Peek/Drop: position, call, locals, result
  peek,            \* the pointer handed out by Peek, if still in use
  out              \* bytes the last successful Recv handed to its caller

svars == <<spc, smsg, spos, sret>>
rvars == <<rpc, rop, rspace, rtail, rhead, rpack, rdata, rret, peek, out>>
shared == <<head, tail, seq, buf>>
history == <<q, cut>>
vars == <<shared, history, svars, rvars>>

Offset == 0 .. Capacity - 1

-----------------------------------------------------------------------------
(* Bytes and pack heads *)

\* A byte of the ring is the k-th byte of what was copied there.
RawByte == <<[cmd |-> "raw"], 0>>

PlaceHoldHead ==
  [cmd |-> "placeholder", body_len |-> 0, align_body_len |-> 0, seq |-> 0]

\* memory::GetAlignmentSize(size, 8): add, then clear the low bits.
GetAlignmentSize(size) ==
  LET s == (size + AlignLevel - 1) % Word IN s - (s % AlignLevel)

\* The sum is one of uint32_t and may wrap.
PackSize(m) == (PackHeadSize + MsgLen[m]) % Word
AlignPackSize(m) == GetAlignmentSize(PackSize(m))

\* The sizes of the pack are what they stand for: the sum did not wrap, and
\* the length fields of a pack head, which are uint16_t, can hold the sizes.
SizesKept(m) ==
  /\ PackHeadSize + MsgLen[m] < Word
  /\ AlignPackSize(m) - PackHeadSize < Half

\* The head Send fills in; both length fields are uint16_t.
PackHead(m, s) ==
  [cmd |-> "transfer",
   body_len |-> MsgLen[m] % Half,
   align_body_len |-> (AlignPackSize(m) - PackHeadSize) % Half,
   seq |-> s]

BodyByte(m, k) == <<[cmd |-> "body", msg |-> m], k>>

\* The bytes of message m, as Recv must hand them to its caller.
Payload(m) == [k \in 0 .. MsgLen[m] - 1 |-> BodyByte(m, k)]

\* memcpy of a pack head to buff_ + pos, of a body behind a head at pos.
\* What goes beyond the end of the ring is not modelled.
CopyHead(pos, h) ==
  [x \in Offset |-> IF pos <= x /\ x < pos + PackHeadSize
                    THEN <<h, x - pos>> ELSE buf[x]]
\* Mutant of CopyBody: the last byte of the body is not copied.
CopyBodyShort(pos, m) ==
  LET start == pos + PackHeadSize IN
  [x \in Offset |-> IF start <= x /\ x < start + MsgLen[m] - 1
                    THEN BodyByte(m, x - start) ELSE buf[x]]
CopyBody(pos, m) ==
  LET start == pos + PackHeadSize IN
  [x \in Offset |-> IF start <= x /\ x < start + MsgLen[m]
                    THEN BodyByte(m, x - start) ELSE buf[x]]

\* What a cast of buff_ + pos to ChannelPackHead* may yield: the head that
\* was copied there, or anything when those bytes are not one.
IsHead(pos) ==
  /\ pos + PackHeadSize <= Capacity
  /\ buf[pos][1].cmd \in {"transfer", "placeholder"}
  /\ \A k \in 0 .. PackHeadSize - 1 : buf[pos + k] = <<buf[pos][1], k>>
GarbageHead ==
  [cmd : {"transfer", "placeholder", "other"}, body_len : 0 .. Half - 1,
   align_body_len : 0 .. Half - 1, seq : {0}]
HeadAt(pos) == IF IsHead(pos) THEN {buf[pos][1]} ELSE GarbageHead

-----------------------------------------------------------------------------
Init ==
  /\ head = 0 /\ tail = 0 /\ seq = 0
  /\ buf = [x \in Offset |-> RawByte]
  /\ q = <<>> /\ cut = FALSE
  /\ spc = "idle" /\ smsg \in Msg /\ spos = 0 /\ sret = "none"
  /\ rpc = "idle" /\ rop = "none" /\ rspace = 0 /\ rtail = 0 /\ rhead = 0
  /\ rpack = PlaceHoldHead /\ rdata = <<>> /\ rret = "none"
  /\ peek = {} /\ out = <<>>

-----------------------------------------------------------------------------
(* CSendUnlockQueue::Send *)

\* Mutant of FreeSize: the modulus by the capacity is forgotten.
FreeSizeUnwrapped == (Capacity - tail - 1 + head) % Word

\* free_size: header_->head is read here, and again as cur_head later.
FreeSize == ((Capacity - tail - 1 + head) % Word) % Capacity

\* The sanity check on the computed size; it catches uint32_t overflow.
Overflows(m) ==
  AlignPackSize(m) % AlignLevel # 0 \/ AlignPackSize(m) < PackSize(m)

SendReturn(code) == spc' = "idle" /\ spos' = 0 /\ sret' = code

\* The size computation overflowed: kUnexpect.
SendOverflow(m) ==
  /\ spc = "idle"
  /\ Overflows(m)
  /\ smsg' = m /\ SendReturn("kUnexpect")
  /\ UNCHANGED <<shared, history, rvars>>

\* Not enough free bytes: kChanFull.
SendFull(m) ==
  /\ spc = "idle"
  /\ ~Overflows(m)
  /\ FreeSize < AlignPackSize(m)
  /\ smsg' = m /\ SendReturn("kChanFull")
  /\ UNCHANGED <<shared, history, rvars>>

\* Enough free bytes, not necessarily in one piece.
SendFits(m) ==
  /\ spc = "idle"
  /\ ~Overflows(m)
  /\ FreeSize >= AlignPackSize(m)
  /\ smsg' = m /\ spc' = "place" /\ sret' = "none" /\ UNCHANGED spos
  /\ cut' = (cut \/ ~SizesKept(m))
  /\ UNCHANGED <<shared, q, rvars>>

\* The free bytes are split by the end of the ring and the piece at the
\* tail is too short.
NeedsWrap == tail >= head /\ Capacity - tail < AlignPackSize(smsg)

SendInPlace ==
  /\ spc = "place"
  /\ ~NeedsWrap
  /\ spc' = "head" /\ spos' = tail
  /\ UNCHANGED <<smsg, sret, shared, history, rvars>>

\* The piece at the front is too short as well: kChanFull.
SendWrapFull ==
  /\ spc = "place"
  /\ NeedsWrap
  /\ head <= AlignPackSize(smsg)
  /\ SendReturn("kChanFull")
  /\ UNCHANGED <<smsg, shared, history, rvars>>

\* Mutant of SendWrap: the pack may fill the front up to head itself.
SendWrapToHead ==
  /\ spc = "place"
  /\ NeedsWrap
  /\ head >= AlignPackSize(smsg)
  /\ spc' = IF Capacity - tail < PackHeadSize THEN "head" ELSE "hold"
  /\ spos' = 0
  /\ UNCHANGED <<smsg, sret, shared, history, rvars>>

\* Mutant of SendWrap: the skipped bytes are never marked.
SendWrapUnmarked ==
  /\ spc = "place"
  /\ NeedsWrap
  /\ head > AlignPackSize(smsg)
  /\ spc' = "head" /\ spos' = 0
  /\ UNCHANGED <<smsg, sret, shared, history, rvars>>

\* cur_tail = 0; a place holder marks the skipped bytes if it fits there.
SendWrap ==
  /\ spc = "place"
  /\ NeedsWrap
  /\ head > AlignPackSize(smsg)
  /\ spc' = IF Capacity - tail < PackHeadSize THEN "head" ELSE "hold"
  /\ spos' = 0
  /\ UNCHANGED <<smsg, sret, shared, history, rvars>>

SendHold ==
  /\ spc = "hold"
  /\ buf' = CopyHead(tail, PlaceHoldHead)
  /\ spc' = "head"
  /\ UNCHANGED <<smsg, spos, sret, head, tail, seq, history, rvars>>

SendHead ==
  /\ spc = "head"
  /\ buf' = CopyHead(spos, PackHead(smsg, seq))
  /\ spc' = "body"
  /\ UNCHANGED <<smsg, spos, sret, head, tail, seq, history, rvars>>

SendBody ==
  /\ spc = "body"
  /\ buf' = CopyBody(spos, smsg)
  /\ spc' = "publish"
  /\ UNCHANGED <<smsg, spos, sret, head, tail, seq, history, rvars>>

\* A body longer than the room Send found runs over the end of the ring, and
\* the process may end in the middle of the copy.
SendBodyDies ==
  /\ spc = "body"
  /\ spos + PackHeadSize + MsgLen[smsg] > Capacity
  /\ buf' = CopyBody(spos, smsg)
  /\ SendReturn("none")
  /\ UNCHANGED <<smsg, head, tail, seq, history, rvars>>

\* header_->tail = cur_tail: the receiver may see the pack from here on.
SendPublish ==
  /\ spc = "publish"
  /\ tail' = (spos + AlignPackSize(smsg)) % Capacity
  /\ q' = IF cut THEN q
          ELSE Append(q, [at |-> tail, off |-> spos, msg |-> smsg, seq |-> seq])
  /\ spc' = "seq"
  /\ UNCHANGED <<smsg, spos, sret, head, seq, buf, cut, rvars>>

\* Mutants of SendSeq: the number is not increased, or increased twice.
SendSeqKept ==
  /\ spc = "seq"
  /\ SendReturn("kOk")
  /\ UNCHANGED <<smsg, shared, history, rvars>>
SendSeqTwice ==
  /\ spc = "seq"
  /\ seq' = (seq + 2) % SeqMod
  /\ SendReturn("kOk")
  /\ UNCHANGED <<smsg, head, tail, buf, history, rvars>>

SendSeq ==
  /\ spc = "seq"
  /\ seq' = (seq + 1) % SeqMod
  /\ SendReturn("kOk")
  /\ UNCHANGED <<smsg, head, tail, buf, history, rvars>>

SendCall(m) == SendOverflow(m) \/ SendFull(m) \/ SendFits(m)
SendStep ==
  \/ SendInPlace \/ SendWrapFull \/ SendWrap \/ SendHold
  \/ SendHead \/ SendBody \/ SendBodyDies \/ SendPublish \/ SendSeq

-----------------------------------------------------------------------------
(* CRecvUnlockQueue::Recv, Peek, Drop *)

RecvReturn(code) ==
  /\ rpc' = "idle" /\ rret' = code
  /\ rop' = "none" /\ rspace' = 0 /\ rtail' = 0 /\ rhead' = 0
  /\ rpack' = PlaceHoldHead /\ rdata' = <<>>

\* GetNextPack finds head and tail equal: kChanEmpty.
RecvEmpty ==
  /\ rpc = "idle"
  /\ tail = head
  /\ RecvReturn("kChanEmpty")
  /\ UNCHANGED <<shared, history, svars, peek, out>>

\* GetNextPack reads header_->tail once, into cur_tail.
RecvCall(op, space) ==
  /\ rpc = "idle"
  /\ tail # head
  /\ rpc' = "scan" /\ rop' = op /\ rspace' = space /\ rtail' = tail
  /\ rret' = "none"
  /\ UNCHANGED <<rhead, rpack, rdata, peek, out, shared, history, svars>>

TailAllocSize == Capacity - head
AllocSize(from) == ((rtail + Capacity - from) % Word) % Capacity

\* Whether the bytes up to the end of the ring are skipped.
Skips ==
  IF TailAllocSize < PackHeadSize THEN {TRUE}
  ELSE {h.cmd = "placeholder" : h \in HeadAt(head)}

\* Mutant of NextPackCode: a pack that reaches up to the tail is refused.
NextPackCodeStrict(skip, cur, pack) ==
  IF skip /\ AllocSize(head) < TailAllocSize THEN "kChanPackInvalid"
  ELSE IF pack.cmd # "transfer" THEN "kUnexpect"
  ELSE IF PackHeadSize + pack.align_body_len >= AllocSize(cur)
       THEN "kChanPackInvalid"
  ELSE "kOk"

\* The rest of GetNextPack: skip to offset 0 or not, take the pack head
\* found there and check it.
NextPackCode(skip, cur, pack) ==
  IF skip /\ AllocSize(head) < TailAllocSize THEN "kChanPackInvalid"
  ELSE IF pack.cmd # "transfer" THEN "kUnexpect"
  ELSE IF PackHeadSize + pack.align_body_len > AllocSize(cur)
       THEN "kChanPackInvalid"
  ELSE "kOk"

\* GetNextPack reports an error, or Recv finds the buffer of its caller too
\* small; either way nothing is consumed.
ScanFails(code, pack) ==
  \/ /\ code # "kOk"
     /\ RecvReturn(code)
  \/ /\ code = "kOk" /\ rop = "Recv" /\ rspace < pack.body_len
     /\ RecvReturn("kChanRecvSpaceLimit")

ScanPeeks(code, cur, pack) ==
  /\ code = "kOk" /\ rop = "Peek"
  /\ RecvReturn("kOk")
  /\ peek' = {[off |-> cur + PackHeadSize, len |-> pack.body_len]}

ScanTakes(code, cur, pack) ==
  /\ code = "kOk"
  /\ rop = "Drop" \/ (rop = "Recv" /\ rspace >= pack.body_len)
  /\ rpc' = IF rop = "Drop" THEN "advance" ELSE "copy"
  /\ rhead' = cur /\ rpack' = pack
  /\ UNCHANGED <<rop, rspace, rtail, rdata, rret>>

RecvScan ==
  /\ rpc = "scan"
  /\ \E skip \in Skips :
       LET cur == IF skip THEN 0 ELSE head IN
       \E pack \in HeadAt(cur) :
         LET code == NextPackCode(skip, cur, pack) IN
         \/ ScanFails(code, pack) /\ UNCHANGED peek
         \/ ScanPeeks(code, cur, pack)
         \/ ScanTakes(code, cur, pack) /\ UNCHANGED peek
  /\ UNCHANGED <<out, shared, history, svars>>

\* memcpy to the caller's buffer; reading past the ring yields raw bytes.
RecvCopy ==
  /\ rpc = "copy"
  /\ rdata' = [k \in 0 .. rpack.body_len - 1 |->
                 LET x == rhead + PackHeadSize + k IN
                 IF x < Capacity THEN buf[x] ELSE RawByte]
  /\ rpc' = "advance"
  /\ UNCHANGED <<rop, rspace, rtail, rhead, rpack, rret, peek, out>>
  /\ UNCHANGED <<shared, history, svars>>

\* header_->head = cur_head: the sender may reuse the bytes from here on.
RecvAdvance ==
  /\ rpc = "advance"
  /\ head' = (rhead + PackHeadSize + rpack.align_body_len) % Capacity
  /\ q' = IF q = <<>> THEN q ELSE Tail(q)
  /\ out' = IF rop = "Recv" THEN rdata ELSE out
  /\ peek' = {}
  /\ RecvReturn("kOk")
  /\ UNCHANGED <<tail, seq, buf, cut, svars>>

RecvStep == RecvScan \/ RecvCopy \/ RecvAdvance

-----------------------------------------------------------------------------
(* Processes die and attach again; CreateUnlockQueue(reset = true) *)

CrashSender ==
  /\ Crashes /\ spc # "idle"
  /\ SendReturn("none")
  /\ UNCHANGED <<smsg, shared, history, rvars>>

CrashReceiver ==
  /\ Crashes /\ (rpc # "idle" \/ peek # {})
  /\ RecvReturn("none") /\ peek' = {}
  /\ UNCHANGED <<out, shared, history, svars>>

\* bzero of the queue head.  unlock_queue.h tells the caller to do so only
\* when the threads that use the two sides are done.
Reset ==
  /\ spc = "idle" /\ rpc = "idle" /\ peek = {}
  /\ head' = 0 /\ tail' = 0 /\ seq' = 0 /\ q' = <<>>
  /\ UNCHANGED <<buf, cut, svars, rvars>>

-----------------------------------------------------------------------------
Next ==
  \/ \E m \in Msg : SendCall(m)
  \/ SendStep
  \/ RecvEmpty
  \/ \E space \in RecvSpaces : RecvCall("Recv", space)
  \/ RecvCall("Peek", 0)
  \/ RecvCall("Drop", 0)
  \/ RecvStep
  \/ CrashSender
  \/ CrashReceiver
  \/ Reset

Spec == Init /\ [][Next]_vars
=============================================================================
