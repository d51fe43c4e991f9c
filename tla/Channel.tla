------------------------------ MODULE Channel ------------------------------
(***************************************************************************)
(* A process's CChannel, src/yarf/channel/channel.cc: a map from peer      *)
(* identifiers to two-way queues.  Recv and Peek visit the queues in turn  *)
(* while the peers go on sending, so that each visit is a step.  A process *)
(* makes one call at a time.                                               *)
(*                                                                         *)
(* A one-way queue is the abstract FIFO of module Fifo, which module       *)
(* UnlockQueue implements: here it holds at most QueueCap packs, and its   *)
(* fatal errors are left out because UnlockQueue excludes them.            *)
(***************************************************************************)
EXTENDS Integers, Sequences, FiniteSets, FiniteSetsExt

CONSTANTS
  Peer,       \* identifiers of the peers, the keys of unlock_queues_
  Stranger,   \* identifiers of other processes
  kMaxQueueRecvPkgCount,
  IdMod,      \* 2^32: CUnlockQueue keeps the peer identifier in a uint32_t
  Msg, MsgLen,
  Spaces,     \* buffer sizes a caller may pass to Recv
  QueueCap    \* packs that fit a queue

\* Recv on a channel without queues dereferences end(): there is a peer.
ASSUME ConfigAssumption ==
  /\ Peer \subseteq Nat /\ IsFiniteSet(Peer) /\ Peer # {}
  /\ Stranger \subseteq Nat \ Peer
  /\ kMaxQueueRecvPkgCount \in Nat \ {0} /\ IdMod \in Nat \ {0}
  /\ MsgLen \in [Msg -> Nat] /\ Spaces \subseteq Nat
  /\ QueueCap \in Nat \ {0}

VARIABLES
  inq,     \* inq[x]: the packs of the queue from peer x
  outq,    \* outq[x]: how many packs the queue to peer x holds
  cur,     \* cur_recv_queue_, the key the iterator stands at
  count,   \* cur_queue_recv_pkg_count_
  call,    \* the Recv or Peek under way: operation, len, loop_count
  ret,     \* the last call and its result: operation, code and src
  seen,    \* history: the queues the last Recv or Peek found empty
  bypass   \* history: bypass[x] counts the packs returned from the other
           \* queues since that of x was visited, a pack waiting there

vars == <<inq, outq, cur, count, call, ret, seen, bypass>>

Idle == [op |-> "none", space |-> 0, loop |-> 0]
NoRet == [op |-> "none", code |-> "none", src |-> 0]

\* The state at the end of a CChannel::Init that succeeds.  How it reads the
\* configuration and attaches the queues, and its errors, are left out; the
\* queues are taken as empty.
Init ==
  /\ inq = [x \in Peer |-> <<>>] /\ outq = [x \in Peer |-> 0]
  /\ cur = Min(Peer) /\ count = 0
  /\ call = Idle /\ ret = NoRet
  /\ seen = {} /\ bypass = [x \in Peer |-> 0]

-----------------------------------------------------------------------------
(* The peers *)

PeerSends(x, m) ==
  /\ Len(inq[x]) < QueueCap
  /\ inq' = [inq EXCEPT ![x] = Append(@, m)]
  /\ UNCHANGED <<outq, cur, count, call, ret, seen, bypass>>

PeerTakes(x) ==
  /\ outq[x] > 0
  /\ outq' = [outq EXCEPT ![x] = @ - 1]
  /\ UNCHANGED <<inq, cur, count, call, ret, seen, bypass>>

-----------------------------------------------------------------------------
(* CChannel *)

Return(op, code, src) ==
  /\ call' = Idle
  /\ ret' = [op |-> op, code |-> code, src |-> src]

Send(dst) ==
  /\ call = Idle
  /\ \/ /\ dst \notin Peer
        /\ Return("Send", "kChanDstNotExist", 0)
        /\ UNCHANGED outq
     \/ /\ dst \in Peer /\ outq[dst] < QueueCap
        /\ outq' = [outq EXCEPT ![dst] = @ + 1]
        /\ Return("Send", "kOk", 0)
     \/ /\ dst \in Peer /\ outq[dst] >= QueueCap
        /\ Return("Send", "kChanFull", 0)
        /\ UNCHANGED outq
  /\ UNCHANGED <<inq, cur, count, seen, bypass>>

\* ++cur_recv_queue_, back to begin() after the last queue.
NextQueue ==
  LET later == {x \in Peer : x > cur} IN
  IF later = {} THEN Min(Peer) ELSE Min(later)

\* Mutant of MoveToNextQueue: the count of the last queue is kept.
MoveKeepingCount == cur' = NextQueue /\ UNCHANGED count

MoveToNextQueue == cur' = NextQueue /\ count' = 0

\* Mutant of RecvCall: one pack too many from one queue.
RecvCallLate(op, space) ==
  /\ call = Idle
  /\ IF count > kMaxQueueRecvPkgCount
     THEN MoveToNextQueue
     ELSE UNCHANGED <<cur, count>>
  /\ call' = [op |-> op, space |-> space, loop |-> 0]
  /\ ret' = NoRet /\ seen' = {}
  /\ UNCHANGED <<inq, outq, bypass>>

\* Recv and Peek begin alike.  After kMaxQueueRecvPkgCount packs from one
\* queue it is the turn of the next.
RecvCall(op, space) ==
  /\ call = Idle
  /\ IF count >= kMaxQueueRecvPkgCount
     THEN MoveToNextQueue
     ELSE UNCHANGED <<cur, count>>
  /\ call' = [op |-> op, space |-> space, loop |-> 0]
  /\ ret' = NoRet /\ seen' = {}
  /\ UNCHANGED <<inq, outq, bypass>>

\* queue.peer_id(), through the uint32_t peer_proc_id_.
Source == cur % IdMod

\* Mutant of VisitEmpty: the loop ends one queue early.
VisitEmptyEarly ==
  LET loop == call.loop + 1 IN
  /\ call # Idle
  /\ inq[cur] = <<>>
  /\ MoveToNextQueue
  /\ IF loop >= Cardinality(Peer) - 1
     THEN Return(call.op, "kChanEmpty", Source)
     ELSE call' = [call EXCEPT !.loop = loop] /\ UNCHANGED ret
  /\ seen' = seen \union {cur}
  /\ bypass' = [bypass EXCEPT ![cur] = 0]
  /\ UNCHANGED <<inq, outq>>

\* One turn of the loop over the queues.  The last empty queue ends it.
VisitEmpty ==
  LET loop == call.loop + 1 IN
  /\ call # Idle
  /\ inq[cur] = <<>>
  /\ MoveToNextQueue
  /\ IF loop >= Cardinality(Peer)
     THEN Return(call.op, "kChanEmpty", Source)
     ELSE call' = [call EXCEPT !.loop = loop] /\ UNCHANGED ret
  /\ seen' = seen \union {cur}
  /\ bypass' = [bypass EXCEPT ![cur] = 0]
  /\ UNCHANGED <<inq, outq>>

\* The packs waiting in other queues are passed over once more.
Passed ==
  [x \in Peer |-> IF x = cur \/ inq[x] = <<>> THEN 0 ELSE bypass[x] + 1]

VisitTakes ==
  /\ call # Idle
  /\ inq[cur] # <<>>
  /\ call.op = "Recv" => call.space >= MsgLen[Head(inq[cur])]
  /\ count' = count + 1
  /\ inq' = IF call.op = "Recv" THEN [inq EXCEPT ![cur] = Tail(@)] ELSE inq
  /\ Return(call.op, "kOk", Source)
  /\ bypass' = Passed
  /\ UNCHANGED <<outq, cur, seen>>

\* An error of one queue (the caller's buffer is too small for the pack) is
\* returned, and the next call starts with another queue.
VisitFails ==
  /\ call.op = "Recv"
  /\ inq[cur] # <<>>
  /\ call.space < MsgLen[Head(inq[cur])]
  /\ MoveToNextQueue
  /\ Return("Recv", "kChanRecvSpaceLimit", Source)
  /\ bypass' = [bypass EXCEPT ![cur] = 0]
  /\ UNCHANGED <<inq, outq, seen>>

Drop(src) ==
  /\ call = Idle
  /\ \/ /\ src \notin Peer
        /\ Return("Drop", "kChanDstNotExist", 0)
        /\ UNCHANGED <<inq, bypass>>
     \/ /\ src \in Peer /\ inq[src] = <<>>
        /\ Return("Drop", "kChanEmpty", 0)
        /\ UNCHANGED <<inq, bypass>>
     \/ /\ src \in Peer /\ inq[src] # <<>>
        /\ Return("Drop", "kOk", 0)
        /\ inq' = [inq EXCEPT ![src] = Tail(@)]
        /\ bypass' = [bypass EXCEPT ![src] = 0]
  /\ UNCHANGED <<outq, cur, count, seen>>

Next ==
  \/ \E x \in Peer, m \in Msg : PeerSends(x, m)
  \/ \E x \in Peer : PeerTakes(x)
  \/ \E dst \in Peer \union Stranger : Send(dst)
  \/ \E space \in Spaces : RecvCall("Recv", space)
  \/ RecvCall("Peek", 0)
  \/ VisitEmpty \/ VisitTakes \/ VisitFails
  \/ \E src \in Peer \union Stranger : Drop(src)

Spec == Init /\ [][Next]_vars

-----------------------------------------------------------------------------
(* Properties *)

\* Type correctness; the iterator always stands at a queue and the count of
\* packs taken in a row does not pass kMaxQueueRecvPkgCount.
TypeOK ==
  /\ inq \in [Peer -> Seq(Msg)] /\ outq \in [Peer -> 0 .. QueueCap]
  /\ cur \in Peer /\ count \in 0 .. kMaxQueueRecvPkgCount
  /\ call \in [op : {"none", "Recv", "Peek"}, space : Spaces \union {0},
               loop : 0 .. Cardinality(Peer) - 1]
  /\ ret \in [op : {"none", "Send", "Recv", "Peek", "Drop"},
              code : {"none", "kOk", "kChanEmpty", "kChanFull",
                      "kChanDstNotExist", "kChanRecvSpaceLimit"},
              src : 0 .. IdMod - 1]
  /\ seen \subseteq Peer /\ bypass \in [Peer -> Nat]

\* No peer starves: while a pack waits in a queue, Recv and Peek return at
\* most kMaxQueueRecvPkgCount packs of each other queue before they look at
\* it, whatever the peers send and whatever calls fail meanwhile.
BoundedBypass ==
  \A x \in Peer :
    bypass[x] <= kMaxQueueRecvPkgCount * (Cardinality(Peer) - 1)

\* Recv and Peek report kChanEmpty only after they found every queue of the
\* channel empty, wherever the loop started and although it moves the
\* iterator past a queue that has had its share.
EmptyMeansAllEmpty ==
  ret.op \in {"Recv", "Peek"} /\ ret.code = "kChanEmpty" => seen = Peer
=============================================================================
