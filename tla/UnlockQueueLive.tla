-------------------------- MODULE UnlockQueueLive --------------------------
(***************************************************************************)
(* The queue in the hands of the clients of src/test/test_unlock_queue.cc: *)
(* the sending thread repeats a Send for as long as it returns kChanFull,  *)
(* the receiving thread calls Recv again and again.                        *)
(***************************************************************************)
EXTENDS UnlockQueueInv

\* do { ret = Send(x) } while (ret == kChanFull)
ClientSend(m) == (sret = "kChanFull" => m = smsg) /\ SendCall(m)

ClientRecv == RecvEmpty \/ \E space \in RecvSpaces : RecvCall("Recv", space)

LiveNext ==
  \/ \E m \in Msg : ClientSend(m)
  \/ SendStep
  \/ ClientRecv
  \/ RecvStep

\* Both threads run; the sender is not obliged to send, except to repeat a
\* Send that found the queue full.
LiveSpec ==
  /\ Init /\ [][LiveNext]_vars
  /\ WF_vars(SendStep)
  /\ \A m \in Msg : WF_vars(sret = "kChanFull" /\ ClientSend(m))
  /\ WF_vars(ClientRecv \/ RecvStep)

\* A Send that finds the queue full succeeds when it is repeated while the
\* receiver drains the queue: kChanFull is a temporary condition.
FullIsTemporary ==
  \A m \in Msg :
    (sret = "kChanFull" /\ smsg = m) ~> (sret = "kOk" /\ smsg = m)

\* Every pack published is consumed (SeqMod exceeds the number of packs the
\* ring can hold, so that a sequence number identifies a pack).
EveryPackTaken ==
  \A s \in 0 .. SeqMod - 1 :
    (\E i \in 1 .. Len(q) : q[i].seq = s)
      ~> ~(\E i \in 1 .. Len(q) : q[i].seq = s)
=============================================================================
