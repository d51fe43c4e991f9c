------------------------- MODULE MCUnlockQueueLive -------------------------
(***************************************************************************)
(* Small instances of the queue with its clients.                          *)
(***************************************************************************)
EXTENDS UnlockQueueLive

CONSTANTS short, long

MCMsgLen == [m \in Msg |-> CASE m = short -> 1 [] m = long -> 3]
=============================================================================
