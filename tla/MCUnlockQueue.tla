--------------------------- MODULE MCUnlockQueue ---------------------------
(***************************************************************************)
(* Small instances of the lock-free queue.  Packs have two sizes, both     *)
(* even.  In a ring of even size they can end exactly at its end; in one   *)
(* of odd size the rest may be shorter than a pack head; in both it may    *)
(* take a place holder.                                                    *)
(***************************************************************************)
EXTENDS UnlockQueueInv

CONSTANTS short, long, wide, huge, wrapping

\* With heads of 2 bytes: huge overflows in GetAlignmentSize, wrapping in
\* front of it, in kPackHeadSize + len; the length fields cannot hold the
\* sizes of wide.
MCMsgLen ==
  [m \in Msg |-> CASE m = short -> 1
                   [] m = long -> 3
                   [] m = wide -> Half
                   [] m = huge -> Word - 1 - PackHeadSize
                   [] m = wrapping -> Word - 1]

\* A constraint: what follows a message whose sizes were cut is explored up
\* to the end of that Send.
UntilCutSent == cut => spc # "idle"
=============================================================================
