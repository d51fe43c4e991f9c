-------------------------------- MODULE Fifo --------------------------------
(***************************************************************************)
(* What a one-way channel promises its users: the payloads sent come out   *)
(* unaltered, once each, in the order they were sent.  A Send may be       *)
(* refused (no step here), and a consumer may drop a payload unread.  The  *)
(* promise ends with the first payload that is too large for the channel   *)
(* and is not refused.                                                     *)
(***************************************************************************)
EXTENDS Sequences

CONSTANT Item

VARIABLES
  queue,  \* the payloads sent and not yet taken
  out,    \* the payload the last Recv returned
  broken  \* TRUE once a payload too large was let in

vars == <<queue, out, broken>>

Init == queue = <<>> /\ out = <<>> /\ broken = FALSE

Send(x) == queue' = Append(queue, x) /\ UNCHANGED out

Recv ==
  /\ queue # <<>>
  /\ out' = queue[1]
  /\ queue' = Tail(queue)

Drop ==
  /\ queue # <<>>
  /\ queue' = Tail(queue)
  /\ UNCHANGED out

\* Creating the queue afresh deletes what is in it.
Reset == queue' = <<>> /\ UNCHANGED out

Next ==
  \/ /\ (\E x \in Item : Send(x)) \/ Recv \/ Drop \/ Reset
     /\ UNCHANGED broken
  \/ broken'

Spec == Init /\ [][Next]_vars
=============================================================================
