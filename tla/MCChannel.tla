----------------------------- MODULE MCChannel -----------------------------
(***************************************************************************)
(* Small instances of a channel.                                           *)
(***************************************************************************)
EXTENDS Channel

CONSTANTS short, long

MCMsgLen == [m \in Msg |-> CASE m = short -> 1 [] m = long -> 2]
=============================================================================
