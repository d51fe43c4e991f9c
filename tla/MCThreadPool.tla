---------------------------- MODULE MCThreadPool ----------------------------
(***************************************************************************)
(* Small instances of the thread pool.                                     *)
(***************************************************************************)
EXTENDS ThreadPool

CONSTANTS w1, w2, tiny, big, oversized

MCInLen ==
  [j \in Job |-> CASE j = tiny -> 1 [] j = big -> 2 [] j = oversized -> 3]
MCOutLen ==
  [j \in Job |-> CASE j = tiny -> 1 [] j = big -> 2 [] j = oversized -> 2]
=============================================================================
