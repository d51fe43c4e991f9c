----------------------------- MODULE MCRawData -----------------------------
(* Two keys; strings of at most two bytes, one of which may be NUL. *)
EXTENDS RawData

CONSTANT x

none == << >>
full == <<x, x>>
long == <<x, x, x>>
nul  == <<NUL, x>>

E(k, s, m) == [key |-> k, str |-> s, n |-> m]

MCStored == {E(1, none, 0), E(1, full, 1), E(2, full, 0)}

\* Nothing, a string that is too long, a full one and one with a NUL, a bad
\* element in front of a good one and behind it, the maximum and one element
\* more.
MCInputs ==
  {<< >>, <<E(1, long, 0)>>, <<E(2, full, 1), E(1, long, 1), E(2, nul, 0)>>,
   <<E(1, full, 2), E(2, none, 0)>>, <<E(2, nul, 1), E(1, full, 2)>>,
   <<E(1, none, 0), E(2, none, 0), E(1, full, 1)>>,
   <<E(1, none, 0), E(1, none, 0), E(2, none, 0), E(2, none, 0)>>}
=============================================================================
