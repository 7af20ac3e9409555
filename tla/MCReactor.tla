----------------------------- MODULE MCReactor -----------------------------
(* A reactor on two descriptors besides STDIN, the first always readable. *)
EXTENDS Reactor

MCAlways == {<<1, "READ">>}
=============================================================================
