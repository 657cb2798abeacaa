----------------------------- MODULE MCMailChain -----------------------------
(* Instances of MailChain for TLC. *)
EXTENDS MailChain, TLC

CONSTANTS w1, w2

Two == {w1, w2}
\* two instances and a provider found down; one instance and two providers
ScenesOf ==
  {[active |-> Two, last |-> 1, tripped |-> {1}, threshold |-> 2,
    kinds |-> {"refuse", "lost", "crash"}, adverse |-> 2],
   [active |-> {w1}, last |-> 2, tripped |-> {}, threshold |-> 3,
    kinds |-> {"outage", "error", "unfit"}, adverse |-> 3]}
=============================================================================
