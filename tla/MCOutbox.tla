------------------------------ MODULE MCOutbox ------------------------------
(* Instances of Outbox for TLC: the notices, rows and configurations. *)
EXTENDS OutboxDelivery, TLC

CONSTANTS w1, w2, n1, n2

Two == {w1, w2}
One == {w1}
Symmetry == Permutations(Two)

Live == [testMode |-> FALSE, dev |-> TRUE, biz |-> TRUE]
Test == [testMode |-> TRUE, dev |-> TRUE, biz |-> TRUE]
Unseeded == [testMode |-> TRUE, dev |-> FALSE, biz |-> TRUE]
LiveUnseeded == [testMode |-> FALSE, dev |-> FALSE, biz |-> TRUE]

JustLive == {Live}
AnyConfig == {Live, Test, Unseeded, LiveUnseeded}
=============================================================================
