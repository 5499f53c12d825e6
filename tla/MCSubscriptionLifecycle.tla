---------------------- MODULE MCSubscriptionLifecycle ----------------------
(* Instances of SubscriptionLifecycle for TLC.                             *)
EXTENDS SubscriptionLifecycle, TLC

CONSTANTS s1, s2, s3, c1, l1, l2, l3

\* One conversation, as far as interleavings within it go.
Pair == {s1, s2}
Trio == {s1, s2, s3}
OneRoom == [s \in Trio |-> c1]
PairRoom == [s \in Pair |-> c1]
TrioSymmetry == Permutations(Trio) \cup Permutations(Subscription)

=============================================================================
