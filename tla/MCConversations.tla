--------------------------- MODULE MCConversations ---------------------------
(* Instances of Conversations for TLC.                                     *)
EXTENDS Conversations, TLC

CONSTANTS r1, r2, r3, u1, u2, ta, tb

Three == {r1, r2, r3}

=============================================================================
