-------------------------- MODULE MCChatPipeline ---------------------------
(* Instances of ChatPipeline for TLC.                                      *)
EXTENDS ChatPipeline, TLC

CONSTANTS p1, p2, s1, s2

\* One socket on each of two processes.
TwoProcesses == {p1, p2}
TwoSockets == {s1, s2}
OneEach == [s \in TwoSockets |-> IF s = s1 THEN p1 ELSE p2]
\* Two sockets of one process.
OneProcess == {p1}
Together == [s \in TwoSockets |-> p1]

=============================================================================
