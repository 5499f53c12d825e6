------------------------------- MODULE MCPools -------------------------------
(* Instances of Pools for TLC.                                             *)
EXTENDS Pools, TLC

CONSTANTS l1, send1, send2, probe

=============================================================================
