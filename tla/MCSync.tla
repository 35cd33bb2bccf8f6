------------------------------- MODULE MCSync -------------------------------
(* Instances of Sync for TLC.                                              *)
EXTENDS SyncProperties, TLC

CONSTANTS v1, v2, v3, c1, c2, r1, r2

\* Two videos on one channel, one on the other.
TwoAndOne == [v \in Videos |-> IF v = v3 THEN c2 ELSE c1]
=============================================================================
