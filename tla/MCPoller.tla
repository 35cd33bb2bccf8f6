------------------------------ MODULE MCPoller ------------------------------
(* Instances of Poller for TLC.                                            *)
EXTENDS PollerProperties, TLC

CONSTANTS v1, v2, v3, s1, s2, ch, pl, p1, p2

\* Videos in the order they are uploaded.
Order == [v \in Videos |-> IF v = v1 THEN 1 ELSE IF v = v2 THEN 2 ELSE 3]

\* A channel with a playlist of its own that has its second video on it.
ChannelAndPlaylist == [v \in Videos |-> IF v = v2 THEN {ch, pl} ELSE {ch}]

\* All of it on one channel.
OnChannel == [v \in Videos |-> {ch}]

\* The channel is in config.yaml, a playlist may be added later.
OneConfigured == [s \in Slugs |-> IF s = s1 THEN ch ELSE NoSource]
=============================================================================
