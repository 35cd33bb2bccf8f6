--------------------------- MODULE MCChannelAdmin ---------------------------
(* Instances of ChannelAdmin for TLC.                                      *)
EXTENDS ChannelAdminProperties, TLC

CONSTANTS x, y, foo, foo2, foo3, a1, a2, sched

\* A channel called "Foo", three times over.
Numbered == [n \in Names |-> <<foo, foo2, foo3>>]
OneConfigured == [s \in Slugs |-> IF s = foo THEN x ELSE NoSource]
NoneOverridden == [s \in Slugs |-> NoOverride]
=============================================================================
