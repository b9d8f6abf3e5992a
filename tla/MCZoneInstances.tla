-------------------------- MODULE MCZoneInstances --------------------------
(* Instances of ZoneInstances for TLC.                                     *)
EXTENDS ZoneInstances

CONSTANTS p1, z1, z2, k1, s1

\* Two zones of one player that have the same key: the second instance of a
\* key can be made when the first has been erased.
SameKey == [z \in Zones |-> k1]
OnePlayer == [z \in Zones |-> {p1}]
OneServer == [z \in Zones |-> s1]
=============================================================================
