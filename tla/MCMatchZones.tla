---------------------------- MODULE MCMatchZones ----------------------------
(* An instance of MatchZones for TLC.                                      *)
EXTENDS MatchZones, TLC

CONSTANTS p1, p2, m1, m2

\* Two players who meet in one match, and one of them has another.
Sharing == m1 :> {p1, p2} @@ m2 :> {p1}
=============================================================================
