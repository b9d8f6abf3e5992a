---------------------------- MODULE MCSoloQueue ----------------------------
(* Instances of SoloQueue for TLC.                                         *)
EXTENDS SoloQueue, TLC

CONSTANTS p1, p2

\* Two players, the first of whom asks twice.  (The request of the other has a
\* party key in solo_queue.cfg.)
Singles == 10 :> {p1} @@ 11 :> {p2} @@ 12 :> {p1}

=============================================================================
