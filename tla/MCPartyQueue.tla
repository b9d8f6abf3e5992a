---------------------------- MODULE MCPartyQueue ----------------------------
(* Instances of PartyQueue for TLC.                                        *)
EXTENDS PartyQueue, TLC

CONSTANTS p1, p2, p3, p4

\* Three-player matches of parties of at most two: 10 and 11 make one; 12 asks
\* again for a player of 10, and 13 is too large.  11 has no party key.
Parties == 10 :> {p1, p2} @@ 11 :> {p3} @@ 12 :> {p2} @@ 13 :> {p1, p3, p4}

\* Two-player matches: 10 and 12 wait at worker 0 and 11 at worker 1, until the
\* group thread lets both workers see a ticket.  12 has no party key.
Singles == 10 :> {p1} @@ 11 :> {p2} @@ 12 :> {p3}

=============================================================================
