--------------------------- MODULE MCMatchSession ---------------------------
(* Instances of MatchSession for TLC.                                      *)
EXTENDS MatchSession, TLC

CONSTANTS p1, p2, p3, m1, m2

\* One match of three players.
OneMatch == m1 :> {p1, p2, p3}

\* A solo match and a party match that share the player p2: a player can wait
\* in a solo queue and, in a party, in a party queue.
Overlapping == m1 :> {p1, p2} @@ m2 :> {p2, p3}

\* The tickets that IsPartyTicket takes for a party's: none of the solo match;
\* that of p3, who made a solo request with a party key; and in the party match
\* that of p2, while p3 asked alone and without a party key.
NoPartyKeys == m1 :> {}
OnePartyKey == m1 :> {p3}
OneWithoutKey == m1 :> {} @@ m2 :> {p2}

\* The shipped delays: 1 s per automatic accept against a 60 s accept timeout,
\* 2 s to completion against a 10 s place timeout.
ShippedDelays == {<<"demoAccept", "acceptTimeout">>, <<"complete", "placeTimeout">>}

\* Any delays, as when real players and a real integration server answer.
AnyDelays == {}

=============================================================================
