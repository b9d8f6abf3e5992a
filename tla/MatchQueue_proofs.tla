------------------------- MODULE MatchQueue_proofs -------------------------
(* Proofs about MatchQueue, for any tickets and any full sets of them.     *)
EXTENDS MatchQueue, TLAPS

QueueInv ==
  /\ state \in [Tickets -> {"new", "waiting", "cancelled", "refused", "matched"}]
  /\ MatchedOnce

LEMMA InitQueue == Init => QueueInv
BY DEF Init, QueueInv, MatchedOnce

\* A ticket that is queued, cancelled or refused was and is in no match.
LEMMA MoveQueue ==
  ASSUME QueueInv, NEW t \in Tickets, NEW from,
         NEW to \in {"waiting", "cancelled", "refused"},
         "matched" \notin from, Move(t, from, to)
  PROVE  QueueInv'
BY DEF QueueInv, MatchedOnce, Move

\* The tickets of a new match were waiting, so no earlier match has them.
LEMMA MatchKeeps ==
  ASSUME FullMatches \subseteq SUBSET Tickets, QueueInv,
         NEW S \in FullMatches, Match(S)
  PROVE  QueueInv'
<1>1. S \subseteq Tickets
  OBVIOUS
<1>2. \A T \in matches : S \cap T = {}
  BY <1>1 DEF QueueInv, MatchedOnce, Match
<1>3. matches' = matches \cup {S}
  BY DEF Match
<1>4. state' \in [Tickets -> {"new", "waiting", "cancelled", "refused", "matched"}]
  BY DEF QueueInv, Match
<1>5. \A t \in Tickets : state'[t] = "matched" <=> t \in UNION matches'
  <2>1. \A t : t \in UNION matches' <=> t \in UNION matches \/ t \in S
    BY <1>3, Zenon
  <2> QED BY <2>1 DEF QueueInv, MatchedOnce, Match
<1>6. \A T, U \in matches' : T # U => T \cap U = {}
  BY <1>2, <1>3 DEF QueueInv, MatchedOnce
<1> QED
  BY <1>3, <1>4, <1>5, <1>6 DEF QueueInv, MatchedOnce

LEMMA NextQueue ==
  ASSUME FullMatches \subseteq SUBSET Tickets, QueueInv, [Next]_queueVars
  PROVE  QueueInv'
<1>1. ASSUME NEW t \in Tickets, Queue(t) \/ Cancel(t) \/ Refuse(t)
      PROVE  QueueInv'
  <2>1. CASE Queue(t)
    BY <2>1, MoveQueue DEF Queue
  <2>2. CASE Cancel(t)
    BY <2>2, MoveQueue DEF Cancel
  <2>3. CASE Refuse(t)
    BY <2>3, MoveQueue DEF Refuse
  <2> QED BY <1>1, <2>1, <2>2, <2>3
<1>2. ASSUME NEW S \in FullMatches, Match(S)
      PROVE  QueueInv'
  BY <1>2, MatchKeeps
<1>3. CASE UNCHANGED queueVars
  BY <1>3 DEF queueVars, QueueInv, MatchedOnce
<1> QED BY <1>1, <1>2, <1>3 DEF Next

\* A ticket is matched exactly if it is in a match, and it is in one match
\* only: no player of a queue is handed to the session manager twice for one
\* ticket.
THEOREM QueueMatchesOnce ==
  ASSUME FullMatches \subseteq SUBSET Tickets
  PROVE  Spec => []MatchedOnce
<1>1. Init => QueueInv
  BY InitQueue
<1>2. QueueInv /\ [Next]_queueVars => QueueInv'
  BY NextQueue
<1>3. QueueInv => MatchedOnce
  BY DEF QueueInv
<1> QED BY <1>1, <1>2, <1>3, PTL DEF Spec

=============================================================================
