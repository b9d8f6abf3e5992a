----------------------------- MODULE TicketMap -----------------------------
(***************************************************************************)
(* The ticket map of a queue manager: m_MatchTicketMap and its index       *)
(* m_MatchTicketFindMapByPlayerKey, which m_MatchmakingMutex guards.       *)
(* CSoloMatchmakingManager and CPartyMatchmakingManager each keep one, with *)
(* the same code.                                                          *)
(*                                                                         *)
(* The session manager does not know which of the two has a ticket.  When  *)
(* it is done with one it calls the manager that IsPartyTicket names, and  *)
(* a manager that has no such ticket erases nothing.                       *)
(***************************************************************************)
CONSTANTS
  Players,    \* player keys
  Tickets,    \* ticket ids
  PlayersOf,  \* the players of a ticket
  PartyKeyed, \* tickets whose request has a party key
  NoTicket    \* no ticket id

ASSUME TicketsAssumption ==
  /\ PlayersOf \in [Tickets -> (SUBSET Players) \ {{}}]
  /\ PartyKeyed \subseteq Tickets
  /\ NoTicket \notin Tickets

VARIABLES
  ticketMap,   \* m_MatchTicketMap
  playerIndex  \* m_MatchTicketFindMapByPlayerKey

mapVars == <<ticketMap, playerIndex>>

EmptyMap ==
  /\ ticketMap = {}
  /\ playerIndex = [p \in Players |-> NoTicket]

\* FindMatchTicketByPlayerKey: the index names a ticket that is in the map.
FindByPlayerKey(p) == IF playerIndex[p] \in ticketMap THEN playerIndex[p] ELSE NoTicket

\* A variant with a bug: the entries of other tickets' players are not looked at.
CanInsertOver(t) == t \notin ticketMap

\* InsertMatchTicket succeeds; otherwise it takes back what it inserted.
CanInsert(t) == t \notin ticketMap /\ \A p \in PlayersOf[t] : playerIndex[p] = NoTicket

InsertMatchTicket(t) ==
  /\ ticketMap' = ticketMap \cup {t}
  /\ playerIndex' = [p \in Players |-> IF p \in PlayersOf[t] THEN t ELSE playerIndex[p]]

\* A variant with a bug: the index keeps the players of the erased ticket.
EraseMatchTicketOnly(t) ==
  /\ ticketMap' = ticketMap \ {t}
  /\ UNCHANGED playerIndex

\* EraseMatchTicket erases the ticket and the index entries that name it.
EraseMatchTicket(t) ==
  /\ ticketMap' = ticketMap \ {t}
  /\ playerIndex' = [p \in Players |->
                       IF t \in ticketMap /\ p \in PlayersOf[t] /\ playerIndex[p] = t
                       THEN NoTicket ELSE playerIndex[p]]

\* IsPartyTicket: the ticket has a party key or more players than one.
IsPartyTicket(t) == t \in PartyKeyed \/ \E p, q \in PlayersOf[t] : p # q

MapTypeOK ==
  /\ ticketMap \subseteq Tickets
  /\ playerIndex \in [Players -> Tickets \cup {NoTicket}]

\* The index names exactly the players of the tickets in the map, so a player
\* has one ticket in a queue manager at a time.
IndexMatchesTickets ==
  \A p \in Players, t \in Tickets :
    playerIndex[p] = t <=> t \in ticketMap /\ p \in PlayersOf[t]

=============================================================================
