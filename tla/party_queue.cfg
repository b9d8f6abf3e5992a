\* The shipped single worker and two callers.
SPECIFICATION FairSpec
CONSTANTS
  p1 = p1  p2 = p2  p3 = p3  p4 = p4
  Players = {p1, p2, p3, p4}
  Tickets = {10, 11, 12, 13}
  PlayersOf <- Parties
  PartyKeyed = {10, 12, 13}
  NoTicket = NoTicket
  MatchPlayerCount = 3
  PartyMax = 2
  WorkerCount = 1
  Callers = {c1, c2}
INVARIANTS
  IndexMatchesTickets OnePlacePerPlayer FullMatchIsFound MatchHasItsPlayers
PROPERTIES
  StatusFollowsTable
CHECK_DEADLOCK FALSE
