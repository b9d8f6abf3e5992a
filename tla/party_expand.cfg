\* Two workers, whose tickets become visible to both, and two callers.
SPECIFICATION FairSpec
CONSTANTS
  p1 = p1  p2 = p2  p3 = p3  p4 = p4
  Players = {p1, p2, p3, p4}
  Tickets = {10, 11, 12}
  PlayersOf <- Singles
  PartyKeyed = {10, 11}
  NoTicket = NoTicket
  MatchPlayerCount = 2
  PartyMax = 2
  WorkerCount = 2
  Callers = {c1, c2}
INVARIANTS
  TypeOK QueuedIsReachable
PROPERTIES
  ImplementsQueue CandidatesAreServed
CHECK_DEADLOCK FALSE
