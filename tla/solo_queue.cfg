\* The shipped single worker, two callers, matches of two players; the manager
\* is started twice.
SPECIFICATION FairSpec
CONSTANTS
  p1 = p1  p2 = p2
  Players = {p1, p2}
  Tickets = {10, 11, 12}
  PlayersOf <- Singles
  PartyKeyed = {11}
  NoTicket = NoTicket
  MatchPlayerCount = 2
  WorkerCount = 1
  Callers = {c1, c2}
  MaxStarts = 2
INVARIANTS
  TypeOK ListsHoldQueued QueuedIsListed NoPlayerTwice
PROPERTIES
  ImplementsQueue FullListIsServed
CHECK_DEADLOCK FALSE
