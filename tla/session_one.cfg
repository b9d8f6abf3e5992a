\* One match of three players; any delays, any reply of the integration server.
SPECIFICATION FairSpec
CONSTANTS
  p1 = p1  p2 = p2  p3 = p3  m1 = m1  m2 = m2
  Players = {p1, p2, p3}
  Matches = {m1}
  PlayersOf <- OneMatch
  SoloMatches = {m1}
  PartyPlayersOf <- OnePartyKey
  Creators = {w1}
  Clients = {c1}
  Async = async
  DelayOrder <- AnyDelays
  Replies = {TRUE, FALSE}
  NoMatch = NoMatch
  NoPlayer = NoPlayer
INVARIANTS
  TypeOK PlacedOnlyIfAllAccepted TicketsFollowSession
  NoLeakedSession ZoneOnlyOfCompleted CompletedHasZone PenaltyOnlyAfterReject
PROPERTIES
  SessionsEnd 
