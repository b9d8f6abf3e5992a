\* A cancel after the queue manager gave the tickets up.
SPECIFICATION Spec
CONSTANTS
  p1 = p1  p2 = p2  p3 = p3  m1 = m1  m2 = m2
  Players = {p1, p2, p3}
  Matches = {m1}
  PlayersOf <- OneMatch
  SoloMatches = {m1}
  PartyPlayersOf <- NoPartyKeys
  Creators = {w1}
  Clients = {c1}
  Async = async
  DelayOrder <- ShippedDelays
  Replies = {TRUE}
  NoMatch = NoMatch
  NoPlayer = NoPlayer
PROPERTIES
  CancelWhileWaitingIsReject
