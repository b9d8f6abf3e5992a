\* Two matches that share a player; the shipped delays.
SPECIFICATION Spec
CONSTANTS
  p1 = p1  p2 = p2  p3 = p3  m1 = m1  m2 = m2
  Players = {p1, p2, p3}
  Matches = {m1, m2}
  PlayersOf <- Overlapping
  SoloMatches = {m1}
  PartyPlayersOf <- OneWithoutKey
  Creators = {w1, w2}
  Clients = {c1}
  Async = async
  DelayOrder <- ShippedDelays
  Replies = {TRUE}
  NoMatch = NoMatch
  NoPlayer = NoPlayer
INVARIANTS
  IndexMatchesSessions
