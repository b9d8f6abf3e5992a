\* Two matches that share a player.
SPECIFICATION Spec
CONSTANTS
  p1 = p1  p2 = p2  m1 = m1  m2 = m2
  Players = {p1, p2}
  Matches = {m1, m2}
  PlayersOf <- Sharing
  Clients = {c1}
  Completer = completer
  Async = async
  NoMatch = NoMatch  NoPlayer = NoPlayer
INVARIANTS
  MemberIsFound FailedHasNoZone
PROPERTIES
  EndTakesOnlyLeavers
