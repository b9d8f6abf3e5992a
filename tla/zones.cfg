\* Two zones of one player and one key.
SPECIFICATION FairSpec
CONSTANTS
  p1 = p1  z1 = z1  z2 = z2  k1 = k1  s1 = s1
  Players = {p1}
  Zones = {z1, z2}
  Keys = {k1}
  KeyOf <- SameKey
  PlayersOf <- OnePlayer
  ServerOf <- OneServer
  Callers = {c1}
  Async = async
  NoKey = NoKey  NoZone = NoZone  NoPlayer = NoPlayer
INVARIANTS
  TypeOK IndexNamesMember EmptyZoneIsErased ExpiryIsPending
PROPERTIES
  ZonesExpire LeaveIsServed
