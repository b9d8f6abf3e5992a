------------------------ MODULE ZoneInstances_proofs ------------------------
(***************************************************************************)
(* Proofs about ZoneInstances for every set of players, zones, keys and    *)
(* caller threads.                                                         *)
(***************************************************************************)
EXTENDS ZoneInstances, TLAPS

-----------------------------------------------------------------------------
(* Types.                                                                  *)

\* The calls whose handler works on a zone, a key, a player.
ZoneCalls == {"ScheduleExpire", "Remove", "CheckEmpty", "EraseEmpty", "Update",
              "CheckExpired", "Reschedule", "EraseExpired"}
KeyCalls == {"EraseFailed", "FindZone", "FindExpired"}
PlayerCalls == {"ReadIndex", "FindZone", "Remove", "CheckEmpty", "EraseEmpty", "EraseIndex"}

\* A call has what its handler works on; the rest of a loop is of players, but
\* for the zones of a closed server.
CallsOK ==
  \A t \in Threads :
    /\ pc[t] \in ZoneCalls => arg[t].zone \in made
    /\ pc[t] \in KeyCalls => arg[t].key \in Keys
    /\ pc[t] \in PlayerCalls => arg[t].player \in Players
    /\ pc[t] = "EraseTerminated" => arg[t].ending \in Keys
    /\ pc[t] = "EraseClosed" => arg[t].rest \subseteq made
    /\ pc[t] # "EraseClosed" => arg[t].rest \subseteq Players

\* A zone has players of its own only, and all of them until it is made.
MembersOK ==
  \A z \in Zones :
    /\ members[z] \subseteq PlayersOf[z]
    /\ z \notin made => members[z] = PlayersOf[z]

TypeInv == TypeOK /\ CallsOK /\ MembersOK

LEMMA InitType == Init => TypeInv
BY ZonesAssumption
DEF Init, TypeInv, TypeOK, CallsOK, MembersOK, NoArg, Arguments, Calls, ZoneCalls, KeyCalls,
    PlayerCalls

\* The actions, one by one.
LEMMA NextCases ==
  ASSUME [Next]_vars
  PROVE  \/ \E t \in Threads : Step(t)
         \/ \E t \in Callers, z \in Zones :
              Insert(t, z) \/ TakeBack(t, z) \/ CallTerminated(t, z) \/ CallUpdated(t, z)
         \/ \E t \in Callers, p \in Players : CallLeave(t, p) \/ CallLeaved(t, p)
         \/ \E t \in Callers, s \in Servers : CallServerClosed(t, s)
         \/ \E k \in Keys : RunExpire(k)
         \/ \E p \in Players : RunLeave(p)
         \/ \E s \in Servers : RunServerClosed(s)
         \/ \E z \in Zones : GrowOld(z)
         \/ UNCHANGED vars
BY DEF Next, Call

\* What Erase leaves: a part of the map, and index entries that were there.
LEMMA EraseType ==
  ASSUME TypeInv, NEW k \in Keys, Erase(k)
  PROVE  /\ zoneMap' \subseteq zoneMap
         /\ playerIndex' \in [Players -> Keys \cup {NoKey}]
         /\ \A z \in zoneMap : z \in zoneMap' <=> KeyOf[z] # k
         /\ \A p \in Players : playerIndex'[p] \in {NoKey, playerIndex[p]}
BY DEF Erase, Registered, TypeInv, TypeOK

\* The control of a thread's step: the other threads stay where they are.
LEMMA StepControl ==
  ASSUME TypeInv, NEW t \in Threads, Step(t)
  PROVE  /\ \A u \in Threads \ {t} : pc'[u] = pc[u] /\ arg'[u] = arg[u]
         /\ made' = made
BY DEF Step, TypeInv, TypeOK, Goto, Enter, EraseAndGoto, zoneVars,
       EraseFailed, ScheduleExpire, ReadIndex, FindZone, RemovePlayerSession, CheckEmpty,
       EraseEmpty, EraseIndex, NextPlayer, EraseTerminated, Update, FindExpired,
       CheckExpired, Reschedule, EraseExpired, EraseClosed


\* The call and its argument a thread can go on with.
CallOK(call, a) ==
  /\ call \in Calls /\ a \in Arguments
  /\ call \in ZoneCalls => a.zone \in made
  /\ call \in KeyCalls => a.key \in Keys
  /\ call \in PlayerCalls => a.player \in Players
  /\ call = "EraseTerminated" => a.ending \in Keys
  /\ IF call = "EraseClosed" THEN a.rest \subseteq made ELSE a.rest \subseteq Players

LEMMA EnterType ==
  ASSUME TypeInv, NEW t \in Threads, NEW call, NEW a, CallOK(call, a), Enter(t, call, a),
         UNCHANGED <<zoneMap, playerIndex, members, fresh, made>>, jobs' \subseteq Jobs
  PROVE  TypeInv'
BY DEF Enter, CallOK, TypeInv, TypeOK, CallsOK, MembersOK

\* One step of a handler keeps the types.
LEMMA StepType ==
  ASSUME TypeInv, NEW t \in Threads, Step(t)
  PROVE  TypeInv'
<1> USE DEF Goto, Enter, zoneVars, TypeInv, TypeOK, CallsOK, MembersOK, Arguments, Calls,
            ZoneCalls, KeyCalls, PlayerCalls, NoArg
<1>a. /\ pc \in [Threads -> Calls] /\ arg \in [Threads -> Arguments]
      /\ arg[t] \in Arguments /\ t \in Threads
      /\ zoneMap \subseteq made /\ made \subseteq Zones /\ KeyOf \in [Zones -> Keys]
      /\ \A u \in Threads \ {t} : pc'[u] = pc[u] /\ arg'[u] = arg[u]
      /\ CallsOK
  BY StepControl, ZonesAssumption DEF TypeInv, TypeOK
<1>1. CASE EraseFailed(t)
  BY <1>1, <1>a, EraseType DEF EraseFailed, EraseAndGoto
<1>2. CASE ScheduleExpire(t)
  BY <1>2, <1>a DEF ScheduleExpire, ExpireJob, Jobs
<1>3. CASE ReadIndex(t)
  <2>1. /\ UNCHANGED <<zoneVars, made, jobs>> /\ arg[t].player \in Players
        /\ playerIndex[arg[t].player] \in Keys \cup {NoKey}
    BY <1>3, <1>a DEF ReadIndex
  <2>2. CASE Goto(t, "NextPlayer")
    BY <1>3, <2>1, <2>2, <1>a DEF ReadIndex
  <2>3. ASSUME NEW k \in Keys, Enter(t, "FindZone", [arg[t] EXCEPT !.key = k])
        PROVE  TypeInv'
    <3>1. [arg[t] EXCEPT !.key = k] \in Arguments
      BY <1>a DEF Arguments
    <3>2. CallOK("FindZone", [arg[t] EXCEPT !.key = k])
      BY <1>3, <1>a, <2>1, <3>1
      DEF ReadIndex, CallOK, CallsOK, Calls, ZoneCalls, KeyCalls, PlayerCalls, Arguments
    <3> QED BY <2>1, <2>3, <3>2, EnterType
  <2> QED BY <1>3, <2>1, <2>2, <2>3 DEF ReadIndex
<1>4. CASE FindZone(t)
  <2>1. CASE Goto(t, "NextPlayer") /\ UNCHANGED <<zoneVars, made, jobs>>
    BY <1>4, <2>1, <1>a, ZenonT(40) DEF FindZone
  <2>2. ASSUME NEW z \in Registered(arg[t].key),
               Enter(t, "Remove", [arg[t] EXCEPT !.zone = z, !.key = NoKey])
        PROVE  TypeInv'
    <3>1. z \in made /\ arg[t].player \in Players /\ arg[t].rest \subseteq Players
      BY <1>4, <1>a DEF FindZone, CallsOK, PlayerCalls, Registered
    <3>2. CallOK("Remove", [arg[t] EXCEPT !.zone = z, !.key = NoKey])
      BY <3>1, <1>a DEF CallOK, Calls, Arguments, ZoneCalls, KeyCalls, PlayerCalls
    <3> QED BY <1>4, <2>2, <3>2, EnterType DEF FindZone, TypeInv, TypeOK
  <2> QED BY <1>4, <2>1, <2>2 DEF FindZone
<1>5. CASE RemovePlayerSession(t)
  BY <1>5, <1>a DEF RemovePlayerSession
<1>6. CASE CheckEmpty(t)
  BY <1>6, <1>a DEF CheckEmpty
<1>7. CASE EraseEmpty(t)
  BY <1>7, <1>a, EraseType DEF EraseEmpty, EraseAndGoto
<1>8. CASE EraseIndex(t)
  BY <1>8, <1>a DEF EraseIndex
<1>9. CASE NextPlayer(t)
  <2>1. ASSUME NEW call \in {"Idle", "EraseTerminated"}, Goto(t, call),
               call = "Idle" \/ arg[t].ending # NoKey
        PROVE  TypeInv'
    BY <1>9, <1>a, <2>1, ZenonT(40) DEF NextPlayer
  <2>2. ASSUME NEW p \in arg[t].rest,
               Enter(t, "ReadIndex",
                     [arg[t] EXCEPT !.player = p, !.zone = NoZone, !.rest = @ \ {p}])
        PROVE  TypeInv'
    <3>1. p \in Players /\ arg[t].rest \subseteq Players
      BY <1>9, <1>a DEF NextPlayer, CallsOK
    <3>2. CallOK("ReadIndex", [arg[t] EXCEPT !.player = p, !.zone = NoZone, !.rest = @ \ {p}])
      BY <3>1, <1>a DEF CallOK, Calls, Arguments, ZoneCalls, KeyCalls, PlayerCalls
    <3> QED BY <1>9, <2>2, <3>2, EnterType DEF NextPlayer, TypeInv, TypeOK
  <2> QED BY <1>9, <2>1, <2>2 DEF NextPlayer
<1>10. CASE EraseTerminated(t)
  BY <1>10, <1>a, EraseType DEF EraseTerminated, EraseAndGoto
<1>11. CASE Update(t)
  BY <1>11, <1>a DEF Update
<1>12. CASE FindExpired(t)
  <2>1. CASE Goto(t, "Idle")
    BY <1>12, <2>1, <1>a DEF FindExpired
  <2>2. ASSUME NEW z \in Registered(arg[t].key),
               Enter(t, "CheckExpired", [arg[t] EXCEPT !.zone = z, !.key = NoKey])
        PROVE  TypeInv'
    <3>1. z \in made /\ arg[t].rest \subseteq Players
      BY <1>12, <1>a DEF FindExpired, CallsOK, Registered
    <3>2. CallOK("CheckExpired", [arg[t] EXCEPT !.zone = z, !.key = NoKey])
      BY <3>1, <1>a DEF CallOK, Calls, Arguments, ZoneCalls, KeyCalls, PlayerCalls
    <3> QED BY <1>12, <2>2, <3>2, EnterType DEF FindExpired, TypeInv, TypeOK
  <2> QED BY <1>12, <2>1, <2>2 DEF FindExpired
<1>13. CASE CheckExpired(t)
  BY <1>13, <1>a DEF CheckExpired
<1>14. CASE Reschedule(t)
  BY <1>14, <1>a DEF Reschedule, ExpireJob, Jobs
<1>15. CASE EraseExpired(t)
  BY <1>15, <1>a, EraseType DEF EraseExpired, EraseAndGoto
<1>16. CASE EraseClosed(t)
  <2>1. CASE Goto(t, "Idle") /\ UNCHANGED zoneVars
    BY <1>16, <2>1, <1>a DEF EraseClosed
  <2>2. ASSUME NEW z \in arg[t].rest, Erase(KeyOf[z]),
               Enter(t, "EraseClosed", [arg[t] EXCEPT !.rest = @ \ {z}]),
               UNCHANGED <<members, fresh>>
        PROVE  TypeInv'
    <3>1. z \in Zones /\ arg[t].rest \subseteq made
      BY <1>16, <1>a DEF EraseClosed, CallsOK
    <3>2. /\ zoneMap' \subseteq zoneMap
          /\ playerIndex' \in [Players -> Keys \cup {NoKey}]
      <4>1. KeyOf[z] \in Keys
        BY <3>1, <1>a
      <4> QED BY <2>2, <4>1, EraseType
    <3>3. CallOK("EraseClosed", [arg[t] EXCEPT !.rest = @ \ {z}])
      <4>1. PICK a : a = [arg[t] EXCEPT !.rest = @ \ {z}]
        OBVIOUS
      <4>2. arg[t].rest \ {z} \in SUBSET Zones /\ arg[t].rest \ {z} \subseteq made
        BY <3>1, <1>a
      <4>3. a \in Arguments /\ a.rest = arg[t].rest \ {z}
        BY <4>1, <4>2, <1>a DEF Arguments
      <4> QED BY <4>1, <4>2, <4>3 DEF CallOK, Calls, ZoneCalls, KeyCalls, PlayerCalls
    <3> QED BY <1>16, <2>2, <3>2, <3>3, <1>a, SMTT(60)
         DEF EraseClosed, CallOK, TypeInv, TypeOK, CallsOK, MembersOK
  <2> QED BY <1>16, <2>1, <2>2 DEF EraseClosed
<1> QED BY <1>1, <1>2, <1>3, <1>4, <1>5, <1>6, <1>7, <1>8, <1>9, <1>10, <1>11, <1>12, <1>13,
           <1>14, <1>15, <1>16 DEF Step

LEMMA InsertType ==
  ASSUME TypeInv, NEW t \in Callers, NEW z \in Zones, Insert(t, z)
  PROVE  TypeInv'
<1> USE DEF Enter
<1>a. /\ pc \in [Threads -> Calls] /\ arg \in [Threads -> Arguments]
      /\ zoneMap \subseteq made /\ made \subseteq Zones /\ KeyOf \in [Zones -> Keys]
      /\ Callers \subseteq Threads /\ PlayersOf \in [Zones -> SUBSET Players]
  BY ZonesAssumption DEF TypeInv, TypeOK, Threads
<1>1. /\ made' = made \cup {z} /\ fresh' \in [Zones -> BOOLEAN]
      /\ UNCHANGED <<members, jobs>>
  BY DEF Insert, TypeInv, TypeOK
<1>2. /\ zoneMap' \subseteq made' /\ playerIndex' \in [Players -> Keys \cup {NoKey}]
      /\ \A x, y \in zoneMap' : KeyOf[x] = KeyOf[y] => x = y
  <2>1. CASE Registered(KeyOf[z]) # {} /\ UNCHANGED <<zoneMap, playerIndex>>
    BY <1>1, <2>1 DEF TypeInv, TypeOK
  <2>2. CASE Registered(KeyOf[z]) = {} /\ zoneMap' = zoneMap \cup {z}
    <3>1. playerIndex' \in [Players -> Keys \cup {NoKey}]
      BY <1>a, <2>2 DEF Insert, TypeInv, TypeOK
    <3> QED BY <1>1, <2>2, <3>1 DEF Registered, TypeInv, TypeOK
  <2> QED BY <2>1, <2>2 DEF Insert
<1>3. \/ Enter(t, "EraseFailed", [NoArg EXCEPT !.key = KeyOf[z]])
      \/ Enter(t, "ScheduleExpire", [NoArg EXCEPT !.zone = z])
  BY DEF Insert
<1>4. pc' \in [Threads -> Calls] /\ arg' \in [Threads -> Arguments]
  BY <1>a, <1>3 DEF Arguments, NoArg, Calls
<1>5. CallsOK'
  BY <1>a, <1>1, <1>3 DEF TypeInv, CallsOK, NoArg, ZoneCalls, KeyCalls, PlayerCalls
<1>6. MembersOK'
  BY <1>1 DEF TypeInv, MembersOK
<1> QED BY <1>a, <1>1, <1>2, <1>4, <1>5, <1>6 DEF TypeInv, TypeOK

LEMMA NextType == TypeInv /\ [Next]_vars => TypeInv'
<1> SUFFICES ASSUME TypeInv, [Next]_vars PROVE TypeInv'
  OBVIOUS
<1> USE DEF Goto, Enter, zoneVars, TypeInv, TypeOK, CallsOK, MembersOK, Arguments, Calls,
            ZoneCalls, KeyCalls, PlayerCalls, NoArg
<1>a. /\ pc \in [Threads -> Calls] /\ arg \in [Threads -> Arguments]
      /\ zoneMap \subseteq made /\ made \subseteq Zones /\ KeyOf \in [Zones -> Keys]
      /\ Callers \subseteq Threads /\ Async \in Threads
      /\ PlayersOf \in [Zones -> SUBSET Players]
  BY ZonesAssumption DEF TypeInv, TypeOK, Threads
<1>1. ASSUME NEW t \in Threads, Step(t) PROVE TypeInv'
  BY <1>1, StepType
<1>2. ASSUME NEW t \in Callers, NEW z \in Zones, Insert(t, z)
      PROVE  TypeInv'
  BY <1>2, InsertType
<1>3. ASSUME NEW t \in Callers, NEW z \in Zones, TakeBack(t, z)
      PROVE  TypeInv'
  BY <1>3, <1>a, EraseType DEF TakeBack, EraseAndGoto
<1>4. ASSUME NEW t \in Callers, NEW z \in Zones, CallTerminated(t, z)
      PROVE  TypeInv'
  BY <1>4, <1>a DEF CallTerminated
<1>5. ASSUME NEW t \in Callers, NEW z \in Zones, CallUpdated(t, z)
      PROVE  TypeInv'
  BY <1>5, <1>a DEF CallUpdated
<1>6. ASSUME NEW t \in Callers, NEW p \in Players, CallLeave(t, p)
      PROVE  TypeInv'
  BY <1>6, <1>a DEF CallLeave, Jobs
<1>7. ASSUME NEW t \in Callers, NEW p \in Players, CallLeaved(t, p)
      PROVE  TypeInv'
  BY <1>7, <1>a DEF CallLeaved
<1>8. ASSUME NEW t \in Callers, NEW s \in Servers, CallServerClosed(t, s)
      PROVE  TypeInv'
  BY <1>8, <1>a DEF CallServerClosed, Jobs
<1>9. ASSUME NEW k \in Keys, RunExpire(k)
      PROVE  TypeInv'
  BY <1>9, <1>a DEF RunExpire
<1>10. ASSUME NEW p \in Players, RunLeave(p)
       PROVE  TypeInv'
  BY <1>10, <1>a DEF RunLeave
<1>11. ASSUME NEW s \in Servers, RunServerClosed(s)
       PROVE  TypeInv'
  BY <1>11, <1>a DEF RunServerClosed
<1>12. ASSUME NEW z \in Zones, GrowOld(z)
       PROVE  TypeInv'
  BY <1>12, <1>a DEF GrowOld
<1>13. CASE UNCHANGED vars
  BY <1>13 DEF vars, TypeInv, TypeOK, CallsOK, MembersOK
<1> QED BY <1>1, <1>2, <1>3, <1>4, <1>5, <1>6, <1>7, <1>8, <1>9, <1>10, <1>11, <1>12, <1>13,
           NextCases

\* The variables keep their types and a key is registered at most once, whatever
\* threads insert, leave and erase at the same time.
THEOREM ZonesTypeCorrect == Spec => []TypeOK
<1>1. TypeInv => TypeOK
  BY DEF TypeInv
<1> QED BY <1>1, InitType, NextType, PTL DEF Spec
-----------------------------------------------------------------------------
(* The index, the empty zones and the expiry jobs.                         *)

\* What the calls and the jobs begin.
LEMMA CallFrame ==
  ASSUME TypeInv, [Next]_vars, ~\E t \in Threads : Step(t),
         ~\E t \in Callers, z \in Zones : Insert(t, z) \/ TakeBack(t, z)
  PROVE  /\ UNCHANGED <<zoneMap, playerIndex, members>>
         /\ \A t \in Threads : pc[t] # "Idle" => pc'[t] = pc[t] /\ arg'[t] = arg[t]
<1>a. Callers \subseteq Threads /\ Async \in Threads
  BY DEF Threads
<1> QED BY NextCases, <1>a DEF TypeInv, TypeOK, Enter, zoneVars, vars, CallTerminated, CallUpdated,
      CallLeave, CallLeaved, CallServerClosed, RunExpire, RunLeave, RunServerClosed, GrowOld

LEMMA InitInvariants == Init => IndexNamesMember /\ EmptyZoneIsErased /\ ExpiryIsPending
BY DEF Init, IndexNamesMember, EmptyZoneIsErased, ExpiryIsPending

\* A step that erases nothing keeps the index and what its entries lead to.
LEMMA IndexKept ==
  ASSUME TypeInv, IndexNamesMember, zoneMap \subseteq zoneMap',
         UNCHANGED <<playerIndex, members>>,
         \A p \in Players : IsLeaving(p) => IsLeaving(p)'
  PROVE  IndexNamesMember'
BY DEF IndexNamesMember, Registered

\* The entries of the players of an erased zone go with it.
LEMMA EraseIndexNames ==
  ASSUME TypeInv, IndexNamesMember, NEW k \in Keys, Erase(k), members' = members,
         \A p \in Players : IsLeaving(p) => IsLeaving(p)'
  PROVE  IndexNamesMember'
<1> SUFFICES ASSUME NEW p \in Players, playerIndex'[p] # NoKey, ~IsLeaving(p)'
             PROVE  \E z \in Registered(playerIndex[p])' : p \in members[z]
  BY DEF IndexNamesMember
<1>1. playerIndex'[p] = playerIndex[p] /\ \A z \in Registered(k) : p \notin members[z]
  BY DEF Erase
<1>2. PICK z \in Registered(playerIndex[p]) : p \in members[z]
  BY <1>1 DEF IndexNamesMember
<1>3. KeyOf[z] # k
  BY <1>1, <1>2 DEF Registered
<1> QED BY <1>1, <1>2, <1>3, EraseType DEF Registered

LEMMA StepIndex ==
  ASSUME TypeInv, IndexNamesMember, NEW t \in Threads, Step(t)
  PROVE  IndexNamesMember'
<1>a. /\ pc \in [Threads -> Calls] /\ arg \in [Threads -> Arguments]
      /\ playerIndex \in [Players -> Keys \cup {NoKey}]
      /\ members \in [Zones -> SUBSET Players] /\ KeyOf \in [Zones -> Keys]
      /\ zoneMap \subseteq Zones /\ made \subseteq Zones /\ CallsOK
      /\ \A u \in Threads \ {t} : pc'[u] = pc[u] /\ arg'[u] = arg[u]
  BY StepControl, ZonesAssumption DEF TypeInv, TypeOK
<1> USE DEF Goto, Enter, zoneVars
<1>1. CASE EraseFailed(t)
  BY <1>1, <1>a, EraseIndexNames DEF EraseFailed, EraseAndGoto, IsLeaving, CallsOK, KeyCalls
<1>2. CASE ScheduleExpire(t)
  BY <1>2, <1>a, IndexKept DEF ScheduleExpire, IsLeaving
<1>3. CASE ReadIndex(t)
  BY <1>3, <1>a, IndexKept DEF ReadIndex, IsLeaving
<1>4. CASE FindZone(t)
  BY <1>4, <1>a, IndexKept DEF FindZone, IsLeaving
<1>5. CASE RemovePlayerSession(t)
  <2>1. /\ arg[t].player \in Players /\ arg[t].zone \in Zones
        /\ \A p \in Players : p = arg[t].player => IsLeaving(p)'
    BY <1>5, <1>a DEF RemovePlayerSession, CallsOK, PlayerCalls, ZoneCalls, IsLeaving
  <2>2. \A p \in Players : IsLeaving(p) => IsLeaving(p)'
    BY <1>5, <1>a DEF RemovePlayerSession, IsLeaving
  <2>3. \A p \in Players \ {arg[t].player}, z \in Zones :
          p \in members[z] => p \in members'[z]
    BY <1>5, <1>a DEF RemovePlayerSession
  <2>4. UNCHANGED <<zoneMap, playerIndex>>
    BY <1>5 DEF RemovePlayerSession
  <2>5. ASSUME NEW p \in Players, p # arg[t].player, playerIndex'[p] # NoKey, ~IsLeaving(p)'
        PROVE  \E z \in Registered(playerIndex[p])' : p \in members'[z]
    <3>1. PICK z \in Registered(playerIndex[p]) : p \in members[z]
      BY <2>2, <2>4, <2>5 DEF IndexNamesMember
    <3> QED BY <1>a, <2>3, <2>4, <2>5, <3>1 DEF Registered
  <2> QED BY <2>1, <2>4, <2>5 DEF IndexNamesMember
<1>6. CASE CheckEmpty(t)
  BY <1>6, <1>a, IndexKept DEF CheckEmpty, IsLeaving
<1>7. CASE EraseEmpty(t)
  BY <1>7, <1>a, EraseIndexNames DEF EraseEmpty, EraseAndGoto, IsLeaving, CallsOK, ZoneCalls
<1>8. CASE EraseIndex(t)
  <2>1. /\ UNCHANGED <<zoneMap, members>>
        /\ playerIndex' = [playerIndex EXCEPT ![arg[t].player] = NoKey]
    BY <1>8 DEF EraseIndex
  <2>2. \A p \in Players \ {arg[t].player} : IsLeaving(p) => IsLeaving(p)'
    BY <1>8, <1>a DEF EraseIndex, IsLeaving
  <2> QED BY <1>a, <2>1, <2>2 DEF IndexNamesMember, Registered
<1>9. CASE NextPlayer(t)
  BY <1>9, <1>a, IndexKept DEF NextPlayer, IsLeaving
<1>10. CASE EraseTerminated(t)
  BY <1>10, <1>a, EraseIndexNames DEF EraseTerminated, EraseAndGoto, IsLeaving, CallsOK
<1>11. CASE Update(t)
  BY <1>11, <1>a, IndexKept DEF Update, IsLeaving
<1>12. CASE FindExpired(t)
  BY <1>12, <1>a, IndexKept DEF FindExpired, IsLeaving
<1>13. CASE CheckExpired(t)
  BY <1>13, <1>a, IndexKept DEF CheckExpired, IsLeaving
<1>14. CASE Reschedule(t)
  BY <1>14, <1>a, IndexKept DEF Reschedule, IsLeaving
<1>15. CASE EraseExpired(t)
  BY <1>15, <1>a, EraseIndexNames DEF EraseExpired, EraseAndGoto, IsLeaving, CallsOK, ZoneCalls
<1>16. CASE EraseClosed(t)
  <2>1. \A p \in Players : IsLeaving(p) => IsLeaving(p)'
    BY <1>16, <1>a DEF EraseClosed, IsLeaving
  <2>2. ASSUME NEW z \in arg[t].rest, Erase(KeyOf[z]) PROVE KeyOf[z] \in Keys
    BY <1>16, <1>a, <2>2 DEF EraseClosed, CallsOK
  <2>3. CASE UNCHANGED zoneVars
    BY <2>1, <2>3, IndexKept
  <2>4. ASSUME NEW z \in arg[t].rest, Erase(KeyOf[z]), UNCHANGED members
        PROVE  IndexNamesMember'
    BY <2>1, <2>2, <2>4, EraseIndexNames
  <2> QED BY <1>16, <2>3, <2>4 DEF EraseClosed
<1> QED BY <1>1, <1>2, <1>3, <1>4, <1>5, <1>6, <1>7, <1>8, <1>9, <1>10, <1>11, <1>12, <1>13,
           <1>14, <1>15, <1>16 DEF Step
LEMMA NextIndex == TypeInv /\ IndexNamesMember /\ [Next]_vars => IndexNamesMember'
<1> SUFFICES ASSUME TypeInv, IndexNamesMember, [Next]_vars PROVE IndexNamesMember'
  OBVIOUS
<1> USE DEF Goto, Enter, zoneVars
<1>a. /\ pc \in [Threads -> Calls] /\ arg \in [Threads -> Arguments]
      /\ playerIndex \in [Players -> Keys \cup {NoKey}]
      /\ KeyOf \in [Zones -> Keys] /\ NoKey \notin Keys
      /\ Callers \subseteq Threads /\ Async \in Threads
  BY ZonesAssumption DEF TypeInv, TypeOK, Threads
<1>1. ASSUME NEW t \in Threads, Step(t) PROVE IndexNamesMember'
  BY <1>1, StepIndex
<1>2. ASSUME NEW t \in Callers, NEW z \in Zones, Insert(t, z)
      PROVE  IndexNamesMember'
  <2>1. /\ members' = members /\ members[z] = PlayersOf[z]
        /\ \A p \in Players : IsLeaving(p) => IsLeaving(p)'
    BY <1>2, <1>a DEF Insert, TypeInv, MembersOK, IsLeaving
  <2>2. CASE UNCHANGED <<zoneMap, playerIndex>>
    BY <2>1, <2>2, IndexKept
  <2>3. ASSUME zoneMap' = zoneMap \cup {z}, NEW entered \in SUBSET PlayersOf[z],
               playerIndex' = [p \in Players |->
                 IF p \in entered THEN KeyOf[z] ELSE playerIndex[p]]
        PROVE  IndexNamesMember'
    BY <2>1, <2>3, <1>a DEF IndexNamesMember, Registered
  <2> QED BY <1>2, <2>2, <2>3 DEF Insert
<1>3. ASSUME NEW t \in Callers, NEW z \in Zones, TakeBack(t, z)
      PROVE  IndexNamesMember'
  BY <1>3, <1>a, EraseIndexNames DEF TakeBack, EraseAndGoto, IsLeaving
<1>4. CASE /\ ~\E t \in Threads : Step(t)
           /\ ~\E t \in Callers, z \in Zones : Insert(t, z) \/ TakeBack(t, z)
  <2>1. \A p \in Players : IsLeaving(p) => IsLeaving(p)'
    BY <1>4, CallFrame DEF IsLeaving
  <2> QED BY <1>4, <2>1, CallFrame, IndexKept
<1> QED BY <1>1, <1>2, <1>3, <1>4

\* An index entry always names a registered zone that has the player, or is about
\* to be erased by the thread that took the player out of it.
THEOREM IndexNames == Spec => []IndexNamesMember
BY InitType, NextType, InitInvariants, NextIndex, PTL DEF Spec
\* Somebody looks whether the zone is empty or erases it.
IsSeenEmpty(z) ==
  \E t \in Threads : pc[t] \in {"CheckEmpty", "EraseEmpty"} /\ arg[t].zone = z

\* A step of a thread that is outside EraseByPlayerKey and takes nobody out.
LEMMA EmptyKept ==
  ASSUME TypeInv, EmptyZoneIsErased, zoneMap' \subseteq zoneMap, members' = members,
         \A z \in zoneMap' : IsSeenEmpty(z) => IsSeenEmpty(z)'
  PROVE  EmptyZoneIsErased'
BY DEF EmptyZoneIsErased, IsSeenEmpty

LEMMA StepEmpty ==
  ASSUME TypeInv, EmptyZoneIsErased, NEW t \in Threads, Step(t)
  PROVE  EmptyZoneIsErased'
<1>a. /\ pc \in [Threads -> Calls] /\ arg \in [Threads -> Arguments]
      /\ members \in [Zones -> SUBSET Players] /\ KeyOf \in [Zones -> Keys]
      /\ zoneMap \subseteq Zones /\ made \subseteq Zones /\ CallsOK
      /\ \A u \in Threads \ {t} : pc'[u] = pc[u] /\ arg'[u] = arg[u]
  BY StepControl, ZonesAssumption DEF TypeInv, TypeOK
<1>1. CASE RemovePlayerSession(t)
  <2>1. /\ zoneMap' = zoneMap /\ arg'[t] = arg[t] /\ pc'[t] = "CheckEmpty"
        /\ \A z \in Zones : z # arg[t].zone => members'[z] = members[z]
    BY <1>1, <1>a DEF RemovePlayerSession, Goto
  <2>2. \A z \in Zones : z = arg[t].zone \/ IsSeenEmpty(z) => IsSeenEmpty(z)'
    BY <1>1, <1>a, <2>1 DEF RemovePlayerSession, IsSeenEmpty
  <2>3. \A z \in zoneMap : members[z] = {} => IsSeenEmpty(z)
    BY DEF EmptyZoneIsErased, IsSeenEmpty
  <2>4. \A z \in zoneMap' : members'[z] = {} => IsSeenEmpty(z)'
    BY <1>a, <2>1, <2>2, <2>3
  <2> QED BY <2>4 DEF EmptyZoneIsErased, IsSeenEmpty
<1>2. CASE CheckEmpty(t)
  <2>1. /\ zoneMap' = zoneMap /\ members' = members /\ arg'[t] = arg[t]
        /\ members[arg[t].zone] = {} => pc'[t] = "EraseEmpty"
    BY <1>2, <1>a DEF CheckEmpty, Goto, zoneVars
  <2>2. \A z \in zoneMap : members[z] = {} /\ IsSeenEmpty(z) => IsSeenEmpty(z)'
    BY <1>2, <1>a, <2>1 DEF IsSeenEmpty
  <2> QED BY <2>1, <2>2 DEF EmptyZoneIsErased, IsSeenEmpty
<1>3. CASE EraseEmpty(t)
  <2>1. /\ arg[t].zone \in Zones /\ Erase(KeyOf[arg[t].zone]) /\ members' = members
    BY <1>3, <1>a DEF EraseEmpty, EraseAndGoto, CallsOK, ZoneCalls
  <2>2. zoneMap' \subseteq zoneMap /\ arg[t].zone \notin zoneMap'
    BY <1>a, <2>1, EraseType
  <2>3. \A z \in zoneMap' : IsSeenEmpty(z) => IsSeenEmpty(z)'
    BY <1>a, <2>2 DEF IsSeenEmpty
  <2> QED BY <2>1, <2>2, <2>3, EmptyKept
<1>4. CASE ~RemovePlayerSession(t) /\ ~CheckEmpty(t) /\ ~EraseEmpty(t)
  <2>1. members' = members /\ pc[t] \notin {"CheckEmpty", "EraseEmpty"}
    BY <1>4 DEF Step, zoneVars, EraseAndGoto, EraseFailed, ScheduleExpire, ReadIndex, FindZone,
         EraseIndex, NextPlayer, EraseTerminated, Update, FindExpired, CheckExpired, Reschedule,
         EraseExpired, EraseClosed
  <2>2. zoneMap' \subseteq zoneMap
    BY <1>4 DEF Step, zoneVars, EraseAndGoto, Erase, EraseFailed, ScheduleExpire, ReadIndex,
         FindZone, EraseIndex, NextPlayer, EraseTerminated, Update, FindExpired, CheckExpired,
         Reschedule, EraseExpired, EraseClosed
  <2>3. \A z \in zoneMap' : IsSeenEmpty(z) => IsSeenEmpty(z)'
    BY <1>a, <2>1 DEF IsSeenEmpty
  <2> QED BY <2>1, <2>2, <2>3, EmptyKept
<1> QED BY <1>1, <1>2, <1>3, <1>4
LEMMA NextEmpty == TypeInv /\ EmptyZoneIsErased /\ [Next]_vars => EmptyZoneIsErased'
<1> SUFFICES ASSUME TypeInv, EmptyZoneIsErased, [Next]_vars PROVE EmptyZoneIsErased'
  OBVIOUS
<1>a. /\ pc \in [Threads -> Calls] /\ arg \in [Threads -> Arguments]
      /\ zoneMap \subseteq Zones /\ KeyOf \in [Zones -> Keys] /\ Callers \subseteq Threads
  BY ZonesAssumption DEF TypeInv, TypeOK, Threads
<1>1. ASSUME NEW t \in Threads, Step(t) PROVE EmptyZoneIsErased'
  BY <1>1, StepEmpty
<1>2. ASSUME NEW t \in Callers, NEW z \in Zones, Insert(t, z)
      PROVE  EmptyZoneIsErased'
  <2>1. /\ zoneMap' \subseteq zoneMap \cup {z} /\ members' = members /\ members[z] # {}
    BY <1>2, ZonesAssumption DEF Insert, TypeInv, MembersOK
  <2>2. \A y \in zoneMap : IsSeenEmpty(y) => IsSeenEmpty(y)'
    BY <1>2, <1>a DEF Insert, Enter, IsSeenEmpty
  <2> QED BY <2>1, <2>2 DEF EmptyZoneIsErased, IsSeenEmpty
<1>3. ASSUME NEW t \in Callers, NEW z \in Zones, TakeBack(t, z)
      PROVE  EmptyZoneIsErased'
  <2>1. zoneMap' \subseteq zoneMap /\ members' = members
    BY <1>3, <1>a, EraseType DEF TakeBack, EraseAndGoto
  <2>2. \A y \in zoneMap : IsSeenEmpty(y) => IsSeenEmpty(y)'
    BY <1>3, <1>a DEF TakeBack, EraseAndGoto, Goto, IsSeenEmpty
  <2> QED BY <2>1, <2>2, EmptyKept
<1>4. CASE /\ ~\E t \in Threads : Step(t)
           /\ ~\E t \in Callers, z \in Zones : Insert(t, z) \/ TakeBack(t, z)
  <2>1. \A z \in zoneMap : IsSeenEmpty(z) => IsSeenEmpty(z)'
    BY <1>4, CallFrame DEF IsSeenEmpty
  <2> QED BY <1>4, <2>1, CallFrame, EmptyKept
<1> QED BY <1>1, <1>2, <1>3, <1>4

\* Of several players who leave a zone at once one finds it empty: no empty zone
\* stays registered that nobody is looking at.
THEOREM EmptyZones == Spec => []EmptyZoneIsErased
BY InitType, NextType, InitInvariants, NextEmpty, PTL DEF Spec

\* A zone's expiry is ahead: ExpiryIsPending of one zone.
IsPending(z) ==
  \/ ExpireJob(z) \in jobs
  \/ \E t \in Threads :
       \/ pc[t] \in {"ScheduleExpire", "CheckExpired", "Reschedule", "EraseExpired"}
            /\ KeyOf[arg[t].zone] = KeyOf[z]
       \/ pc[t] \in {"EraseFailed", "FindExpired"} /\ arg[t].key = KeyOf[z]

LEMMA PendingKept ==
  ASSUME TypeInv, ExpiryIsPending, zoneMap' \subseteq zoneMap,
         \A z \in zoneMap' : IsPending(z) => IsPending(z)'
  PROVE  ExpiryIsPending'
BY DEF ExpiryIsPending, IsPending

PendingCalls == {"ScheduleExpire", "CheckExpired", "Reschedule", "EraseExpired",
                 "EraseFailed", "FindExpired"}

LEMMA StepPending ==
  ASSUME TypeInv, ExpiryIsPending, NEW t \in Threads, Step(t)
  PROVE  ExpiryIsPending'
<1>a. /\ pc \in [Threads -> Calls] /\ arg \in [Threads -> Arguments]
      /\ KeyOf \in [Zones -> Keys]
      /\ zoneMap \subseteq Zones /\ made \subseteq Zones /\ CallsOK
      /\ \A u \in Threads \ {t} : pc'[u] = pc[u] /\ arg'[u] = arg[u]
  BY StepControl, ZonesAssumption DEF TypeInv, TypeOK
<1>b. jobs \subseteq jobs' /\ zoneMap' \subseteq zoneMap
  BY DEF Step, zoneVars, EraseAndGoto, Erase, EraseFailed, ScheduleExpire, ReadIndex, FindZone,
       RemovePlayerSession, CheckEmpty, EraseEmpty, EraseIndex, NextPlayer, EraseTerminated,
       Update, FindExpired, CheckExpired, Reschedule, EraseExpired, EraseClosed
<1>1. CASE EraseFailed(t) \/ EraseExpired(t)
  <2> DEFINE k == IF EraseFailed(t) THEN arg[t].key ELSE KeyOf[arg[t].zone]
  <2>1. /\ k \in Keys /\ Erase(k) /\ pc[t] \in {"EraseFailed", "EraseExpired"}
        /\ pc[t] = "EraseFailed" => arg[t].key = k
        /\ pc[t] = "EraseExpired" => KeyOf[arg[t].zone] = k
    BY <1>1, <1>a DEF EraseFailed, EraseExpired, EraseAndGoto, CallsOK, ZoneCalls, KeyCalls
  <2> HIDE DEF k
  <2>2. \A z \in zoneMap' : KeyOf[z] # k
    BY <1>b, <2>1, EraseType
  <2>3. \A z \in zoneMap' : IsPending(z) => IsPending(z)'
    <3> SUFFICES ASSUME NEW z \in zoneMap', IsPending(z), ExpireJob(z) \notin jobs
                 PROVE  IsPending(z)'
      BY <1>b DEF IsPending, ExpireJob
    <3>1. PICK u \in Threads :
            \/ pc[u] \in {"ScheduleExpire", "CheckExpired", "Reschedule", "EraseExpired"}
                 /\ KeyOf[arg[u].zone] = KeyOf[z]
            \/ pc[u] \in {"EraseFailed", "FindExpired"} /\ arg[u].key = KeyOf[z]
      BY DEF IsPending
    <3>2. u # t
      BY <2>1, <2>2, <3>1
    <3> QED BY <1>a, <3>1, <3>2 DEF IsPending
  <2> QED BY <1>b, <2>3, PendingKept
<1>2. CASE ScheduleExpire(t) \/ Reschedule(t)
  <2>1. ExpireJob(arg[t].zone) \in jobs' /\ pc[t] \in {"ScheduleExpire", "Reschedule"}
    BY <1>2 DEF ScheduleExpire, Reschedule
  <2>2. \A z \in zoneMap' : IsPending(z) => IsPending(z)'
    BY <1>a, <1>b, <2>1 DEF IsPending, ExpireJob
  <2> QED BY <1>b, <2>2, PendingKept
<1>3. CASE FindExpired(t)
  <2>1. CASE Registered(arg[t].key) = {}
    <3>1. \A z \in zoneMap' : KeyOf[z] # arg[t].key
      BY <1>b, <2>1 DEF Registered
    <3>2. \A z \in zoneMap' : IsPending(z) => IsPending(z)'
      BY <1>a, <1>b, <1>3, <3>1 DEF FindExpired, IsPending, ExpireJob
    <3> QED BY <1>b, <3>2, PendingKept
  <2>2. ASSUME NEW y \in Registered(arg[t].key),
               Enter(t, "CheckExpired", [arg[t] EXCEPT !.zone = y, !.key = NoKey])
        PROVE  ExpiryIsPending'
    <3>1. /\ pc[t] = "FindExpired" /\ pc'[t] = "CheckExpired" /\ arg'[t].zone = y
          /\ KeyOf[y] = arg[t].key
      <4>1. pc[t] = "FindExpired"
        BY <1>3 DEF FindExpired
      <4>2. KeyOf[y] = arg[t].key
        BY DEF Registered
      <4>3. arg[t] \in Arguments /\ arg'[t] = [arg[t] EXCEPT !.zone = y, !.key = NoKey]
        BY <1>a, <2>2 DEF Enter
      <4>4. pc'[t] = "CheckExpired"
        BY <1>a, <2>2 DEF Enter
      <4>5. arg'[t].zone = y
        BY <4>3 DEF Arguments
      <4> QED BY <4>1, <4>2, <4>4, <4>5
    <3>2. \A z \in zoneMap' : IsPending(z) => IsPending(z)'
      BY <1>a, <1>b, <3>1 DEF IsPending, ExpireJob
    <3> QED BY <1>b, <3>2, PendingKept
  <2> QED BY <1>3, <2>1, <2>2 DEF FindExpired
<1>4. CASE CheckExpired(t)
  <2>1. /\ pc'[t] \in {"Reschedule", "EraseExpired"} /\ arg'[t] = arg[t]
        /\ pc[t] = "CheckExpired"
    BY <1>4, <1>a DEF CheckExpired, Goto
  <2>2. \A z \in zoneMap' : IsPending(z) => IsPending(z)'
    BY <1>a, <1>b, <2>1 DEF IsPending, ExpireJob
  <2> QED BY <1>b, <2>2, PendingKept
<1>5. CASE pc[t] \notin PendingCalls
  <2>1. \A z \in zoneMap' : IsPending(z) => IsPending(z)'
    BY <1>a, <1>b, <1>5 DEF IsPending, ExpireJob, PendingCalls
  <2> QED BY <1>b, <2>1, PendingKept
<1> QED BY <1>1, <1>2, <1>3, <1>4, <1>5 DEF Step, PendingCalls,
      EraseFailed, ScheduleExpire, ReadIndex, FindZone,
      RemovePlayerSession, CheckEmpty, EraseEmpty, EraseIndex, NextPlayer, EraseTerminated,
      Update, FindExpired, CheckExpired, Reschedule, EraseExpired, EraseClosed

LEMMA NextPending == TypeInv /\ ExpiryIsPending /\ [Next]_vars => ExpiryIsPending'
<1> SUFFICES ASSUME TypeInv, ExpiryIsPending, [Next]_vars PROVE ExpiryIsPending'
  OBVIOUS
<1>a. /\ pc \in [Threads -> Calls] /\ arg \in [Threads -> Arguments]
      /\ zoneMap \subseteq Zones /\ KeyOf \in [Zones -> Keys]
      /\ Callers \subseteq Threads /\ Async \in Threads
  BY ZonesAssumption DEF TypeInv, TypeOK, Threads
<1>1. ASSUME NEW t \in Threads, Step(t) PROVE ExpiryIsPending'
  BY <1>1, StepPending
<1>2. ASSUME NEW t \in Callers, NEW z \in Zones, Insert(t, z)
      PROVE  ExpiryIsPending'
  <2>1. /\ zoneMap' \subseteq zoneMap \cup {z} /\ jobs' = jobs /\ pc[t] = "Idle"
        /\ \A u \in Threads \ {t} : pc'[u] = pc[u] /\ arg'[u] = arg[u]
    BY <1>2, <1>a DEF Insert, Enter
  <2>2. \/ pc'[t] = "EraseFailed" /\ arg'[t].key = KeyOf[z]
        \/ pc'[t] = "ScheduleExpire" /\ arg'[t].zone = z
    BY <1>2, <1>a DEF Insert, Enter, NoArg
  <2>3. IsPending(z)' /\ \A y \in zoneMap : IsPending(y) => IsPending(y)'
    BY <1>a, <2>1, <2>2 DEF IsPending, ExpireJob
  <2> QED BY <2>1, <2>3 DEF ExpiryIsPending, IsPending
<1>3. ASSUME NEW t \in Callers, NEW z \in Zones, TakeBack(t, z)
      PROVE  ExpiryIsPending'
  <2>1. zoneMap' \subseteq zoneMap
    BY <1>3, <1>a DEF TakeBack, EraseAndGoto, Erase
  <2>2. \A y \in zoneMap : IsPending(y) => IsPending(y)'
    <3>1. /\ pc[t] = "Idle" /\ jobs' = jobs
          /\ \A u \in Threads \ {t} : pc'[u] = pc[u] /\ arg'[u] = arg[u]
      BY <1>3, <1>a DEF TakeBack, EraseAndGoto, Goto
    <3> QED BY <1>a, <3>1 DEF IsPending, ExpireJob
  <2> QED BY <2>1, <2>2, PendingKept
<1>4. ASSUME NEW k \in Keys, RunExpire(k)
      PROVE  ExpiryIsPending'
  <2>1. /\ zoneMap' = zoneMap /\ jobs' = jobs \ {[kind |-> "expire", key |-> k]}
        /\ pc[Async] = "Idle" /\ pc'[Async] = "FindExpired" /\ arg'[Async].key = k
        /\ \A u \in Threads \ {Async} : pc'[u] = pc[u] /\ arg'[u] = arg[u]
    BY <1>4, <1>a DEF RunExpire, Enter, NoArg, zoneVars
  <2>2. \A y \in zoneMap : IsPending(y) => IsPending(y)'
    BY <1>a, <2>1 DEF IsPending, ExpireJob
  <2> QED BY <2>1, <2>2, PendingKept
<1>5. CASE /\ ~\E t \in Threads : Step(t)
           /\ ~\E t \in Callers, z \in Zones : Insert(t, z) \/ TakeBack(t, z)
           /\ ~\E k \in Keys : RunExpire(k)
  <2>1. \A z \in Zones : ExpireJob(z) \in jobs => ExpireJob(z) \in jobs'
    BY <1>5, NextCases DEF CallTerminated, CallUpdated, CallLeave, CallLeaved, CallServerClosed,
         RunLeave, RunServerClosed, GrowOld, vars, ExpireJob
  <2>2. /\ zoneMap' = zoneMap
        /\ \A t \in Threads : pc[t] # "Idle" => pc'[t] = pc[t] /\ arg'[t] = arg[t]
    BY <1>5, CallFrame
  <2>3. \A z \in zoneMap : IsPending(z) => IsPending(z)'
    BY <1>a, <2>1, <2>2 DEF IsPending, ExpireJob
  <2> QED BY <2>2, <2>3, PendingKept
<1> QED BY <1>1, <1>2, <1>3, <1>4, <1>5

\* Every registered zone has its expiry ahead, also when its first expiry job
\* met an earlier zone of the key or an updated one.
THEOREM ExpiryPending == Spec => []ExpiryIsPending
BY InitType, NextType, InitInvariants, NextPending, PTL DEF Spec

-----------------------------------------------------------------------------
(* What a step of a handler does to what the threads share, for the proofs *)
(* of modules that use this one.                                           *)

\* A step erases zones, an index entry or a player of a zone, or changes nothing
\* of the three.
LEMMA StepErases ==
  ASSUME TypeInv, NEW t \in Threads, Step(t)
  PROVE  /\ \/ UNCHANGED <<zoneMap, playerIndex>>
            \/ /\ pc[t] = "EraseIndex" /\ zoneMap' = zoneMap
               /\ playerIndex' = [playerIndex EXCEPT ![arg[t].player] = NoKey]
            \/ \E k \in Keys : Erase(k)
         /\ IF pc[t] = "Remove"
            THEN members' = [members EXCEPT ![arg[t].zone] = @ \ {arg[t].player}]
            ELSE members' = members
         /\ pc[t] = "EraseFailed" => Erase(arg[t].key)
<1>a. /\ arg[t] \in Arguments /\ zoneMap \subseteq Zones /\ made \subseteq Zones
      /\ KeyOf \in [Zones -> Keys] /\ CallsOK
  BY ZonesAssumption DEF TypeInv, TypeOK
<1> USE DEF zoneVars, EraseAndGoto
<1>1. CASE EraseFailed(t) BY <1>1, <1>a DEF EraseFailed, CallsOK, KeyCalls
<1>2. CASE ScheduleExpire(t) BY <1>2 DEF ScheduleExpire
<1>3. CASE ReadIndex(t) \/ FindZone(t) BY <1>3 DEF ReadIndex, FindZone
<1>4. CASE RemovePlayerSession(t) BY <1>4 DEF RemovePlayerSession
<1>5. CASE CheckEmpty(t) BY <1>5 DEF CheckEmpty
<1>6. CASE EraseEmpty(t) BY <1>6, <1>a DEF EraseEmpty, CallsOK, ZoneCalls
<1>7. CASE EraseIndex(t) BY <1>7 DEF EraseIndex
<1>8. CASE NextPlayer(t) BY <1>8 DEF NextPlayer
<1>9. CASE EraseTerminated(t) BY <1>9, <1>a DEF EraseTerminated, CallsOK
<1>10. CASE Update(t) BY <1>10 DEF Update
<1>11. CASE FindExpired(t) \/ CheckExpired(t) \/ Reschedule(t)
  BY <1>11 DEF FindExpired, CheckExpired, Reschedule
<1>12. CASE EraseExpired(t) BY <1>12, <1>a DEF EraseExpired, CallsOK, ZoneCalls
<1>13. CASE EraseClosed(t)
  <2>1. pc[t] = "EraseClosed" /\ arg[t].rest \subseteq Zones
    BY <1>13, <1>a DEF EraseClosed, CallsOK
  <2> QED BY <1>13, <1>a, <2>1 DEF EraseClosed
<1> QED BY <1>1, <1>2, <1>3, <1>4, <1>5, <1>6, <1>7, <1>8, <1>9, <1>10, <1>11, <1>12, <1>13
        DEF Step

\* Where a thread comes from that is about to look at the zone of a player, to
\* take him out of it or to erase his index entry, and what it takes with it.
LEMMA StepLeaves ==
  ASSUME TypeInv, NEW t \in Threads, Step(t)
  PROVE  /\ pc'[t] = "FindZone" =>
              /\ pc[t] = "ReadIndex" /\ arg'[t].player = arg[t].player
              /\ arg'[t].key = playerIndex[arg[t].player] /\ arg'[t].key # NoKey
         /\ pc'[t] = "Remove" =>
              /\ pc[t] = "FindZone" /\ arg'[t].player = arg[t].player
              /\ arg'[t].zone \in Registered(arg[t].key)
         /\ pc'[t] = "CheckEmpty" => pc[t] = "Remove" /\ arg'[t] = arg[t]
         /\ pc'[t] \in {"EraseEmpty", "EraseIndex"} =>
              pc[t] \in {"CheckEmpty", "EraseEmpty"} /\ arg'[t] = arg[t]
         /\ pc[t] \in {"EraseFailed", "ScheduleExpire"} => pc'[t] = "Idle"
         /\ pc'[t] \notin {"EraseFailed", "ScheduleExpire"}
         /\ \/ arg'[t].ending = arg[t].ending
            \/ arg'[t].ending = NoKey /\ pc'[t] = "Idle"
<1>a. /\ pc \in [Threads -> Calls] /\ arg \in [Threads -> Arguments]
      /\ arg[t] \in Arguments
  BY DEF TypeInv, TypeOK
<1>b. \A call : Goto(t, call) =>
         pc'[t] = call /\ arg'[t] = IF call = "Idle" THEN NoArg ELSE arg[t]
  BY <1>a DEF Goto
<1>c. \A call, a : Enter(t, call, a) => pc'[t] = call /\ arg'[t] = a
  BY <1>a DEF Enter
<1>d. NoArg.ending = NoKey
  BY DEF NoArg
<1> USE DEF EraseAndGoto, Arguments
<1>1. CASE EraseFailed(t) BY <1>1, <1>a, <1>b, <1>c, <1>d DEF EraseFailed
<1>2. CASE ScheduleExpire(t) BY <1>2, <1>a, <1>b, <1>c, <1>d DEF ScheduleExpire
<1>3. CASE ReadIndex(t) BY <1>3, <1>a, <1>b, <1>c, <1>d DEF ReadIndex
<1>4. CASE FindZone(t)
  <2>1. ASSUME NEW z \in Registered(arg[t].key),
               Enter(t, "Remove", [arg[t] EXCEPT !.zone = z, !.key = NoKey])
        PROVE  /\ pc'[t] = "Remove" /\ arg'[t].zone = z /\ arg'[t].player = arg[t].player
               /\ arg'[t].ending = arg[t].ending
    BY <2>1, <1>a, <1>c
  <2>2. pc[t] = "FindZone"
    BY <1>4 DEF FindZone
  <2>3. CASE Goto(t, "NextPlayer") BY <2>2, <2>3, <1>b
  <2> QED BY <1>4, <2>1, <2>2, <2>3 DEF FindZone
<1>5. CASE RemovePlayerSession(t) BY <1>5, <1>a, <1>b, <1>c, <1>d DEF RemovePlayerSession
<1>6. CASE CheckEmpty(t) BY <1>6, <1>a, <1>b, <1>c, <1>d DEF CheckEmpty
<1>7. CASE EraseEmpty(t) BY <1>7, <1>a, <1>b, <1>c, <1>d DEF EraseEmpty
<1>8. CASE EraseIndex(t) BY <1>8, <1>a, <1>b, <1>c, <1>d DEF EraseIndex
<1>9. CASE NextPlayer(t)
  <2>1. ASSUME NEW p,
               Enter(t, "ReadIndex",
                     [arg[t] EXCEPT !.player = p, !.zone = NoZone, !.rest = @ \ {p}])
        PROVE  pc'[t] = "ReadIndex" /\ arg'[t].ending = arg[t].ending
    BY <2>1, <1>a, <1>c
  <2>2. pc[t] = "NextPlayer"
    BY <1>9 DEF NextPlayer
  <2>3. CASE Goto(t, "Idle") \/ Goto(t, "EraseTerminated") BY <2>2, <2>3, <1>b, <1>d
  <2> QED BY <1>9, <2>1, <2>2, <2>3 DEF NextPlayer
<1>10. CASE EraseTerminated(t) BY <1>10, <1>a, <1>b, <1>c, <1>d DEF EraseTerminated
<1>11. CASE Update(t) BY <1>11, <1>a, <1>b, <1>c, <1>d DEF Update
<1>12. CASE FindExpired(t)
  <2>1. ASSUME NEW z, Enter(t, "CheckExpired", [arg[t] EXCEPT !.zone = z, !.key = NoKey])
        PROVE  pc'[t] = "CheckExpired" /\ arg'[t].ending = arg[t].ending
    BY <2>1, <1>a, <1>c
  <2>2. pc[t] = "FindExpired"
    BY <1>12 DEF FindExpired
  <2>3. CASE Goto(t, "Idle") BY <2>2, <2>3, <1>b, <1>d
  <2> QED BY <1>12, <2>1, <2>2, <2>3 DEF FindExpired
<1>13. CASE CheckExpired(t) BY <1>13, <1>a, <1>b, <1>c, <1>d DEF CheckExpired
<1>14. CASE Reschedule(t) BY <1>14, <1>a, <1>b, <1>c, <1>d DEF Reschedule
<1>15. CASE EraseExpired(t) BY <1>15, <1>a, <1>b, <1>c, <1>d DEF EraseExpired
<1>16. CASE EraseClosed(t)
  <2>1. ASSUME NEW z, Enter(t, "EraseClosed", [arg[t] EXCEPT !.rest = @ \ {z}])
        PROVE  pc'[t] = "EraseClosed" /\ arg'[t].ending = arg[t].ending
    BY <2>1, <1>a, <1>c
  <2>2. pc[t] = "EraseClosed"
    BY <1>16 DEF EraseClosed
  <2>3. CASE Goto(t, "Idle") BY <2>2, <2>3, <1>b, <1>d
  <2> QED BY <1>16, <2>1, <2>2, <2>3 DEF EraseClosed
<1> QED BY <1>1, <1>2, <1>3, <1>4, <1>5, <1>6, <1>7, <1>8, <1>9, <1>10, <1>11, <1>12, <1>13,
           <1>14, <1>15, <1>16 DEF Step

=============================================================================
