--------------------------- MODULE ZoneInstances ---------------------------
(***************************************************************************)
(* CIntegrationZoneInstanceManager: the zones of completed matches, from   *)
(* their registration until the last player has left, the server has       *)
(* closed or nothing was heard of them for a while.                        *)
(*                                                                         *)
(* Callers are the threads of the session manager and of the integration   *)
(* servers' messages; Async is the one thread of m_AsyncJobWorker.  The    *)
(* zone map and its player index have a mutex each and a zone instance has *)
(* a third; a handler takes them one after the other, so one action is one *)
(* critical section and pc says which comes next.                          *)
(*                                                                         *)
(* A zone of the model is one CIntegrationZoneInstance.  Two of them may   *)
(* have the same key (world number and GUID).  Of the clock only what the  *)
(* code compares it for is kept: fresh says that kExpireDelayMsec has not  *)
(* passed since the zone's last update.  Whether a leave is a dodge goes   *)
(* with the call to the penalty manager, which has a state of its own.     *)
(***************************************************************************)
EXTENDS FiniteSets

CONSTANTS
  Players,    \* player keys
  Zones,      \* the zone instances that are ever made
  Keys,       \* zone keys
  KeyOf,      \* the key of a zone
  PlayersOf,  \* the players a zone is made with
  ServerOf,   \* the world and session key of a zone's integration server
  Callers,    \* caller threads
  Async,      \* the thread of m_AsyncJobWorker
  NoKey, NoZone, NoPlayer

Servers == {ServerOf[z] : z \in Zones}

ASSUME ZonesAssumption ==
  /\ KeyOf \in [Zones -> Keys]
  /\ PlayersOf \in [Zones -> (SUBSET Players) \ {{}}]
  /\ NoKey \notin Keys /\ NoZone \notin Zones /\ NoPlayer \notin Players
  /\ Async \notin Callers

Threads == Callers \cup {Async}

\* Jobs: the expiry of a key, a player's leave, the close of a server.
Jobs == [kind : {"expire"}, key : Keys]
        \cup [kind : {"leave"}, player : Players]
        \cup [kind : {"closed"}, server : Servers]

\* The call a thread makes next; "Idle" is outside the manager.
Calls == {"Idle", "ScheduleExpire", "EraseFailed",
          "ReadIndex", "FindZone", "Remove", "CheckEmpty",
          "EraseEmpty", "EraseIndex", "NextPlayer", "EraseTerminated",
          "Update", "FindExpired", "CheckExpired", "Reschedule", "EraseExpired",
          "EraseClosed"}

VARIABLES
  zoneMap,      \* m_IntegrationZoneInstanceMap: the registered zones
  playerIndex,  \* m_IntegrationZoneInstanceFindMapByPlayerKey
  members,      \* m_PlayerSessions of a zone
  fresh,        \* GetExpireTimeMsec of a zone lies in the future
  made,         \* the zones Insert was called for
  jobs,         \* m_AsyncJobWorker's waiting queue
  pc,           \* the call a thread makes next
  arg           \* what its handler works on

zoneVars == <<zoneMap, playerIndex, members, fresh>>
vars == <<zoneMap, playerIndex, members, fresh, made, jobs, pc, arg>>

\* key and zone: what is looked up and what was found; player: who leaves;
\* rest: the players or zones a loop has still to visit; ending: the key of the
\* terminated zone whose players the loop visits.
NoArg == [zone |-> NoZone, key |-> NoKey, player |-> NoPlayer,
          rest |-> {}, ending |-> NoKey]

Init ==
  /\ zoneMap = {}
  /\ playerIndex = [p \in Players |-> NoKey]
  /\ members = PlayersOf
  /\ fresh = [z \in Zones |-> TRUE]
  /\ made = {}
  /\ jobs = {}
  /\ pc = [t \in Threads |-> "Idle"]
  /\ arg = [t \in Threads |-> NoArg]

-----------------------------------------------------------------------------

Goto(t, call) ==
  /\ pc' = [pc EXCEPT ![t] = call]
  /\ arg' = IF call = "Idle" THEN [arg EXCEPT ![t] = NoArg] ELSE arg

Enter(t, call, a) ==
  /\ pc' = [pc EXCEPT ![t] = call]
  /\ arg' = [arg EXCEPT ![t] = a]

\* Find: the registered zones with the key, at most one.
Registered(k) == {z \in zoneMap : KeyOf[z] = k}

\* A variant with a bug: the index keeps the players of the erased zone.
EraseOnly(k) ==
  /\ zoneMap' = zoneMap \ Registered(k)
  /\ UNCHANGED playerIndex

\* Erase: the zone registered under the key goes, and with it the index
\* entries of its players, whatever zone they name.
Erase(k) ==
  /\ zoneMap' = zoneMap \ Registered(k)
  /\ playerIndex' = [p \in Players |->
       IF \E z \in Registered(k) : p \in members[z] THEN NoKey ELSE playerIndex[p]]

\* A thread erases the zone registered under a key and goes on.
EraseAndGoto(t, k, call) ==
  /\ Erase(k)
  /\ Goto(t, call)
  /\ UNCHANGED <<members, fresh, made, jobs>>

-----------------------------------------------------------------------------
(* Variants of the operations below with a bug each could have; no action  *)
(* uses them.                                                              *)

\* Nobody looks whether the player was the last one.
RemoveWithoutCheck(t) ==
  /\ pc[t] = "Remove"
  /\ members' = [members EXCEPT ![arg[t].zone] = @ \ {arg[t].player}]
  /\ Goto(t, "EraseIndex")
  /\ UNCHANGED <<zoneMap, playerIndex, fresh, made, jobs>>

\* A zone that was updated in time is not looked at again.
CheckExpiredOnce(t) ==
  /\ pc[t] = "CheckExpired"
  /\ Goto(t, IF fresh[arg[t].zone] THEN "Idle" ELSE "EraseExpired")
  /\ UNCHANGED <<zoneVars, made, jobs>>

\* The zone is registered beside another one of its key.
InsertUnchecked(t, z) ==
  /\ pc[t] = "Idle" /\ z \notin made
  /\ made' = made \cup {z}
  /\ fresh' = [fresh EXCEPT ![z] = TRUE]
  /\ zoneMap' = zoneMap \cup {z}
  /\ playerIndex' = [p \in Players |-> IF p \in PlayersOf[z] THEN KeyOf[z] ELSE playerIndex[p]]
  /\ Enter(t, "ScheduleExpire", [NoArg EXCEPT !.zone = z])
  /\ UNCHANGED <<members, jobs>>

\* The index entry of a player who is in another zone is overwritten.
InsertOverwriting(t, z) ==
  /\ pc[t] = "Idle" /\ z \notin made /\ Registered(KeyOf[z]) = {}
  /\ made' = made \cup {z}
  /\ fresh' = [fresh EXCEPT ![z] = TRUE]
  /\ zoneMap' = zoneMap \cup {z}
  /\ playerIndex' = [p \in Players |-> IF p \in PlayersOf[z] THEN KeyOf[z] ELSE playerIndex[p]]
  /\ Enter(t, "ScheduleExpire", [NoArg EXCEPT !.zone = z])
  /\ UNCHANGED <<members, jobs>>

\* Only the index entry of a player who has left is erased.
RemoveNothing(t) ==
  /\ pc[t] = "Remove"
  /\ Goto(t, "CheckEmpty")
  /\ UNCHANGED <<zoneVars, made, jobs>>

\* The index entry of a player who has left is kept.
EraseIndexKept(t) ==
  /\ pc[t] = "EraseIndex"
  /\ Goto(t, "NextPlayer")
  /\ UNCHANGED <<zoneVars, made, jobs>>

-----------------------------------------------------------------------------
(* Registration.                                                           *)

\* Insert under the mutex of the zone map.  A player who is in the index ends
\* it half way: the players before that one have been entered.
Insert(t, z) ==
  /\ pc[t] = "Idle" /\ z \notin made
  /\ made' = made \cup {z}
  /\ fresh' = [fresh EXCEPT ![z] = TRUE]
  /\ \/ /\ Registered(KeyOf[z]) # {}
        /\ Enter(t, "EraseFailed", [NoArg EXCEPT !.key = KeyOf[z]])
        /\ UNCHANGED <<zoneMap, playerIndex>>
     \/ /\ Registered(KeyOf[z]) = {}
        /\ zoneMap' = zoneMap \cup {z}
        /\ LET free == {p \in PlayersOf[z] : playerIndex[p] = NoKey} IN
           \E entered \in SUBSET free :
             /\ free = PlayersOf[z] => entered = free
             /\ playerIndex' = [p \in Players |->
                  IF p \in entered THEN KeyOf[z] ELSE playerIndex[p]]
             /\ IF free = PlayersOf[z]
                THEN Enter(t, "ScheduleExpire", [NoArg EXCEPT !.zone = z])
                ELSE Enter(t, "EraseFailed", [NoArg EXCEPT !.key = KeyOf[z]])
  /\ UNCHANGED <<members, jobs>>

EraseFailed(t) ==
  /\ pc[t] = "EraseFailed"
  /\ EraseAndGoto(t, arg[t].key, "Idle")

ExpireJob(z) == [kind |-> "expire", key |-> KeyOf[z]]

ScheduleExpire(t) ==
  /\ pc[t] = "ScheduleExpire"
  /\ jobs' = jobs \cup {ExpireJob(arg[t].zone)}
  /\ Goto(t, "Idle")
  /\ UNCHANGED <<zoneVars, made>>

\* CMatchSessionManager takes a zone back whose match was not completed.
TakeBack(t, z) ==
  /\ pc[t] = "Idle" /\ z \in made
  /\ EraseAndGoto(t, KeyOf[z], "Idle")

-----------------------------------------------------------------------------
(* A player leaves.                                                        *)

\* Process_PlayerLeave_ToIntegrationServer: the job looks the zone up again, so
\* the two lookups here are one read.
CallLeave(t, p) ==
  /\ pc[t] = "Idle"
  /\ playerIndex[p] # NoKey /\ Registered(playerIndex[p]) # {}
  /\ jobs' = jobs \cup {[kind |-> "leave", player |-> p]}
  /\ UNCHANGED <<zoneVars, made, pc, arg>>

\* Process_PlayerLeaved_FromIntegrationServer
CallLeaved(t, p) ==
  /\ pc[t] = "Idle"
  /\ Enter(t, "ReadIndex", [NoArg EXCEPT !.player = p])
  /\ UNCHANGED <<zoneVars, made, jobs>>

\* FindByPlayerKey reads the index and then the map.
ReadIndex(t) ==
  LET k == playerIndex[arg[t].player] IN
  /\ pc[t] = "ReadIndex"
  /\ IF k = NoKey THEN Goto(t, "NextPlayer")
     ELSE Enter(t, "FindZone", [arg[t] EXCEPT !.key = k])
  /\ UNCHANGED <<zoneVars, made, jobs>>

FindZone(t) ==
  /\ pc[t] = "FindZone"
  /\ \/ /\ Registered(arg[t].key) = {}
        /\ Goto(t, "NextPlayer")
     \/ \E z \in Registered(arg[t].key) :
          Enter(t, "Remove", [arg[t] EXCEPT !.zone = z, !.key = NoKey])
  /\ UNCHANGED <<zoneVars, made, jobs>>

\* EraseByPlayerKey: the player, the empty zone, the index entry.
RemovePlayerSession(t) ==
  /\ pc[t] = "Remove"
  /\ members' = [members EXCEPT ![arg[t].zone] = @ \ {arg[t].player}]
  /\ Goto(t, "CheckEmpty")
  /\ UNCHANGED <<zoneMap, playerIndex, fresh, made, jobs>>

CheckEmpty(t) ==
  /\ pc[t] = "CheckEmpty"
  /\ Goto(t, IF members[arg[t].zone] = {} THEN "EraseEmpty" ELSE "EraseIndex")
  /\ UNCHANGED <<zoneVars, made, jobs>>

EraseEmpty(t) ==
  /\ pc[t] = "EraseEmpty"
  /\ EraseAndGoto(t, KeyOf[arg[t].zone], "EraseIndex")

EraseIndex(t) ==
  /\ pc[t] = "EraseIndex"
  /\ playerIndex' = [playerIndex EXCEPT ![arg[t].player] = NoKey]
  /\ Goto(t, "NextPlayer")
  /\ UNCHANGED <<zoneMap, members, fresh, made, jobs>>

\* The end of Process_PlayerLeaved: the loop over the players of a terminated
\* zone goes on, or erases the zone.
NextPlayer(t) ==
  /\ pc[t] = "NextPlayer"
  /\ \/ arg[t].ending = NoKey /\ Goto(t, "Idle")
     \/ arg[t].ending # NoKey /\ arg[t].rest = {} /\ Goto(t, "EraseTerminated")
     \/ \E p \in arg[t].rest :
          Enter(t, "ReadIndex", [arg[t] EXCEPT !.player = p, !.zone = NoZone, !.rest = @ \ {p}])
  /\ UNCHANGED <<zoneVars, made, jobs>>

-----------------------------------------------------------------------------
(* Messages about a zone.                                                  *)

\* Process_ZoneInstanceTerminated: the message names the players, also those
\* who have left the zone.
CallTerminated(t, z) ==
  /\ pc[t] = "Idle"
  /\ Registered(KeyOf[z]) # {}
  /\ Enter(t, "NextPlayer", [NoArg EXCEPT
       !.ending = KeyOf[z], !.rest = PlayersOf[z]])
  /\ UNCHANGED <<zoneVars, made, jobs>>

EraseTerminated(t) ==
  /\ pc[t] = "EraseTerminated"
  /\ EraseAndGoto(t, arg[t].ending, "Idle")

\* Process_ZoneInstanceInfoUpdated: the zone is found and then updated.
CallUpdated(t, z) ==
  /\ pc[t] = "Idle" /\ z \in zoneMap
  /\ Enter(t, "Update", [NoArg EXCEPT !.zone = z])
  /\ UNCHANGED <<zoneVars, made, jobs>>

Update(t) ==
  /\ pc[t] = "Update"
  /\ fresh' = [fresh EXCEPT ![arg[t].zone] = TRUE]
  /\ Goto(t, "Idle")
  /\ UNCHANGED <<zoneMap, playerIndex, members, made, jobs>>

\* Process_IntegrationServerClosed
CallServerClosed(t, s) ==
  /\ pc[t] = "Idle"
  /\ jobs' = jobs \cup {[kind |-> "closed", server |-> s]}
  /\ UNCHANGED <<zoneVars, made, pc, arg>>

-----------------------------------------------------------------------------
(* The jobs of the asynchronous worker.                                    *)

RunExpire(k) ==
  /\ pc[Async] = "Idle"
  /\ [kind |-> "expire", key |-> k] \in jobs
  /\ jobs' = jobs \ {[kind |-> "expire", key |-> k]}
  /\ Enter(Async, "FindExpired", [NoArg EXCEPT !.key = k])
  /\ UNCHANGED <<zoneVars, made>>

\* Process_ZoneInstanceExpireAsync: find the zone, look at its expiry, and
\* either schedule the job again or erase what has the key by then.
FindExpired(t) ==
  /\ pc[t] = "FindExpired"
  /\ \/ Registered(arg[t].key) = {} /\ Goto(t, "Idle")
     \/ \E z \in Registered(arg[t].key) :
          Enter(t, "CheckExpired", [arg[t] EXCEPT !.zone = z, !.key = NoKey])
  /\ UNCHANGED <<zoneVars, made, jobs>>

CheckExpired(t) ==
  /\ pc[t] = "CheckExpired"
  /\ Goto(t, IF fresh[arg[t].zone] THEN "Reschedule" ELSE "EraseExpired")
  /\ UNCHANGED <<zoneVars, made, jobs>>

Reschedule(t) ==
  /\ pc[t] = "Reschedule"
  /\ jobs' = jobs \cup {ExpireJob(arg[t].zone)}
  /\ Goto(t, "Idle")
  /\ UNCHANGED <<zoneVars, made>>

EraseExpired(t) ==
  /\ pc[t] = "EraseExpired"
  /\ EraseAndGoto(t, KeyOf[arg[t].zone], "Idle")

RunLeave(p) ==
  /\ pc[Async] = "Idle"
  /\ [kind |-> "leave", player |-> p] \in jobs
  /\ jobs' = jobs \ {[kind |-> "leave", player |-> p]}
  /\ Enter(Async, "ReadIndex", [NoArg EXCEPT !.player = p])
  /\ UNCHANGED <<zoneVars, made>>

\* Process_IntegrationServerClosedAsync: the zones are taken from one snapshot
\* of the map and erased one by one, by key.
RunServerClosed(s) ==
  /\ pc[Async] = "Idle"
  /\ [kind |-> "closed", server |-> s] \in jobs
  /\ jobs' = jobs \ {[kind |-> "closed", server |-> s]}
  /\ Enter(Async, "EraseClosed",
           [NoArg EXCEPT !.rest = {z \in zoneMap : ServerOf[z] = s}])
  /\ UNCHANGED <<zoneVars, made>>

EraseClosed(t) ==
  /\ pc[t] = "EraseClosed"
  /\ \/ /\ arg[t].rest = {}
        /\ Goto(t, "Idle")
        /\ UNCHANGED zoneVars
     \/ \E z \in arg[t].rest :
          /\ Erase(KeyOf[z])
          /\ Enter(t, "EraseClosed", [arg[t] EXCEPT !.rest = @ \ {z}])
          /\ UNCHANGED <<members, fresh>>
  /\ UNCHANGED <<made, jobs>>

\* kExpireDelayMsec has passed since the last update of a zone that is
\* registered or still being looked at.
GrowOld(z) ==
  /\ fresh[z]
  /\ z \in zoneMap \/ \E t \in Threads : pc[t] = "CheckExpired" /\ arg[t].zone = z
  /\ fresh' = [fresh EXCEPT ![z] = FALSE]
  /\ UNCHANGED <<zoneMap, playerIndex, members, made, jobs, pc, arg>>

-----------------------------------------------------------------------------

\* A caller thread calls the manager.
Call(t) ==
  \/ \E z \in Zones : Insert(t, z) \/ TakeBack(t, z) \/ CallTerminated(t, z) \/ CallUpdated(t, z)
  \/ \E p \in Players : CallLeave(t, p) \/ CallLeaved(t, p)
  \/ \E s \in Servers : CallServerClosed(t, s)

\* A thread inside a handler goes on.
Step(t) ==
  \/ EraseFailed(t) \/ ScheduleExpire(t)
  \/ ReadIndex(t) \/ FindZone(t)
  \/ RemovePlayerSession(t) \/ CheckEmpty(t) \/ EraseEmpty(t) \/ EraseIndex(t)
  \/ NextPlayer(t) \/ EraseTerminated(t) \/ Update(t)
  \/ FindExpired(t) \/ CheckExpired(t) \/ Reschedule(t) \/ EraseExpired(t)
  \/ EraseClosed(t)

Next ==
  \/ \E t \in Callers : Call(t)
  \/ \E t \in Threads : Step(t)
  \/ \E k \in Keys : RunExpire(k)
  \/ \E p \in Players : RunLeave(p)
  \/ \E s \in Servers : RunServerClosed(s)
  \/ \E z \in Zones : GrowOld(z)

Spec == Init /\ [][Next]_vars

\* Threads run, time passes, and the worker reaches every job: it takes them
\* in the order of their due times, and only finitely many come before one.
FairSpec ==
  /\ Spec
  /\ \A t \in Threads : WF_vars(Step(t))
  /\ \A k \in Keys : SF_vars(RunExpire(k))
  /\ \A p \in Players : SF_vars(RunLeave(p))
  /\ \A z \in Zones : WF_vars(GrowOld(z))

-----------------------------------------------------------------------------
(* Properties.                                                             *)

Arguments == [zone : Zones \cup {NoZone}, key : Keys \cup {NoKey},
              player : Players \cup {NoPlayer},
              rest : (SUBSET Players) \cup (SUBSET Zones),
              ending : Keys \cup {NoKey}]

\* The variables keep their types, a key is registered once, and a call that
\* works on a zone or a player has one.
TypeOK ==
  /\ zoneMap \subseteq made /\ made \subseteq Zones
  /\ \A y, z \in zoneMap : KeyOf[y] = KeyOf[z] => y = z
  /\ playerIndex \in [Players -> Keys \cup {NoKey}]
  /\ members \in [Zones -> SUBSET Players] /\ fresh \in [Zones -> BOOLEAN]
  /\ jobs \subseteq Jobs
  /\ pc \in [Threads -> Calls]
  /\ arg \in [Threads -> Arguments]

\* A thread of EraseByPlayerKey has taken the player out of a zone and is yet
\* to erase the index entry.
IsLeaving(p) ==
  \E t \in Threads :
    pc[t] \in {"CheckEmpty", "EraseEmpty", "EraseIndex"} /\ arg[t].player = p

\* An index entry names a registered zone that has the player, unless a thread
\* that has removed the player is about to erase the entry: FindByPlayerKey
\* never leads to a zone the player is not in for good, however insertions that
\* fail, leaves, expiries and ends of zones interleave.
IndexNamesMember ==
  \A p \in Players :
    playerIndex[p] # NoKey =>
      \/ \E z \in Registered(playerIndex[p]) : p \in members[z]
      \/ IsLeaving(p)

\* A registered zone whose last player has left is about to be looked at or
\* erased by a thread that took a player out: of several players who leave at
\* once one finds the zone empty.
EmptyZoneIsErased ==
  \A z \in zoneMap :
    members[z] = {} =>
      \E t \in Threads : pc[t] \in {"CheckEmpty", "EraseEmpty"} /\ arg[t].zone = z

\* A registered zone has an expiry job, or a thread is about to schedule one,
\* to erase the zone or to decide between the two: whatever the first job of
\* a key found, a zone is never registered for good.
ExpiryIsPending ==
  \A z \in zoneMap :
    \/ ExpireJob(z) \in jobs
    \/ \E t \in Threads :
         \/ pc[t] \in {"ScheduleExpire", "CheckExpired", "Reschedule", "EraseExpired"}
              /\ KeyOf[arg[t].zone] = KeyOf[z]
         \/ pc[t] \in {"EraseFailed", "FindExpired"} /\ arg[t].key = KeyOf[z]

\* Again and again a zone is not registered or is being updated: one the
\* server no longer updates is erased.
ZonesExpire ==
  \A z \in Zones :
    []<>(z \notin zoneMap \/ \E t \in Threads : pc[t] = "Update" /\ arg[t].zone = z)

\* A scheduled leave makes the manager forget which zone the player is in.
LeaveIsServed ==
  \A p \in Players :
    ([kind |-> "leave", player |-> p] \in jobs) ~> (playerIndex[p] = NoKey)

=============================================================================
