----------------------------- MODULE MatchZones -----------------------------
(***************************************************************************)
(* The queue, session and zone managers together: how a player who asks    *)
(* for a match again while an earlier one is under way gets into two       *)
(* matches, and what the zone manager makes of it.                         *)
(*                                                                         *)
(* ZoneInstances is used as it is, with one zone per match: a zone's GUID  *)
(* and session key are the match id.  Of the queue and the session only    *)
(* what the others see is kept: who has a QUEUED ticket, and the status of *)
(* a match.  A cleanup, a match and an answer are one step each; their     *)
(* insides are in SoloQueue, PartyQueue and MatchSession.                  *)
(*                                                                         *)
(* A client is a thread that calls StartMatchmaking, or brings a message   *)
(* of an integration server; the completer is the session manager's        *)
(* m_AsyncJobWorker, which registers the zones.                            *)
(***************************************************************************)
EXTENDS FiniteSets

CONSTANTS
  Players, Matches,
  PlayersOf,   \* the players of a match
  Clients,     \* caller threads
  Completer,   \* the thread of the session manager's m_AsyncJobWorker
  Async,       \* the thread of the zone manager's m_AsyncJobWorker
  NoMatch, NoPlayer

ASSUME MatchZonesAssumption ==
  /\ PlayersOf \in [Matches -> (SUBSET Players) \ {{}}]
  /\ NoMatch \notin Matches /\ NoPlayer \notin Players
  /\ Completer \notin Clients /\ Async \notin Clients \cup {Completer}

VARIABLES
  zoneMap, playerIndex, members, fresh, made, jobs, pc, arg,  \* ZoneInstances
  queued,      \* players with a QUEUED ticket
  session,     \* the status of a match
  asking,      \* the player whose request a client is about to queue
  completing,  \* the match the completer registers, and whether it could
  lost         \* history: players whose index entry may be taken, see below

threadVars == <<asking, completing>>
zoneVars == <<zoneMap, playerIndex, members, fresh, made, jobs, pc, arg>>
vars == <<zoneMap, playerIndex, members, fresh, made, jobs, pc, arg,
          queued, session, asking, completing, lost>>

Zone == INSTANCE ZoneInstances WITH
  Zones <- Matches, Keys <- Matches, KeyOf <- [m \in Matches |-> m],
  ServerOf <- [m \in Matches |-> m], Callers <- Clients \cup {Completer},
  NoKey <- NoMatch, NoZone <- NoMatch

NotCompleting == [match |-> NoMatch, inserted |-> FALSE]

Init ==
  /\ Zone!Init
  /\ queued = {}
  /\ session = [m \in Matches |-> "None"]
  /\ asking = [c \in Clients |-> NoPlayer]
  /\ completing = NotCompleting
  /\ lost = {}

-----------------------------------------------------------------------------
(* Requests and matches.                                                   *)

\* FindByPlayerKey finds a zone.
IsInZone(p) == playerIndex[p] # NoMatch /\ Zone!Registered(playerIndex[p]) # {}

\* StartMatchmaking up to the penalty check: the cleanup cancels the player's
\* ticket and has him leave the zone he is found in, and if there was either
\* the request is dropped.
CallStart(c, p) ==
  /\ pc[c] = "Idle" /\ asking[c] = NoPlayer
  /\ queued' = queued \ {p}
  /\ IF IsInZone(p)
     THEN Zone!CallLeave(c, p)
     ELSE UNCHANGED zoneVars
  /\ asking' = IF IsInZone(p) \/ p \in queued THEN asking ELSE [asking EXCEPT ![c] = p]
  /\ UNCHANGED <<session, completing, lost>>

\* The ticket is inserted and QUEUED; one of a player who has one by now fails.
\* A player with a penalty is not queued.
EnqueueTicket(c) ==
  /\ asking[c] # NoPlayer
  /\ queued' \in {queued, queued \cup {asking[c]}}
  /\ asking' = [asking EXCEPT ![c] = NoPlayer]
  /\ UNCHANGED <<zoneVars, session, completing, lost>>

\* InsertMatchSession fails for a player of a registered session.
IsInSession(p) ==
  \E m \in Matches : p \in PlayersOf[m] /\ session[m] \in {"REQUIRES_ACCEPTANCE", "PLACING"}

CreateMatchSession(m) ==
  /\ session[m] = "None"
  /\ PlayersOf[m] \subseteq queued
  /\ queued' = queued \ PlayersOf[m]
  /\ session' = [session EXCEPT ![m] =
       IF \E p \in PlayersOf[m] : IsInSession(p) THEN "FAILED" ELSE "REQUIRES_ACCEPTANCE"]
  /\ UNCHANGED <<zoneVars, threadVars, lost>>

\* All players accept.
PlaceMatchSession(m) ==
  /\ session[m] = "REQUIRES_ACCEPTANCE"
  /\ session' = [session EXCEPT ![m] = "PLACING"]
  /\ UNCHANGED <<zoneVars, queued, threadVars, lost>>

\* A rejection, a timeout, or an acceptance that comes too late.
OnFailedMatchSession(m) ==
  /\ session[m] \in {"REQUIRES_ACCEPTANCE", "PLACING"}
  /\ session' = [session EXCEPT ![m] = "FAILED"]
  /\ UNCHANGED <<zoneVars, queued, threadVars, lost>>

-----------------------------------------------------------------------------
(* The completion of a match.                                              *)

\* A thread has looked up the zone the player is about to leave and will erase
\* his index entry, whatever it names by then.
IsLeaving(p) ==
  \E t \in Zone!Threads :
    /\ pc[t] \in {"FindZone", "Remove", "CheckEmpty", "EraseEmpty", "EraseIndex"}
    /\ arg[t].player = p

\* OnCompleteMatchSession finds the session and registers the zone.
OnCompleteMatchSession(m) ==
  /\ completing = NotCompleting
  /\ session[m] = "PLACING"
  /\ Zone!Insert(Completer, m)
  /\ completing' = [match |-> m, inserted |-> pc'[Completer] = "ScheduleExpire"]
  /\ lost' = lost \cup
       (IF completing'.inserted THEN {p \in PlayersOf[m] : IsLeaving(p)}
        ELSE {p \in PlayersOf[m] : playerIndex[p] # NoMatch})
  /\ UNCHANGED <<queued, session, asking>>

\* A variant with a bug: a zone that was registered for a match that has failed
\* in the meantime stays.
ChangeCompletedOnly ==
  LET m == completing.match IN
  /\ completing # NotCompleting /\ pc[Completer] = "Idle"
  /\ session' = [session EXCEPT ![m] =
       IF completing.inserted /\ session[m] = "PLACING" THEN "COMPLETED" ELSE "FAILED"]
  /\ completing' = NotCompleting
  /\ UNCHANGED <<zoneVars, queued, asking, lost>>

\* The change to COMPLETED, which takes the session out of the session map; if
\* it is refused the zone is taken back.
ChangeCompleted ==
  LET m == completing.match
      completes == completing.inserted /\ session[m] = "PLACING"
  IN
  /\ completing # NotCompleting /\ pc[Completer] = "Idle"
  /\ session' = [session EXCEPT ![m] = IF completes THEN "COMPLETED" ELSE "FAILED"]
  /\ completing' = NotCompleting
  /\ IF completing.inserted /\ ~completes
     THEN Zone!TakeBack(Completer, m)
     ELSE UNCHANGED zoneVars
  /\ UNCHANGED <<queued, asking, lost>>

-----------------------------------------------------------------------------
(* The zone manager's own steps.                                           *)

\* A player leaves on the integration server, or the zone ends there.
CallZone(c) ==
  /\ asking[c] = NoPlayer
  /\ \/ \E p \in Players : Zone!CallLeaved(c, p)
     \/ \E m \in Matches : Zone!CallTerminated(c, m)
  /\ UNCHANGED <<queued, session, threadVars, lost>>

ZoneStep ==
  /\ \/ \E t \in Zone!Threads : Zone!Step(t)
     \/ \E p \in Players : Zone!RunLeave(p)
  /\ UNCHANGED <<queued, session, threadVars, lost>>

Next ==
  \/ \E c \in Clients, p \in Players : CallStart(c, p)
  \/ \E c \in Clients : EnqueueTicket(c) \/ CallZone(c)
  \/ \E m \in Matches :
       \/ CreateMatchSession(m) \/ PlaceMatchSession(m)
       \/ OnFailedMatchSession(m) \/ OnCompleteMatchSession(m)
  \/ ChangeCompleted
  \/ ZoneStep

Spec == Init /\ [][Next]_vars

-----------------------------------------------------------------------------
(* Properties.                                                             *)

\* The completer is about to erase a zone that was registered in part.
IsHalfRegistered(m) == pc[Completer] = "EraseFailed" /\ arg[Completer].key = m

\* FindByPlayerKey leads every member of a registered zone to that zone, but
\* for a player whose later match could not be registered because he was in the
\* zone, or was registered while he was on his way out of another one.  Nothing
\* else takes an index entry away (IntegrationZoneInstanceManager.cpp:69, :105), so
\* that any other player is in one registered zone at most.
MemberIsFound ==
  \A m \in zoneMap : \A p \in members[m] \ lost :
    playerIndex[p] = m \/ IsHalfRegistered(m)

\* A failed match has no zone, although its zone is registered before the
\* status of the session is settled and in part when a player is in another
\* (MatchSessionManager.cpp:434-446, IntegrationZoneInstanceManager.cpp:46-50).
FailedHasNoZone ==
  \A m \in Matches :
    session[m] = "FAILED" /\ m \in zoneMap => completing.match = m

\* The end of a zone takes a player out of another zone only when he has left
\* the one that ends, or it has been erased since the message came, or he was
\* such a player (IntegrationZoneInstanceManager.cpp:222-226).
EndTakesOnlyLeavers ==
  [][\A m \in Matches : \A p \in members[m] \ members'[m] :
       \E t \in Zone!Threads :
         /\ pc[t] = "Remove" /\ arg[t].player = p
         /\ \/ arg[t].ending \in {NoMatch, m}
            \/ arg[t].ending \notin zoneMap \/ p \notin members[arg[t].ending]
            \/ p \in lost]_vars
=============================================================================
