------------------------- MODULE MatchZones_proofs -------------------------
(***************************************************************************)
(* Proofs about MatchZones, for any players, matches that share them and   *)
(* callers.                                                                *)
(***************************************************************************)
EXTENDS MatchZones, TLAPS

\* ZoneInstances and what is proved about it, with one zone per match.
ZP == INSTANCE ZoneInstances_proofs WITH
  Zones <- Matches, Keys <- Matches, KeyOf <- [m \in Matches |-> m],
  ServerOf <- [m \in Matches |-> m], Callers <- Clients \cup {Completer},
  NoKey <- NoMatch, NoZone <- NoMatch

LEMMA ZoneAssumptions == ZP!ZonesAssumption
BY MatchZonesAssumption DEF ZP!ZonesAssumption

-----------------------------------------------------------------------------
(* The composition implements the zone manager.                            *)

\* Both instances of ZoneInstances are the same one.
LEMMA SameSteps ==
  ASSUME NEW t
  PROVE  Zone!Step(t) <=> ZP!Step(t)
BY DEF Zone!Step, Zone!EraseFailed, Zone!ScheduleExpire, Zone!ReadIndex, Zone!FindZone,
       Zone!RemovePlayerSession, Zone!CheckEmpty, Zone!EraseEmpty, Zone!EraseIndex,
       Zone!NextPlayer, Zone!EraseTerminated, Zone!Update, Zone!FindExpired,
       Zone!CheckExpired, Zone!Reschedule, Zone!EraseExpired, Zone!EraseClosed,
       Zone!EraseAndGoto, Zone!Erase, Zone!Registered, Zone!Goto, Zone!Enter, Zone!NoArg,
       Zone!zoneVars, Zone!ExpireJob,
       ZP!Step, ZP!EraseFailed, ZP!ScheduleExpire, ZP!ReadIndex, ZP!FindZone,
       ZP!RemovePlayerSession, ZP!CheckEmpty, ZP!EraseEmpty, ZP!EraseIndex,
       ZP!NextPlayer, ZP!EraseTerminated, ZP!Update, ZP!FindExpired,
       ZP!CheckExpired, ZP!Reschedule, ZP!EraseExpired, ZP!EraseClosed,
       ZP!EraseAndGoto, ZP!Erase, ZP!Registered, ZP!Goto, ZP!Enter, ZP!NoArg,
       ZP!zoneVars, ZP!ExpireJob

LEMMA SameCalls ==
  ASSUME NEW t, NEW m, NEW p
  PROVE  /\ Zone!Insert(t, m) <=> ZP!Insert(t, m)
         /\ Zone!TakeBack(t, m) <=> ZP!TakeBack(t, m)
         /\ Zone!CallTerminated(t, m) <=> ZP!CallTerminated(t, m)
         /\ Zone!CallUpdated(t, m) <=> ZP!CallUpdated(t, m)
         /\ Zone!CallLeave(t, p) <=> ZP!CallLeave(t, p)
         /\ Zone!CallLeaved(t, p) <=> ZP!CallLeaved(t, p)
         /\ Zone!RunLeave(p) <=> ZP!RunLeave(p)
BY DEF Zone!Insert, Zone!TakeBack, Zone!CallTerminated, Zone!CallUpdated, Zone!CallLeave,
       Zone!CallLeaved, Zone!RunLeave,
       Zone!EraseAndGoto, Zone!Erase, Zone!Registered, Zone!Goto, Zone!Enter, Zone!NoArg,
       Zone!zoneVars,
       ZP!Insert, ZP!TakeBack, ZP!CallTerminated, ZP!CallUpdated, ZP!CallLeave,
       ZP!CallLeaved, ZP!RunLeave,
       ZP!EraseAndGoto, ZP!Erase, ZP!Registered, ZP!Goto, ZP!Enter, ZP!NoArg,
       ZP!zoneVars

\* What the completer works on.
CompletingOK == completing \in {NotCompleting} \cup [match : Matches, inserted : BOOLEAN]

LEMMA NextCompleting ==
  ASSUME CompletingOK, [Next]_vars
  PROVE  CompletingOK'
<1>1. ASSUME NEW m \in Matches, OnCompleteMatchSession(m) PROVE CompletingOK'
  BY <1>1 DEF OnCompleteMatchSession, CompletingOK
<1> QED
  BY <1>1 DEF CompletingOK, Next, vars, threadVars, CallStart, EnqueueTicket, CallZone,
     CreateMatchSession, PlaceMatchSession, OnFailedMatchSession, ChangeCompleted, ZoneStep

\* Every step of MatchZones is one of ZoneInstances or leaves its variables alone.
LEMMA NextZone ==
  ASSUME CompletingOK, [Next]_vars
  PROVE  [Zone!Next]_(Zone!vars) /\ [ZP!Next]_(ZP!vars)
<1>1. (\E t \in ZP!Threads : Zone!Step(t)) \/ (\E p \in Players : Zone!RunLeave(p))
        => Zone!Next /\ ZP!Next
  BY SameSteps, SameCalls DEF Zone!Next, ZP!Next, Zone!Threads, ZP!Threads
<1>2. ASSUME NEW c \in Clients, NEW p \in Players, Zone!CallLeave(c, p) \/ Zone!CallLeaved(c, p)
      PROVE  Zone!Next /\ ZP!Next
  BY <1>2, SameCalls DEF Zone!Next, ZP!Next, Zone!Call, ZP!Call
<1>3. ASSUME NEW c \in Clients \cup {Completer}, NEW m \in Matches,
             Zone!CallTerminated(c, m) \/ Zone!Insert(c, m) \/ Zone!TakeBack(c, m)
      PROVE  Zone!Next /\ ZP!Next
  BY <1>3, SameCalls DEF Zone!Next, ZP!Next, Zone!Call, ZP!Call
<1>4. UNCHANGED zoneVars => UNCHANGED Zone!vars /\ UNCHANGED ZP!vars
  BY DEF zoneVars, Zone!vars, ZP!vars
<1>5. CASE \E c \in Clients, p \in Players : CallStart(c, p)
  BY <1>5, <1>2, <1>4 DEF CallStart
<1>6. CASE \E c \in Clients : EnqueueTicket(c) \/ CallZone(c)
  BY <1>6, <1>2, <1>3, <1>4 DEF EnqueueTicket, CallZone
<1>7. ASSUME NEW m \in Matches,
             \/ CreateMatchSession(m) \/ PlaceMatchSession(m)
             \/ OnFailedMatchSession(m) \/ OnCompleteMatchSession(m)
      PROVE  [Zone!Next]_(Zone!vars) /\ [ZP!Next]_(ZP!vars)
  BY <1>7, <1>3, <1>4 DEF CreateMatchSession, PlaceMatchSession, OnFailedMatchSession,
     OnCompleteMatchSession
<1>8. CASE ChangeCompleted
  <2>1. completing.match \in Matches
    BY <1>8 DEF ChangeCompleted, CompletingOK
  <2> QED BY <1>8, <1>3, <1>4, <2>1 DEF ChangeCompleted
<1>9. CASE ZoneStep
  BY <1>9, <1>1 DEF ZoneStep, Zone!Threads, ZP!Threads
<1>10. CASE UNCHANGED vars
  BY <1>10, <1>4 DEF vars, zoneVars
<1> QED BY <1>5, <1>6, <1>7, <1>8, <1>9, <1>10 DEF Next

LEMMA InitZone == Init => Zone!Init /\ ZP!Init /\ CompletingOK
BY DEF Init, CompletingOK, Zone!Init, ZP!Init, Zone!NoArg, ZP!NoArg, Zone!Threads, ZP!Threads

\* The zone manager does in the composition what ZoneInstances says it does: the
\* requests and the session manager call it as its own specification allows.
THEOREM ImplementsZones == Spec => Zone!Spec
BY InitZone, NextCompleting, NextZone, PTL DEF Spec, Zone!Spec

LEMMA TypeInvariant == Spec => []ZP!TypeInv
<1>1. Init => ZP!TypeInv
  BY InitZone, ZoneAssumptions, ZP!InitType
<1>2. ZP!TypeInv /\ CompletingOK /\ [Next]_vars => ZP!TypeInv'
  BY NextZone, ZoneAssumptions, ZP!NextType
<1> QED BY <1>1, <1>2, InitZone, NextCompleting, PTL DEF Spec

-----------------------------------------------------------------------------
(* The inductive invariant.                                                *)

\* The completer and the match it works on: what it could not register it has
\* erased before it goes on.
CompleterOK ==
  /\ completing = NotCompleting => pc[Completer] = "Idle"
  /\ completing # NotCompleting =>
       /\ completing.match \in made
       /\ IF completing.inserted
          THEN pc[Completer] \in {"Idle", "ScheduleExpire"}
          ELSE \/ pc[Completer] = "EraseFailed" /\ arg[Completer].key = completing.match
               \/ pc[Completer] = "Idle" /\ completing.match \notin zoneMap

\* The status of a match whose zone was made is settled, but for the one that is
\* being completed.
MadeIsSettled ==
  \A m \in made : completing.match = m \/ session[m] \in {"COMPLETED", "FAILED"}

\* A zone that is registered in part leads nobody elsewhere.
HalfIsFree ==
  \A m \in Matches : IsHalfRegistered(m) =>
    \A p \in PlayersOf[m] \ lost : playerIndex[p] \in {NoMatch, m}

\* A zone that ends was made.
EndingIsMade == \A t \in ZP!Threads : arg[t].ending \in made \cup {NoMatch}

LeavingCalls == {"FindZone", "Remove", "CheckEmpty", "EraseEmpty", "EraseIndex"}

\* A thread is going to take its player out of a zone.
IsTaking(t, m) ==
  \/ pc[t] = "FindZone" /\ arg[t].key = m
  \/ pc[t] = "Remove" /\ arg[t].zone = m

\* A thread that has looked up the zone of a player and will erase his index entry
\* takes him out of the one registered zone he is in.  A zone that is registered
\* in part counts only for the thread that ends it.
LeavesItsZone ==
  \A t \in ZP!Threads : \A m \in zoneMap :
    pc[t] \in LeavingCalls /\ arg[t].player \in members[m] \ lost
      /\ (IsHalfRegistered(m) => arg[t].ending = m) => IsTaking(t, m)

SessionOK == session \in [Matches -> {"None", "REQUIRES_ACCEPTANCE", "PLACING", "COMPLETED",
                                      "FAILED"}]

TypeInv == ZP!TypeInv /\ CompletingOK /\ SessionOK

IInv ==
  /\ TypeInv
  /\ CompleterOK /\ MadeIsSettled /\ FailedHasNoZone
  /\ HalfIsFree /\ EndingIsMade /\ LeavesItsZone /\ MemberIsFound

\* What the proofs use of the types.
LEMMA Types ==
  ASSUME TypeInv
  PROVE  /\ zoneMap \subseteq made /\ made \subseteq Matches
         /\ playerIndex \in [Players -> Matches \cup {NoMatch}]
         /\ members \in [Matches -> SUBSET Players]
         /\ \A m \in Matches : members[m] \subseteq PlayersOf[m]
         /\ pc \in [ZP!Threads -> ZP!Calls] /\ arg \in [ZP!Threads -> ZP!Arguments]
         /\ PlayersOf \in [Matches -> SUBSET Players] /\ NoMatch \notin Matches
         /\ ZP!Threads = Clients \cup {Completer, Async}
         /\ Completer \notin Clients /\ Async \notin Clients /\ Completer # Async
         /\ Zone!Threads = ZP!Threads
         /\ \A k \in Matches : ZP!Registered(k) = zoneMap \cap {k}
BY MatchZonesAssumption DEF TypeInv, ZP!TypeInv, ZP!TypeOK, ZP!MembersOK, ZP!Threads,
   Zone!Threads, ZP!Registered

LEMMA InitIInv == Init => IInv
<1> SUFFICES ASSUME Init PROVE IInv
  OBVIOUS
<1>1. ZP!TypeInv /\ CompletingOK
  BY InitZone, ZoneAssumptions, ZP!InitType
<1>2. TypeInv
  BY <1>1 DEF Init, SessionOK, TypeInv
<1>3. /\ zoneMap = {} /\ made = {} /\ completing = NotCompleting
      /\ \A t \in ZP!Threads : pc[t] = "Idle" /\ arg[t].ending = NoMatch
  BY InitZone DEF Init, ZP!Init, ZP!NoArg
<1>4. Completer \in ZP!Threads
  BY DEF ZP!Threads
<1> QED BY <1>2, <1>3, <1>4 DEF IInv, CompleterOK, MadeIsSettled, FailedHasNoZone, HalfIsFree,
      EndingIsMade, LeavesItsZone, MemberIsFound, IsHalfRegistered, LeavingCalls

-----------------------------------------------------------------------------
(* The kinds of steps.                                                     *)

sharedVars == <<zoneMap, playerIndex, members, made, pc, arg>>

\* Requests and the match session manager: no zone is touched and a settled match
\* stays so.
Quiet ==
  /\ UNCHANGED sharedVars /\ UNCHANGED <<completing, lost>>
  /\ \A m \in Matches : session[m] \in {"COMPLETED", "FAILED"} => session'[m] = session[m]

\* A thread begins to take a player, or all players of a zone, out.
Begins(t) ==
  /\ UNCHANGED <<zoneMap, playerIndex, members, made, session, completing, lost>>
  /\ pc[t] = "Idle" /\ pc'[t] \in {"ReadIndex", "NextPlayer"}
  /\ arg'[t].ending \in zoneMap \cup {NoMatch}
  /\ \A u \in ZP!Threads \ {t} : pc'[u] = pc[u] /\ arg'[u] = arg[u]

LEMMA BeginLeave ==
  ASSUME TypeInv, NEW t \in ZP!Threads, NEW p, pc[t] = "Idle",
         ZP!Enter(t, "ReadIndex", [ZP!NoArg EXCEPT !.player = p]),
         UNCHANGED <<zoneMap, playerIndex, members, made, session, completing, lost>>
  PROVE  Begins(t)
BY Types DEF Begins, ZP!Enter, ZP!NoArg

LEMMA BeginEnd ==
  ASSUME TypeInv, NEW t \in ZP!Threads, NEW m \in Matches, ZP!CallTerminated(t, m),
         UNCHANGED <<session, completing, lost>>
  PROVE  Begins(t)
<1>1. m \in zoneMap /\ pc[t] = "Idle"
  BY Types DEF ZP!CallTerminated
<1>2. ZP!Enter(t, "NextPlayer", [ZP!NoArg EXCEPT !.ending = m, !.rest = PlayersOf[m]])
  BY DEF ZP!CallTerminated
<1>3. UNCHANGED <<zoneMap, playerIndex, members, made>>
  BY DEF ZP!CallTerminated, ZP!zoneVars
<1> QED BY <1>1, <1>2, <1>3, Types DEF Begins, ZP!Enter, ZP!NoArg

LEMMA NextKinds ==
  ASSUME TypeInv, [Next]_vars
  PROVE  \/ Quiet
         \/ \E m \in Matches : OnCompleteMatchSession(m)
         \/ ChangeCompleted
         \/ \E t \in ZP!Threads \ {Completer} : Begins(t)
         \/ \E t \in ZP!Threads : ZP!Step(t) /\ UNCHANGED <<session, completing, lost>>
<1>a. session \in [Matches -> {"None", "REQUIRES_ACCEPTANCE", "PLACING", "COMPLETED", "FAILED"}]
  BY DEF TypeInv, SessionOK
<1>b. UNCHANGED zoneVars => UNCHANGED sharedVars
  BY DEF zoneVars, sharedVars
<1>1. ASSUME NEW c \in Clients, NEW p \in Players, CallStart(c, p) PROVE Quiet
  <2>1. Zone!CallLeave(c, p) => UNCHANGED sharedVars
    BY DEF Zone!CallLeave, Zone!zoneVars, sharedVars
  <2> QED BY <1>1, <1>b, <2>1 DEF CallStart, Quiet
<1>2. ASSUME NEW c \in Clients, EnqueueTicket(c) PROVE Quiet
  BY <1>2, <1>b DEF EnqueueTicket, Quiet
<1>3. ASSUME NEW c \in Clients, CallZone(c)
      PROVE  \E t \in ZP!Threads \ {Completer} : Begins(t)
  <2>1. c \in ZP!Threads \ {Completer}
    BY Types
  <2>2. ASSUME NEW p \in Players, Zone!CallLeaved(c, p) PROVE Begins(c)
    BY <1>3, <2>1, <2>2, SameCalls, BeginLeave DEF CallZone, threadVars, ZP!CallLeaved, ZP!zoneVars
  <2>3. ASSUME NEW m \in Matches, Zone!CallTerminated(c, m) PROVE Begins(c)
    BY <1>3, <2>1, <2>3, SameCalls, BeginEnd DEF CallZone, threadVars
  <2> QED BY <1>3, <2>1, <2>2, <2>3 DEF CallZone
<1>4. ASSUME NEW m \in Matches,
             CreateMatchSession(m) \/ PlaceMatchSession(m) \/ OnFailedMatchSession(m)
      PROVE  Quiet
  BY <1>4, <1>a, <1>b DEF CreateMatchSession, PlaceMatchSession, OnFailedMatchSession, threadVars,
     Quiet
<1>5. CASE ZoneStep
  <2>1. UNCHANGED <<session, completing, lost>>
    BY <1>5 DEF ZoneStep, threadVars
  <2>2. ASSUME NEW p \in Players, Zone!RunLeave(p) PROVE Begins(Async)
    <3>1. ZP!RunLeave(p)
      BY <2>2, SameCalls
    <3> QED BY <2>1, <3>1, Types, BeginLeave DEF ZP!RunLeave, ZP!zoneVars
  <2>3. Async \in ZP!Threads \ {Completer}
    BY Types
  <2> QED BY <1>5, <2>1, <2>2, <2>3, SameSteps, Types DEF ZoneStep
<1>6. CASE UNCHANGED vars
  BY <1>6 DEF vars, Quiet, sharedVars
<1> QED BY <1>1, <1>2, <1>3, <1>4, <1>5, <1>6 DEF Next

\* What the index becomes when a zone is registered for some of its players.
Indexed(S, m) == [p \in Players |-> IF p \in S THEN m ELSE playerIndex[p]]

\* The registration of a zone, whole or in part.
LEMMA Registers ==
  ASSUME TypeInv, CompleterOK, MadeIsSettled, NEW m \in Matches, OnCompleteMatchSession(m)
  PROVE  /\ m \notin made /\ pc[Completer] = "Idle" /\ completing = NotCompleting
         /\ made' = made \cup {m} /\ zoneMap' = zoneMap \cup {m}
         /\ members' = members /\ session' = session
         /\ \A u \in ZP!Threads \ {Completer} : pc'[u] = pc[u] /\ arg'[u] = arg[u]
         /\ arg'[Completer].ending = NoMatch
         /\ completing'.match = m /\ completing' # NotCompleting
         /\ \/ /\ \A p \in PlayersOf[m] : playerIndex[p] = NoMatch
               /\ playerIndex' = Indexed(PlayersOf[m], m)
               /\ pc'[Completer] = "ScheduleExpire" /\ completing'.inserted
               /\ lost' = lost \cup {p \in PlayersOf[m] : IsLeaving(p)}
            \/ /\ \E entered \in SUBSET {p \in PlayersOf[m] : playerIndex[p] = NoMatch} :
                    playerIndex' = Indexed(entered, m)
               /\ pc'[Completer] = "EraseFailed" /\ arg'[Completer].key = m
               /\ ~completing'.inserted
               /\ lost' = lost \cup {p \in PlayersOf[m] : playerIndex[p] # NoMatch}
<1>a. /\ zoneMap \subseteq made /\ NoMatch \notin Matches /\ Completer \in ZP!Threads
      /\ pc \in [ZP!Threads -> ZP!Calls] /\ arg \in [ZP!Threads -> ZP!Arguments]
      /\ PlayersOf[m] \subseteq Players
  BY Types
<1>1. /\ ZP!Insert(Completer, m) /\ completing = NotCompleting /\ session[m] = "PLACING"
      /\ session' = session
      /\ completing' = [match |-> m, inserted |-> pc'[Completer] = "ScheduleExpire"]
      /\ lost' = lost \cup
           (IF completing'.inserted THEN {p \in PlayersOf[m] : IsLeaving(p)}
            ELSE {p \in PlayersOf[m] : playerIndex[p] # NoMatch})
  BY SameCalls DEF OnCompleteMatchSession
<1>2. pc[Completer] = "Idle" /\ m \notin made
  BY <1>1 DEF ZP!Insert
<1>3. ZP!Registered(m) = {}
  BY <1>2, <1>a, Types
<1>4. made' = made \cup {m} /\ zoneMap' = zoneMap \cup {m} /\ members' = members
  BY <1>1, <1>3 DEF ZP!Insert
<1>5. \/ ZP!Enter(Completer, "EraseFailed", [ZP!NoArg EXCEPT !.key = m])
      \/ ZP!Enter(Completer, "ScheduleExpire", [ZP!NoArg EXCEPT !.zone = m])
  BY <1>1 DEF ZP!Insert
<1>6. /\ \A u \in ZP!Threads \ {Completer} : pc'[u] = pc[u] /\ arg'[u] = arg[u]
      /\ arg'[Completer].ending = NoMatch
      /\ pc'[Completer] \in {"EraseFailed", "ScheduleExpire"}
      /\ pc'[Completer] = "EraseFailed" => arg'[Completer].key = m
  BY <1>5, <1>a DEF ZP!Enter, ZP!NoArg
<1>7. PICK entered \in SUBSET {p \in PlayersOf[m] : playerIndex[p] = NoMatch} :
        /\ playerIndex' = Indexed(entered, m)
        /\ IF {p \in PlayersOf[m] : playerIndex[p] = NoMatch} = PlayersOf[m]
           THEN entered = PlayersOf[m] /\ pc'[Completer] = "ScheduleExpire"
           ELSE pc'[Completer] = "EraseFailed"
  BY <1>1, <1>3, <1>a DEF ZP!Insert, ZP!Enter, Indexed
<1>8. completing'.match = m /\ completing' # NotCompleting
  BY <1>1, <1>a DEF NotCompleting
<1>9. CASE {p \in PlayersOf[m] : playerIndex[p] = NoMatch} = PlayersOf[m]
  <2>1. completing'.inserted
    BY <1>1, <1>7, <1>9
  <2> QED BY <1>1, <1>2, <1>4, <1>6, <1>7, <1>8, <1>9, <2>1
<1>10. CASE {p \in PlayersOf[m] : playerIndex[p] = NoMatch} # PlayersOf[m]
  <2>1. ~completing'.inserted
    BY <1>1, <1>7, <1>10
  <2> QED BY <1>1, <1>2, <1>4, <1>6, <1>7, <1>8, <1>10, <2>1
<1> QED BY <1>9, <1>10

\* The end of a completion: the zone goes with a match that is not COMPLETED.
LEMMA Completes ==
  ASSUME TypeInv, CompleterOK, ChangeCompleted
  PROVE  \E m \in Matches :
           /\ completing # NotCompleting /\ completing.match = m /\ completing' = NotCompleting
           /\ m \in made /\ pc[Completer] = "Idle"
           /\ UNCHANGED <<members, made, lost, pc>>
           /\ \A u \in ZP!Threads : arg'[u] = arg[u] \/ arg'[u] = ZP!NoArg
           /\ \A u \in ZP!Threads : pc[u] # "Idle" => arg'[u] = arg[u]
           /\ session'[m] \in {"COMPLETED", "FAILED"}
           /\ \A n \in Matches \ {m} : session'[n] = session[n]
           /\ \/ UNCHANGED <<zoneMap, playerIndex>> /\ (session'[m] = "FAILED" => m \notin zoneMap)
              \/ ZP!Erase(m)
<1>a. /\ Completer \in ZP!Threads /\ SessionOK
      /\ pc \in [ZP!Threads -> ZP!Calls] /\ arg \in [ZP!Threads -> ZP!Arguments]
  BY Types DEF TypeInv
<1>1. PICK m \in Matches : completing.match = m
  BY DEF ChangeCompleted, TypeInv, CompletingOK
<1>2. /\ completing # NotCompleting /\ completing' = NotCompleting
      /\ pc[Completer] = "Idle" /\ lost' = lost
  BY DEF ChangeCompleted
<1>3. m \in made /\ (~completing.inserted => m \notin zoneMap)
  BY <1>1, <1>2 DEF CompleterOK
<1>4. /\ session'[m] \in {"COMPLETED", "FAILED"}
      /\ session'[m] = "FAILED" => ~(completing.inserted /\ session[m] = "PLACING")
      /\ \A n \in Matches \ {m} : session'[n] = session[n]
  BY <1>1, <1>a DEF ChangeCompleted, SessionOK
<1>5. CASE UNCHANGED zoneVars /\ (session'[m] = "FAILED" => ~completing.inserted)
  BY <1>1, <1>2, <1>3, <1>4, <1>5 DEF zoneVars
<1>6. CASE ZP!TakeBack(Completer, m)
  <2>1. /\ ZP!Erase(m) /\ ZP!Goto(Completer, "Idle") /\ UNCHANGED <<members, made>>
    BY <1>6 DEF ZP!TakeBack, ZP!EraseAndGoto
  <2>2. /\ pc' = pc
        /\ \A u \in ZP!Threads : arg'[u] = arg[u] \/ arg'[u] = ZP!NoArg
        /\ \A u \in ZP!Threads : pc[u] # "Idle" => arg'[u] = arg[u]
    BY <1>2, <1>a, <2>1 DEF ZP!Goto
  <2> QED BY <1>1, <1>2, <1>3, <1>4, <2>1, <2>2
<1> QED BY <1>1, <1>4, <1>5, <1>6, SameCalls DEF ChangeCompleted

-----------------------------------------------------------------------------
(* Every kind of step keeps the invariant.                                 *)

\* What an erased zone takes out of the index named that zone.
LEMMA EraseFound ==
  ASSUME IInv, NEW k \in Matches, ZP!Erase(k), members' = members, lost' = lost,
         NEW m \in zoneMap', NEW p \in members[m] \ lost, playerIndex[p] = m
  PROVE  playerIndex'[p] = m
<1>a. TypeInv /\ m \in zoneMap /\ m # k /\ p \in Players /\ m \in Matches /\ m # NoMatch
  BY Types DEF IInv, ZP!Erase
<1> SUFFICES ASSUME playerIndex'[p] # playerIndex[p] PROVE FALSE
  OBVIOUS
<1>1. k \in zoneMap /\ p \in members[k] \ lost
  BY <1>a, Types DEF ZP!Erase
<1>2. CASE playerIndex[p] = k
  BY <1>2, <1>a
<1>3. CASE IsHalfRegistered(k)
  <2>1. p \in PlayersOf[k] \ lost
    BY <1>a, <1>1, Types
  <2> QED BY <1>3, <2>1, <1>a DEF IInv, HalfIsFree
<1> QED BY <1>1, <1>2, <1>3 DEF IInv, MemberIsFound

LEMMA EraseShrinks ==
  ASSUME TypeInv, NEW k \in Matches, ZP!Erase(k)
  PROVE  zoneMap' = zoneMap \ {k} /\ \A p \in Players : playerIndex'[p] \in {NoMatch, playerIndex[p]}
BY Types DEF ZP!Erase

LEMMA QuietKeeps ==
  ASSUME IInv, Quiet
  PROVE  /\ CompleterOK' /\ MadeIsSettled' /\ FailedHasNoZone'
         /\ HalfIsFree' /\ EndingIsMade' /\ LeavesItsZone' /\ MemberIsFound'
<1>a. TypeInv /\ zoneMap \subseteq made /\ made \subseteq Matches
  BY Types DEF IInv
<1> USE DEF Quiet, sharedVars
<1>1. CompleterOK' BY DEF IInv, CompleterOK
<1>2. MadeIsSettled' BY <1>a DEF IInv, MadeIsSettled
<1>3. FailedHasNoZone'
  <2> SUFFICES ASSUME NEW m \in Matches, session'[m] = "FAILED", m \in zoneMap, completing.match # m
               PROVE  FALSE
    BY DEF FailedHasNoZone
  <2>1. session[m] \in {"COMPLETED", "FAILED"}
    BY <1>a DEF IInv, MadeIsSettled
  <2> QED BY <2>1 DEF IInv, FailedHasNoZone
<1>4. HalfIsFree' BY DEF IInv, HalfIsFree, IsHalfRegistered
<1>5. EndingIsMade' BY DEF IInv, EndingIsMade
<1>6. LeavesItsZone' BY DEF IInv, LeavesItsZone, IsHalfRegistered, IsTaking
<1>7. MemberIsFound' BY DEF IInv, MemberIsFound, IsHalfRegistered
<1> QED BY <1>1, <1>2, <1>3, <1>4, <1>5, <1>6, <1>7

LEMMA BeginsKeeps ==
  ASSUME IInv, NEW t \in ZP!Threads \ {Completer}, Begins(t)
  PROVE  /\ CompleterOK' /\ MadeIsSettled' /\ FailedHasNoZone'
         /\ HalfIsFree' /\ EndingIsMade' /\ LeavesItsZone' /\ MemberIsFound'
<1>a. TypeInv /\ zoneMap \subseteq made /\ Completer \in ZP!Threads
  BY Types DEF IInv
<1>b. pc'[Completer] = pc[Completer] /\ arg'[Completer] = arg[Completer]
  BY <1>a DEF Begins
<1>c. \A m : IsHalfRegistered(m)' <=> IsHalfRegistered(m)
  BY <1>b DEF IsHalfRegistered
<1> USE DEF Begins
<1>1. CompleterOK' BY <1>b DEF IInv, CompleterOK
<1>2. MadeIsSettled' BY DEF IInv, MadeIsSettled
<1>3. FailedHasNoZone' BY DEF IInv, FailedHasNoZone
<1>4. HalfIsFree' BY <1>c DEF IInv, HalfIsFree
<1>5. EndingIsMade' BY <1>a DEF IInv, EndingIsMade
<1>6. LeavesItsZone' BY <1>c DEF IInv, LeavesItsZone, IsTaking, LeavingCalls
<1>7. MemberIsFound' BY <1>c DEF IInv, MemberIsFound
<1> QED BY <1>1, <1>2, <1>3, <1>4, <1>5, <1>6, <1>7

LEMMA RegistersKeeps ==
  ASSUME IInv, NEW n \in Matches, OnCompleteMatchSession(n)
  PROVE  /\ CompleterOK' /\ MadeIsSettled' /\ FailedHasNoZone'
         /\ HalfIsFree' /\ EndingIsMade' /\ LeavesItsZone' /\ MemberIsFound'
<1>a. /\ TypeInv /\ CompleterOK /\ MadeIsSettled
      /\ zoneMap \subseteq made /\ made \subseteq Matches /\ Completer \in ZP!Threads
      /\ playerIndex \in [Players -> Matches \cup {NoMatch}] /\ NoMatch \notin Matches
      /\ \A m \in Matches : members[m] \subseteq PlayersOf[m] /\ PlayersOf[m] \subseteq Players
  BY Types DEF IInv
<1>b. /\ n \notin made /\ pc[Completer] = "Idle" /\ completing = NotCompleting
      /\ made' = made \cup {n} /\ zoneMap' = zoneMap \cup {n}
      /\ members' = members /\ session' = session
      /\ \A u \in ZP!Threads \ {Completer} : pc'[u] = pc[u] /\ arg'[u] = arg[u]
      /\ arg'[Completer].ending = NoMatch
      /\ completing'.match = n /\ completing' # NotCompleting
  BY <1>a, Registers
<1>c. \A m : ~IsHalfRegistered(m)
  BY <1>b DEF IsHalfRegistered
<1>d. NotCompleting.match = NoMatch
  BY DEF NotCompleting
<1>2. MadeIsSettled' BY <1>a, <1>b, <1>d DEF MadeIsSettled
<1>3. FailedHasNoZone' BY <1>a, <1>b, <1>d DEF IInv, FailedHasNoZone
<1>5. EndingIsMade' BY <1>b DEF IInv, EndingIsMade
<1>8. ASSUME \A p \in PlayersOf[n] : playerIndex[p] = NoMatch,
             playerIndex' = Indexed(PlayersOf[n], n),
             pc'[Completer] = "ScheduleExpire", completing'.inserted,
             lost' = lost \cup {p \in PlayersOf[n] : IsLeaving(p)}
      PROVE  CompleterOK' /\ HalfIsFree' /\ LeavesItsZone' /\ MemberIsFound'
  <2>1. \A m : ~IsHalfRegistered(m)'
    BY <1>8 DEF IsHalfRegistered
  <2>2. CompleterOK' BY <1>8, <1>b DEF CompleterOK
  <2>3. HalfIsFree' BY <2>1 DEF HalfIsFree
  <2>4. LeavesItsZone'
    <3> SUFFICES ASSUME NEW t \in ZP!Threads, NEW m \in zoneMap', pc'[t] \in LeavingCalls,
                        arg'[t].player \in members[m] \ lost'
                 PROVE  IsTaking(t, m)'
      BY <1>b DEF LeavesItsZone
    <3>1. t # Completer
      BY <1>8 DEF LeavingCalls
    <3>2. pc'[t] = pc[t] /\ arg'[t] = arg[t]
      BY <1>b, <3>1
    <3>3. CASE m = n
      <4>1. arg[t].player \in PlayersOf[n]
        BY <1>a, <3>2, <3>3
      <4>2. IsLeaving(arg[t].player)
        BY <3>2, <1>a, Types DEF IsLeaving, LeavingCalls
      <4> QED BY <1>8, <3>2, <3>3, <4>1, <4>2
    <3>4. CASE m # n
      BY <1>8, <1>b, <1>c, <3>2, <3>4 DEF IInv, LeavesItsZone, IsTaking
    <3> QED BY <3>3, <3>4
  <2>5. MemberIsFound'
    <3> SUFFICES ASSUME NEW m \in zoneMap', NEW p \in members[m] \ lost' PROVE playerIndex'[p] = m
      BY <1>b DEF MemberIsFound
    <3>1. CASE m = n
      BY <1>8, <1>a, <3>1 DEF Indexed
    <3>2. CASE m # n
      <4>1. m \in zoneMap /\ m \in Matches /\ m # NoMatch
        BY <1>a, <1>b, <3>2
      <4>2. playerIndex[p] = m
        BY <1>8, <1>c, <4>1 DEF IInv, MemberIsFound
      <4>3. p \in Players
        BY <1>a, <4>1
      <4> QED BY <1>8, <4>1, <4>2, <4>3 DEF Indexed
    <3> QED BY <3>1, <3>2
  <2> QED BY <2>2, <2>3, <2>4, <2>5
<1>9. ASSUME NEW entered \in SUBSET {p \in PlayersOf[n] : playerIndex[p] = NoMatch},
             playerIndex' = Indexed(entered, n),
             pc'[Completer] = "EraseFailed", arg'[Completer].key = n,
             ~completing'.inserted,
             lost' = lost \cup {p \in PlayersOf[n] : playerIndex[p] # NoMatch}
      PROVE  CompleterOK' /\ HalfIsFree' /\ LeavesItsZone' /\ MemberIsFound'
  <2>1. \A m : IsHalfRegistered(m)' <=> m = n
    BY <1>9 DEF IsHalfRegistered
  <2>2. CompleterOK' BY <1>9, <1>b DEF CompleterOK
  <2>3. HalfIsFree' BY <1>9, <1>a, <2>1 DEF HalfIsFree, Indexed
  <2>4. LeavesItsZone'
    <3> SUFFICES ASSUME NEW t \in ZP!Threads, NEW m \in zoneMap', pc'[t] \in LeavingCalls,
                        arg'[t].player \in members[m] \ lost',
                        m = n => arg'[t].ending = n
                 PROVE  IsTaking(t, m)'
      BY <1>b, <2>1 DEF LeavesItsZone
    <3>1. t # Completer
      BY <1>9 DEF LeavingCalls
    <3>2. pc'[t] = pc[t] /\ arg'[t] = arg[t]
      BY <1>b, <3>1
    <3>3. m # n
      BY <1>a, <1>b, <3>2 DEF IInv, EndingIsMade
    <3> QED BY <1>9, <1>b, <1>c, <3>2, <3>3 DEF IInv, LeavesItsZone, IsTaking
  <2>5. MemberIsFound'
    <3> SUFFICES ASSUME NEW m \in zoneMap', NEW p \in members[m] \ lost', m # n
                 PROVE  playerIndex'[p] = m
      BY <1>b, <2>1 DEF MemberIsFound
    <3>1. m \in zoneMap /\ m \in Matches /\ m # NoMatch
      BY <1>a, <1>b
    <3>2. playerIndex[p] = m
      BY <1>9, <1>c, <3>1 DEF IInv, MemberIsFound
    <3>3. p \in Players
      BY <1>a, <3>1
    <3> QED BY <1>9, <3>1, <3>2, <3>3 DEF Indexed
  <2> QED BY <2>2, <2>3, <2>4, <2>5
<1> QED BY <1>a, <1>2, <1>3, <1>5, <1>8, <1>9, Registers

LEMMA CompletesKeeps ==
  ASSUME IInv, ChangeCompleted
  PROVE  /\ CompleterOK' /\ MadeIsSettled' /\ FailedHasNoZone'
         /\ HalfIsFree' /\ EndingIsMade' /\ LeavesItsZone' /\ MemberIsFound'
<1>a. /\ TypeInv /\ CompleterOK /\ zoneMap \subseteq made /\ made \subseteq Matches
      /\ NoMatch \notin Matches /\ \A m \in Matches : members[m] \subseteq Players
  BY Types DEF IInv
<1>b. PICK n \in Matches :
        /\ completing # NotCompleting /\ completing.match = n /\ completing' = NotCompleting
        /\ n \in made /\ pc[Completer] = "Idle"
        /\ UNCHANGED <<members, made, lost, pc>>
        /\ \A u \in ZP!Threads : arg'[u] = arg[u] \/ arg'[u] = ZP!NoArg
        /\ \A u \in ZP!Threads : pc[u] # "Idle" => arg'[u] = arg[u]
        /\ session'[n] \in {"COMPLETED", "FAILED"}
        /\ \A m \in Matches \ {n} : session'[m] = session[m]
        /\ \/ UNCHANGED <<zoneMap, playerIndex>> /\ (session'[n] = "FAILED" => n \notin zoneMap)
           \/ ZP!Erase(n)
  BY <1>a, Completes
<1>c. \A m : ~IsHalfRegistered(m) /\ ~IsHalfRegistered(m)'
  BY <1>b DEF IsHalfRegistered
<1>d. /\ zoneMap' \subseteq zoneMap
      /\ session'[n] = "FAILED" => n \notin zoneMap'
  BY <1>a, <1>b, EraseShrinks
<1>1. CompleterOK' BY <1>b DEF CompleterOK
<1>2. MadeIsSettled' BY <1>a, <1>b DEF IInv, MadeIsSettled
<1>3. FailedHasNoZone' BY <1>a, <1>b, <1>d DEF IInv, FailedHasNoZone
<1>4. HalfIsFree' BY <1>c DEF HalfIsFree
<1>5. EndingIsMade' BY <1>b DEF IInv, EndingIsMade, ZP!NoArg
<1>6. LeavesItsZone' BY <1>b, <1>c, <1>d DEF IInv, LeavesItsZone, IsTaking, LeavingCalls
<1>7. MemberIsFound'
  <2> SUFFICES ASSUME NEW m \in zoneMap', NEW p \in members[m] \ lost PROVE playerIndex'[p] = m
    BY <1>b DEF MemberIsFound
  <2>1. playerIndex[p] = m
    BY <1>c, <1>d DEF IInv, MemberIsFound
  <2> QED BY <1>b, <2>1, EraseFound
<1> QED BY <1>1, <1>2, <1>3, <1>4, <1>5, <1>6, <1>7

LEMMA StepKeeps ==
  ASSUME IInv, NEW t \in ZP!Threads, ZP!Step(t), UNCHANGED <<session, completing, lost>>
  PROVE  /\ CompleterOK' /\ MadeIsSettled' /\ FailedHasNoZone'
         /\ HalfIsFree' /\ EndingIsMade' /\ LeavesItsZone' /\ MemberIsFound'
<1>a. /\ TypeInv /\ ZP!TypeInv /\ CompleterOK
      /\ zoneMap \subseteq made /\ made \subseteq Matches /\ Completer \in ZP!Threads
      /\ playerIndex \in [Players -> Matches \cup {NoMatch}] /\ NoMatch \notin Matches
      /\ members \in [Matches -> SUBSET Players]
      /\ \A k \in Matches : ZP!Registered(k) = zoneMap \cap {k}
  BY Types DEF IInv, TypeInv
<1>b. /\ \A u \in ZP!Threads \ {t} : pc'[u] = pc[u] /\ arg'[u] = arg[u]
      /\ made' = made
  BY <1>a, ZoneAssumptions, ZP!StepControl
<1>c. /\ \/ UNCHANGED <<zoneMap, playerIndex>>
         \/ /\ pc[t] = "EraseIndex" /\ zoneMap' = zoneMap
            /\ playerIndex' = [playerIndex EXCEPT ![arg[t].player] = NoMatch]
         \/ \E k \in Matches : ZP!Erase(k)
      /\ IF pc[t] = "Remove"
         THEN members' = [members EXCEPT ![arg[t].zone] = @ \ {arg[t].player}]
         ELSE members' = members
      /\ pc[t] = "EraseFailed" => ZP!Erase(arg[t].key)
  BY <1>a, ZoneAssumptions, ZP!StepErases
<1>d. /\ pc'[t] = "FindZone" =>
           /\ pc[t] = "ReadIndex" /\ arg'[t].player = arg[t].player
           /\ arg'[t].key = playerIndex[arg[t].player] /\ arg'[t].key # NoMatch
      /\ pc'[t] = "Remove" =>
           /\ pc[t] = "FindZone" /\ arg'[t].player = arg[t].player
           /\ arg'[t].zone \in ZP!Registered(arg[t].key)
      /\ pc'[t] = "CheckEmpty" => pc[t] = "Remove" /\ arg'[t] = arg[t]
      /\ pc'[t] \in {"EraseEmpty", "EraseIndex"} =>
           pc[t] \in {"CheckEmpty", "EraseEmpty"} /\ arg'[t] = arg[t]
      /\ pc[t] \in {"EraseFailed", "ScheduleExpire"} => pc'[t] = "Idle"
      /\ pc'[t] \notin {"EraseFailed", "ScheduleExpire"}
      /\ \/ arg'[t].ending = arg[t].ending
         \/ arg'[t].ending = NoMatch /\ pc'[t] = "Idle"
  BY <1>a, ZoneAssumptions, ZP!StepLeaves
<1>e. /\ zoneMap' \subseteq zoneMap
      /\ \A p \in Players : playerIndex'[p] \in {NoMatch, playerIndex[p]}
      /\ \A m \in Matches : members'[m] \subseteq members[m]
  BY <1>a, <1>c, EraseShrinks
\* A zone stays registered in part until it is erased.
<1>f. \A m : IsHalfRegistered(m)' => IsHalfRegistered(m) /\ t # Completer
  BY <1>a, <1>b, <1>d DEF IsHalfRegistered
<1>g. \A m \in zoneMap' : IsHalfRegistered(m)' <=> IsHalfRegistered(m)
  <2>1. ASSUME NEW m \in zoneMap', IsHalfRegistered(m), t = Completer PROVE FALSE
    <3>1. ZP!Erase(m) /\ m \in Matches
      BY <1>a, <1>c, <1>e, <2>1 DEF IsHalfRegistered
    <3> QED BY <1>a, <3>1, EraseShrinks
  <2>2. ASSUME NEW m \in zoneMap', IsHalfRegistered(m), t # Completer PROVE IsHalfRegistered(m)'
    BY <1>a, <1>b, <2>2 DEF IsHalfRegistered
  <2> QED BY <1>f, <2>1, <2>2
<1>1. CompleterOK'
  <2>1. CASE t # Completer
    BY <1>a, <1>b, <1>e, <2>1 DEF CompleterOK
  <2>2. CASE t = Completer /\ pc[t] = "EraseFailed"
    <3>1. arg[t].key \in Matches => arg[t].key \notin zoneMap'
      BY <1>a, <1>c, <2>2, EraseShrinks
    <3>2. completing # NotCompleting /\ ~completing.inserted /\ arg[t].key = completing.match
      BY <1>a, <2>2 DEF CompleterOK
    <3> QED BY <1>a, <1>b, <1>d, <2>2, <3>1, <3>2 DEF CompleterOK
  <2>3. CASE t = Completer /\ pc[t] = "ScheduleExpire"
    BY <1>a, <1>b, <1>d, <2>3 DEF CompleterOK
  <2>4. CASE t = Completer /\ pc[t] = "Idle"
    BY <2>4 DEF ZP!Step, ZP!EraseFailed, ZP!ScheduleExpire, ZP!ReadIndex, ZP!FindZone,
       ZP!RemovePlayerSession, ZP!CheckEmpty, ZP!EraseEmpty, ZP!EraseIndex,
       ZP!NextPlayer, ZP!EraseTerminated, ZP!Update, ZP!FindExpired,
       ZP!CheckExpired, ZP!Reschedule, ZP!EraseExpired, ZP!EraseClosed
  <2> QED BY <1>a, <2>1, <2>2, <2>3, <2>4 DEF CompleterOK
<1>2. MadeIsSettled' BY <1>b DEF IInv, MadeIsSettled
<1>3. FailedHasNoZone' BY <1>e DEF IInv, FailedHasNoZone
<1>4. HalfIsFree'
  <2> SUFFICES ASSUME NEW m \in Matches, IsHalfRegistered(m)', NEW p \in PlayersOf[m] \ lost
               PROVE  playerIndex'[p] \in {NoMatch, m}
    BY DEF HalfIsFree
  <2>1. playerIndex[p] \in {NoMatch, m}
    BY <1>f DEF IInv, HalfIsFree
  <2>2. p \in Players
    BY <1>a, Types
  <2> QED BY <1>e, <2>1, <2>2
<1>5. EndingIsMade' BY <1>b, <1>d DEF IInv, EndingIsMade
<1>6. LeavesItsZone'
  <2> SUFFICES ASSUME NEW u \in ZP!Threads, NEW m \in zoneMap', pc'[u] \in LeavingCalls,
                      arg'[u].player \in members'[m] \ lost,
                      IsHalfRegistered(m) => arg'[u].ending = m
               PROVE  IsTaking(u, m)'
    BY <1>g DEF LeavesItsZone
  <2>1. m \in zoneMap /\ m \in Matches /\ arg'[u].player \in members[m] \ lost
    BY <1>a, <1>e
  <2>2. CASE u # t
    BY <1>b, <2>1, <2>2 DEF IInv, LeavesItsZone, IsTaking
  <2>3. CASE u = t /\ pc'[t] = "FindZone"
    <3>1. CASE IsHalfRegistered(m)
      <4>1. arg[t].player \in PlayersOf[m] \ lost
        BY <1>a, <1>d, <2>1, <2>3, Types
      <4> QED BY <1>d, <2>1, <2>3, <3>1, <4>1 DEF IInv, HalfIsFree, IsTaking
    <3>2. CASE ~IsHalfRegistered(m)
      BY <1>d, <2>1, <2>3, <3>2 DEF IInv, MemberIsFound, IsTaking
    <3> QED BY <3>1, <3>2
  <2>4. CASE u = t /\ pc'[t] # "FindZone"
    <3>1. /\ pc[t] \in LeavingCalls /\ arg'[t].player = arg[t].player
          /\ arg'[t].ending = arg[t].ending
      BY <1>d, <2>4 DEF LeavingCalls
    <3>2. IsTaking(t, m)
      BY <2>1, <2>4, <3>1 DEF IInv, LeavesItsZone
    <3>3. CASE pc'[t] = "Remove"
      BY <1>a, <1>d, <2>1, <2>4, <3>2, <3>3 DEF IsTaking
    <3>4. CASE pc'[t] = "CheckEmpty"
      BY <1>a, <1>c, <1>d, <2>1, <2>4, <3>2, <3>4 DEF IsTaking
    <3>5. CASE pc'[t] \in {"EraseEmpty", "EraseIndex"}
      BY <1>d, <3>2, <3>5 DEF IsTaking
    <3> QED BY <2>4, <3>3, <3>4, <3>5 DEF LeavingCalls
  <2> QED BY <2>2, <2>3, <2>4
<1>7. MemberIsFound'
  <2> SUFFICES ASSUME NEW m \in zoneMap', NEW p \in members'[m] \ lost, ~IsHalfRegistered(m)
               PROVE  playerIndex'[p] = m
    BY <1>g DEF MemberIsFound
  <2>1. /\ m \in zoneMap /\ m \in Matches /\ p \in members[m] /\ p \in Players
        /\ playerIndex[p] = m
    BY <1>a, <1>e DEF IInv, MemberIsFound
  <2>2. CASE UNCHANGED <<zoneMap, playerIndex>>
    BY <2>1, <2>2
  <2>3. CASE pc[t] = "EraseIndex" /\ playerIndex' = [playerIndex EXCEPT ![arg[t].player] = NoMatch]
    <3>1. arg[t].player # p
      BY <2>1, <2>3 DEF IInv, LeavesItsZone, LeavingCalls, IsTaking
    <3> QED BY <1>a, <2>1, <2>3, <3>1
  <2>4. ASSUME NEW k \in Matches, ZP!Erase(k) PROVE playerIndex'[p] = m
    <3>1. m # k
      BY <1>a, <2>4, EraseShrinks
    <3>2. CASE members' = members
      BY <2>1, <2>4, <3>2, EraseFound
    <3>3. CASE pc[t] = "Remove"
      BY <3>3, <2>1 DEF ZP!Step, ZP!EraseFailed, ZP!ScheduleExpire, ZP!ReadIndex, ZP!FindZone,
         ZP!RemovePlayerSession, ZP!CheckEmpty, ZP!EraseEmpty, ZP!EraseIndex,
         ZP!NextPlayer, ZP!EraseTerminated, ZP!Update, ZP!FindExpired,
         ZP!CheckExpired, ZP!Reschedule, ZP!EraseExpired, ZP!EraseClosed
    <3> QED BY <1>c, <3>2, <3>3
  <2> QED BY <1>c, <2>2, <2>3, <2>4
<1> QED BY <1>1, <1>2, <1>3, <1>4, <1>5, <1>6, <1>7

LEMMA NextIInv == IInv /\ [Next]_vars => IInv'
<1> SUFFICES ASSUME IInv, [Next]_vars PROVE IInv'
  OBVIOUS
<1>1. TypeInv
  BY DEF IInv
<1>2. TypeInv'
  <2>1. ZP!TypeInv' /\ CompletingOK'
    BY <1>1, NextZone, NextCompleting, ZoneAssumptions, ZP!NextType DEF TypeInv
  <2>2. SessionOK'
    BY <1>1 DEF TypeInv, SessionOK, Next, vars, threadVars, CallStart, EnqueueTicket, CallZone,
       CreateMatchSession, PlaceMatchSession, OnFailedMatchSession, OnCompleteMatchSession,
       ChangeCompleted, ZoneStep
  <2> QED BY <2>1, <2>2 DEF TypeInv
<1>3. /\ CompleterOK' /\ MadeIsSettled' /\ FailedHasNoZone'
      /\ HalfIsFree' /\ EndingIsMade' /\ LeavesItsZone' /\ MemberIsFound'
  BY <1>1, NextKinds, QuietKeeps, BeginsKeeps, RegistersKeeps, CompletesKeeps, StepKeeps
<1> QED BY <1>2, <1>3 DEF IInv

\* A member of a registered zone is found in it, whatever other matches he gets
\* into, but for the two cases that lost records.
THEOREM MembersFound == Spec => []MemberIsFound
<1>1. IInv => MemberIsFound
  BY DEF IInv
<1> QED BY <1>1, InitIInv, NextIInv, PTL DEF Spec

\* A match that fails leaves no zone behind, wherever its completion ends.
THEOREM FailedWithoutZone == Spec => []FailedHasNoZone
<1>1. IInv => FailedHasNoZone
  BY DEF IInv
<1> QED BY <1>1, InitIInv, NextIInv, PTL DEF Spec

\* A step takes a player out of a zone only when its thread has looked him up in it.
LEMMA StepTakes ==
  ASSUME IInv, NEW t \in ZP!Threads, ZP!Step(t),
         NEW m \in Matches, NEW p \in members[m] \ members'[m]
  PROVE  /\ pc[t] = "Remove" /\ arg[t].player = p
         /\ \/ arg[t].ending \in {NoMatch, m}
            \/ arg[t].ending \notin zoneMap \/ p \notin members[arg[t].ending]
            \/ p \in lost
<1>a. ZP!TypeInv /\ members \in [Matches -> SUBSET Players]
  BY Types DEF IInv, TypeInv
<1>1. IF pc[t] = "Remove"
      THEN members' = [members EXCEPT ![arg[t].zone] = @ \ {arg[t].player}]
      ELSE members' = members
  BY <1>a, ZoneAssumptions, ZP!StepErases
<1>2. pc[t] = "Remove" /\ arg[t].player = p /\ arg[t].zone = m
  BY <1>a, <1>1
<1>3. ASSUME NEW e \in zoneMap, arg[t].ending = e, p \in members[e] \ lost
      PROVE  e = m
  BY <1>2, <1>3 DEF IInv, LeavesItsZone, LeavingCalls, IsTaking
<1> QED BY <1>2, <1>3

\* The end of a zone leaves alone the players who are in another zone by then.
THEOREM EndTakesLeavers == Spec => EndTakesOnlyLeavers
<1> DEFINE Taken(m, p) ==
      \E t \in Zone!Threads :
         /\ pc[t] = "Remove" /\ arg[t].player = p
         /\ \/ arg[t].ending \in {NoMatch, m}
            \/ arg[t].ending \notin zoneMap \/ p \notin members[arg[t].ending]
            \/ p \in lost
<1>1. ASSUME IInv, [Next]_vars, NEW m \in Matches, NEW p \in members[m] \ members'[m]
      PROVE  Taken(m, p)
  <2>a. TypeInv
    BY <1>1 DEF IInv
  <2>1. ASSUME NEW t \in ZP!Threads, ZP!Step(t) PROVE Taken(m, p)
    BY <1>1, <2>1, <2>a, StepTakes, Types
  <2>2. CASE Quiet \/ \E t \in ZP!Threads : Begins(t)
    BY <1>1, <2>2 DEF Quiet, sharedVars, Begins
  <2>3. CASE ChangeCompleted \/ \E n \in Matches : OnCompleteMatchSession(n)
    BY <1>1, <2>3, <2>a, Completes, Registers DEF IInv
  <2> QED BY <1>1, <2>a, <2>1, <2>2, <2>3, NextKinds
<1>2. IInv /\ [Next]_vars
        => [\A m \in Matches : \A p \in members[m] \ members'[m] : Taken(m, p)]_vars
  BY <1>1
<1> QED BY <1>2, InitIInv, NextIInv, PTL DEF Spec, EndTakesOnlyLeavers

\* What ZoneInstances promises of its index, its empty zones and their expiry
\* holds in the composition.
THEOREM ZoneInvariants ==
  Spec => [](Zone!TypeOK /\ Zone!IndexNamesMember /\ Zone!EmptyZoneIsErased
             /\ Zone!ExpiryIsPending)
<1>1. Spec => ZP!Spec
  BY InitZone, NextCompleting, NextZone, PTL DEF Spec, ZP!Spec
<1>2. ZP!Spec => [](ZP!TypeOK /\ ZP!IndexNamesMember /\ ZP!EmptyZoneIsErased /\ ZP!ExpiryIsPending)
  BY ZoneAssumptions, ZP!ZonesTypeCorrect, ZP!IndexNames, ZP!EmptyZones, ZP!ExpiryPending, PTL
<1>3. ZP!TypeOK <=> Zone!TypeOK
  BY DEF ZP!TypeOK, ZP!Jobs, ZP!Calls, ZP!Arguments, ZP!Threads, ZP!Servers,
     Zone!TypeOK, Zone!Jobs, Zone!Calls, Zone!Arguments, Zone!Threads, Zone!Servers
<1>4. /\ ZP!IndexNamesMember <=> Zone!IndexNamesMember
      /\ ZP!EmptyZoneIsErased <=> Zone!EmptyZoneIsErased
      /\ ZP!ExpiryIsPending <=> Zone!ExpiryIsPending
  BY DEF ZP!IndexNamesMember, ZP!EmptyZoneIsErased, ZP!ExpiryIsPending, ZP!IsLeaving,
     ZP!ExpireJob, ZP!Registered, ZP!Threads,
     Zone!IndexNamesMember, Zone!EmptyZoneIsErased, Zone!ExpiryIsPending, Zone!IsLeaving,
     Zone!ExpireJob, Zone!Registered, Zone!Threads
<1> QED BY <1>1, <1>2, <1>3, <1>4, PTL

=============================================================================
