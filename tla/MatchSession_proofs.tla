------------------------ MODULE MatchSession_proofs ------------------------
(***************************************************************************)
(* Proofs about MatchSession, for any players, matches, threads, order of  *)
(* the delays and replies of the integration server.                       *)
(***************************************************************************)
EXTENDS MatchSession, TLAPS

MatchCalls == Calls \ {"Idle", "Stop", "Accept"}

PlayerCalls == {"Stop", "Accept", "AcceptPlayer", "AddPenalty"}

ArgumentType ==
  [match : Matches \cup {NoMatch}, player : Players \cup {NoPlayer},
   accept : BOOLEAN, cleanup : BOOLEAN]

\* A handler that works on a match or for a player has one.
CallsOK ==
  /\ pc \in [Threads -> Calls]
  /\ arg \in [Threads -> ArgumentType]
  /\ \A t \in Threads : pc[t] \in MatchCalls => arg[t].match \in Matches
  /\ \A t \in Threads : pc[t] \in PlayerCalls => arg[t].player \in Players

\* A queued automatic accept has a player.
DataOK ==
  /\ sessionMap \subseteq Matches
  /\ playerIndex \in [Players -> Matches \cup {NoMatch}]
  /\ status \in [Matches -> Statuses]
  /\ ticket \in [Matches -> Statuses]
  /\ response \in [Matches -> [Players -> {"none", "accepted", "rejected"}]]
  /\ owned \in [Matches -> SUBSET Players]
  /\ jobs \subseteq Jobs
  /\ \A j \in jobs : j.kind = "demoAccept" => j.player \in Players
  /\ penalized \subseteq Players
  /\ zone \in [Matches -> {"absent", "open", "closed"}]

TypeInv == CallsOK /\ DataOK

\* Whichever tickets are given up, the rest are still those of players.
LEMMA ExpireTicketsType ==
  ASSUME TypeInv, NEW m \in Matches, ExpireTickets(m)
  PROVE  owned' \in [Matches -> SUBSET Players]
BY DEF ExpireTickets, TypeInv, DataOK

LEMMA TypeInvTypeOK == TypeInv => TypeOK
BY DEF TypeInv, CallsOK, DataOK, TypeOK, ArgumentType

LEMMA InitType == Init => TypeInv
BY MatchesAssumption DEF Init, TypeInv, CallsOK, DataOK, ArgumentType, MatchCalls,
   PlayerCalls, Calls, NoArg, Statuses, Jobs

-----------------------------------------------------------------------------
(* How the control of a thread moves.                                      *)

\* A thread that moves on within its handler keeps a match and a player.
LEMMA GotoType ==
  ASSUME CallsOK, NEW t \in Threads, NEW call \in Calls, Goto(t, call),
         call \in MatchCalls => pc[t] \in MatchCalls,
         call \in PlayerCalls => pc[t] \in PlayerCalls
  PROVE  CallsOK'
<1>1. CASE call = "Idle"
  <2>1. call \notin MatchCalls /\ call \notin PlayerCalls
    BY <1>1 DEF MatchCalls, PlayerCalls
  <2>2. NoArg \in ArgumentType
    BY DEF NoArg, ArgumentType
  <2> QED BY <1>1, <2>1, <2>2 DEF CallsOK, Goto
<1>2. CASE call # "Idle"
  BY <1>2 DEF CallsOK, Goto
<1> QED BY <1>1, <1>2

LEMMA EnterType ==
  ASSUME CallsOK, NEW t \in Threads, NEW call \in Calls, NEW a \in ArgumentType,
         Enter(t, call, a),
         call \in MatchCalls => a.match \in Matches,
         call \in PlayerCalls => a.player \in Players
  PROVE  CallsOK'
BY DEF CallsOK, Enter

LEMMA ChangeStatusType ==
  ASSUME TypeInv, NEW t \in Threads, NEW next \in Statuses,
         NEW done \in Calls, NEW refused \in Calls,
         pc[t] \in MatchCalls, done \notin PlayerCalls, refused \notin PlayerCalls,
         ChangeStatus(t, next, done, refused)
  PROVE  TypeInv'
<1>1. CallsOK'
  <2>1. CASE Goto(t, done) BY <2>1, GotoType DEF TypeInv
  <2>2. CASE Goto(t, refused) BY <2>2, GotoType DEF TypeInv
  <2> QED BY <2>1, <2>2 DEF ChangeStatus
<1>2. DataOK'
  BY DEF TypeInv, DataOK, ChangeStatus, SetStatus, outsideVars
<1> QED BY <1>1, <1>2 DEF TypeInv

\* The calls that a handler makes on its own match.
LEMMA CallKinds ==
  /\ \A c \in Calls : c \in MatchCalls <=> c \notin {"Idle", "Stop", "Accept"}
  /\ \A c \in Calls : c \in PlayerCalls <=> c \in {"Stop", "Accept", "AcceptPlayer", "AddPenalty"}
BY DEF MatchCalls, PlayerCalls

-----------------------------------------------------------------------------

LEMMA StepType ==
  ASSUME TypeInv, NEW t \in Threads, Step(t)
  PROVE  TypeInv'
<1> USE DEF TypeInv
<1>a. CallsOK /\ DataOK
  OBVIOUS
<1>b. NoArg \in ArgumentType
  BY DEF NoArg, ArgumentType
<1>1. CASE RequireAcceptance(t)
  <2>1. pc[t] \in MatchCalls
    BY <1>1 DEF RequireAcceptance, MatchCalls, Calls
  <2> QED
    BY <1>1, <2>1, ChangeStatusType DEF RequireAcceptance, Calls, PlayerCalls, Statuses
<1>2. CASE ExpireOwnership(t)
  <2>1. CallsOK'
    BY <1>2, <1>a, GotoType DEF ExpireOwnership, Calls, MatchCalls, PlayerCalls
  <2>2. arg[t].match \in Matches
    BY <1>2, <1>a DEF ExpireOwnership, CallsOK, MatchCalls, Calls
  <2>3. owned' \in [Matches -> SUBSET Players]
    BY <1>2, <2>2, ExpireTicketsType DEF ExpireOwnership
  <2>4. DataOK'
    BY <1>2, <1>a, <2>3 DEF ExpireOwnership, DataOK, sessionVars, outsideVars
  <2> QED BY <2>1, <2>4
<1>3. CASE ScheduleAccept(t)
  <2>1. CallsOK'
    BY <1>3, <1>a, GotoType DEF ScheduleAccept, Calls, MatchCalls, PlayerCalls
  <2>2. arg[t].match \in Matches
    BY <1>3, <1>a DEF ScheduleAccept, CallsOK, MatchCalls, Calls
  <2>3. DataOK'
    BY <1>3, <1>a, <2>2, MatchesAssumption
       DEF ScheduleAccept, DataOK, sessionVars, outsideVars, Jobs, JobKinds
  <2> QED BY <2>1, <2>3
<1>4. CASE InsertFailed(t)
  <2>1. CallsOK'
    BY <1>4, <1>a, GotoType DEF InsertFailed, Calls, MatchCalls, PlayerCalls
  <2>2. arg[t].match \in Matches
    BY <1>4, <1>a DEF InsertFailed, CallsOK, MatchCalls, Calls
  <2>3. owned' \in [Matches -> SUBSET Players]
    BY <1>4, <1>a, <2>2, ExpireTicketsType DEF InsertFailed, DataOK
  <2>4. DataOK'
    BY <1>4, <1>a, <2>3 DEF InsertFailed, DataOK, Statuses
  <2> QED BY <2>1, <2>4
<1>5. CASE StopMatchmaking(t)
  <2>1. CallsOK'
    BY <1>5, <1>a, GotoType DEF StopMatchmaking, Calls, MatchCalls, PlayerCalls
  <2>2. DataOK'
    BY <1>5, <1>a, MatchesAssumption DEF StopMatchmaking, DataOK, sessionVars, outsideVars
  <2> QED BY <2>1, <2>2
<1>6. CASE AcceptMatchSession(t)
  <2> DEFINE m == FindByPlayerKey(arg[t].player)
             a == [arg[t] EXCEPT !.match = m]
  <2>1. arg[t].player \in Players /\ arg[t] \in ArgumentType
    BY <1>6, <1>a DEF AcceptMatchSession, CallsOK, PlayerCalls
  <2>2. m \in Matches \cup {NoMatch}
    BY <1>a, <2>1 DEF DataOK, FindByPlayerKey
  <2>3. a \in ArgumentType /\ a.match = m /\ a.player = arg[t].player
    BY <2>1, <2>2 DEF ArgumentType
  <2>4. CallsOK'
    <3>1. CASE m # NoMatch /\ Enter(t, "AcceptPlayer", a)
      <4> HIDE DEF a
      <4> QED BY <3>1, <1>a, <2>1, <2>2, <2>3, EnterType DEF Calls
    <3>2. CASE Goto(t, "Idle")
      BY <3>2, <1>a, GotoType DEF Calls, MatchCalls, PlayerCalls
    <3> QED BY <1>6, <3>1, <3>2 DEF AcceptMatchSession
  <2>5. DataOK'
    BY <1>6, <1>a DEF AcceptMatchSession, DataOK, sessionVars, outsideVars
  <2> QED BY <2>4, <2>5
<1>7. CASE AcceptPlayerSession(t)
  <2>1. CallsOK'
    <3>1. PICK call \in {"AllAccepted", "AddPenalty", "Idle"} : Goto(t, call)
      BY <1>7 DEF AcceptPlayerSession
    <3>2. pc[t] \in MatchCalls /\ pc[t] \in PlayerCalls /\ call \in Calls
      BY <1>7, <3>1 DEF AcceptPlayerSession, Calls, MatchCalls, PlayerCalls
    <3> QED BY <1>a, <3>1, <3>2, GotoType
  <2>2. arg[t].match \in Matches /\ arg[t].player \in Players
    BY <1>7, <1>a DEF AcceptPlayerSession, CallsOK, MatchCalls, PlayerCalls, Calls
  <2>3. response' \in [Matches -> [Players -> {"none", "accepted", "rejected"}]]
    <3>1. response \in [Matches -> [Players -> {"none", "accepted", "rejected"}]]
      BY <1>a DEF DataOK
    <3>2. \/ UNCHANGED response
          \/ \E r \in {"accepted", "rejected"} :
               response' = [response EXCEPT ![arg[t].match][arg[t].player] = r]
      BY <1>7 DEF AcceptPlayerSession
    <3> QED BY <2>2, <3>1, <3>2
  <2>4. DataOK'
    BY <1>7, <1>a, <2>3 DEF AcceptPlayerSession, DataOK, outsideVars
  <2> QED BY <2>1, <2>4
<1>8. CASE AddDodgePenalty(t)
  <2>1. CallsOK'
    BY <1>8, <1>a, GotoType DEF AddDodgePenalty, Calls, MatchCalls, PlayerCalls
  <2>2. arg[t].player \in Players
    BY <1>8, <1>a DEF AddDodgePenalty, CallsOK, PlayerCalls
  <2>3. DataOK'
    BY <1>8, <1>a, <2>2 DEF AddDodgePenalty, DataOK, sessionVars
  <2> QED BY <2>1, <2>3
<1>9. CASE CheckAllAccepted(t)
  <2>1. CallsOK'
    BY <1>9, <1>a, GotoType DEF CheckAllAccepted, Calls, MatchCalls, PlayerCalls
  <2>2. DataOK'
    BY <1>9, <1>a, MatchesAssumption DEF CheckAllAccepted, DataOK, sessionVars, outsideVars
  <2> QED BY <2>1, <2>2
<1>10. CASE PlaceMatchSession(t)
  <2>1. CallsOK'
    BY <1>10, <1>a, GotoType DEF PlaceMatchSession, Calls, MatchCalls, PlayerCalls
  <2>2. DataOK'
    BY <1>10, <1>a, MatchesAssumption DEF PlaceMatchSession, DataOK, sessionVars, outsideVars
  <2> QED BY <2>1, <2>2
<1>11. CASE ChangePlacing(t)
  <2>1. pc[t] \in MatchCalls
    BY <1>11 DEF ChangePlacing, MatchCalls, Calls
  <2> QED
    BY <1>11, <2>1, ChangeStatusType DEF ChangePlacing, Calls, PlayerCalls, Statuses
<1>12. CASE SchedulePlace(t)
  <2>1. CallsOK'
    BY <1>12, <1>a, GotoType DEF SchedulePlace, Calls, MatchCalls, PlayerCalls
  <2>2. arg[t].match \in Matches
    BY <1>12, <1>a DEF SchedulePlace, CallsOK, MatchCalls, Calls
  <2>3. DataOK'
    BY <1>12, <1>a, <2>2 DEF SchedulePlace, DataOK, sessionVars, outsideVars, Jobs, JobKinds
  <2> QED BY <2>1, <2>3
<1>13. CASE OnTimeOutAcceptMatchSession(t)
  <2>1. CallsOK'
    BY <1>13, <1>a, GotoType DEF OnTimeOutAcceptMatchSession, OnTimeOut, Calls, MatchCalls, PlayerCalls
  <2>2. DataOK'
    BY <1>13, <1>a, MatchesAssumption DEF OnTimeOutAcceptMatchSession, OnTimeOut, DataOK, sessionVars, outsideVars
  <2> QED BY <2>1, <2>2
<1>14. CASE EndAcceptWait(t)
  <2>1. pc[t] \in MatchCalls
    BY <1>14 DEF EndAcceptWait, MatchCalls, Calls
  <2> QED
    BY <1>14, <2>1, ChangeStatusType DEF EndAcceptWait, Calls, PlayerCalls, Statuses
<1>15. CASE OnTimeOutPlaceMatchSession(t)
  <2>1. CallsOK'
    BY <1>15, <1>a, GotoType DEF OnTimeOutPlaceMatchSession, OnTimeOut, Calls, MatchCalls, PlayerCalls
  <2>2. DataOK'
    BY <1>15, <1>a, MatchesAssumption DEF OnTimeOutPlaceMatchSession, OnTimeOut, DataOK, sessionVars, outsideVars
  <2> QED BY <2>1, <2>2
<1>16. CASE EndPlaceWait(t)
  <2>1. pc[t] \in MatchCalls
    BY <1>16 DEF EndPlaceWait, MatchCalls, Calls
  <2> QED
    BY <1>16, <2>1, ChangeStatusType DEF EndPlaceWait, Calls, PlayerCalls, Statuses
<1>17. CASE OnCompleteMatchSession(t)
  <2>1. CallsOK'
    BY <1>17, <1>a, GotoType DEF OnCompleteMatchSession, Calls, MatchCalls, PlayerCalls
  <2>2. DataOK'
    BY <1>17, <1>a, MatchesAssumption DEF OnCompleteMatchSession, DataOK, sessionVars, outsideVars
  <2> QED BY <2>1, <2>2
<1>18. CASE InsertZone(t)
  <2>1. CallsOK'
    BY <1>18, <1>a, GotoType DEF InsertZone, Calls, MatchCalls, PlayerCalls
  <2>2. DataOK'
    BY <1>18, <1>a, MatchesAssumption DEF InsertZone, DataOK, sessionVars, outsideVars
  <2> QED BY <2>1, <2>2
<1>19. CASE ChangeCompleted(t)
  <2>1. pc[t] \in MatchCalls
    BY <1>19 DEF ChangeCompleted, MatchCalls, Calls
  <2> QED
    BY <1>19, <2>1, ChangeStatusType DEF ChangeCompleted, Calls, PlayerCalls, Statuses
<1>20. CASE EraseZone(t)
  <2>1. CallsOK'
    BY <1>20, <1>a, GotoType DEF EraseZone, Calls, MatchCalls, PlayerCalls
  <2>2. DataOK'
    BY <1>20, <1>a, MatchesAssumption DEF EraseZone, DataOK, sessionVars, outsideVars
  <2> QED BY <2>1, <2>2
<1>21. CASE OnFailedMatchSession(t)
  <2>1. pc[t] \in MatchCalls
    BY <1>21 DEF OnFailedMatchSession, MatchCalls, Calls
  <2>2. CASE ChangeStatus(t, "FAILED", "Erase", "Idle")
    BY <2>1, <2>2, ChangeStatusType DEF Calls, PlayerCalls, Statuses
  <2>3. CASE Goto(t, "Idle") /\ UNCHANGED <<sessionVars, jobs, outsideVars>>
    <3>1. CallsOK'
      BY <2>3, <1>a, GotoType DEF Calls, MatchCalls, PlayerCalls
    <3>2. DataOK'
      BY <2>3, <1>a DEF DataOK, sessionVars, outsideVars
    <3> QED BY <3>1, <3>2
  <2> QED BY <1>21, <2>2, <2>3 DEF OnFailedMatchSession
<1>22. CASE EraseMatchSession(t)
  <2>1. CallsOK'
    BY <1>22, <1>a, GotoType DEF EraseMatchSession, Calls, MatchCalls, PlayerCalls
  <2>2. DataOK'
    BY <1>22, <1>a, MatchesAssumption DEF EraseMatchSession, DataOK, sessionVars, outsideVars
  <2> QED BY <2>1, <2>2
<1> QED BY <1>1, <1>2, <1>3, <1>4, <1>5, <1>6, <1>7, <1>8, <1>9, <1>10, <1>11, <1>12,
           <1>13, <1>14, <1>15, <1>16, <1>17, <1>18, <1>19, <1>20, <1>21, <1>22 DEF Step

LEMMA NextType == TypeInv /\ [Next]_vars => TypeInv'
<1> SUFFICES ASSUME TypeInv, [Next]_vars PROVE TypeInv'
  OBVIOUS
<1>a. CallsOK /\ DataOK
  BY DEF TypeInv
<1>1. ASSUME NEW t \in Creators, NEW m \in Matches, CreateMatchSession(t, m)
      PROVE  TypeInv'
  <2> DEFINE a == [NoArg EXCEPT !.match = m]
  <2>1. a \in ArgumentType /\ a.match = m
    BY DEF NoArg, ArgumentType
  <2>2. t \in Threads
    BY DEF Threads
  <2>3. CallsOK'
    <3>1. CASE Enter(t, "Require", a)
      <4> HIDE DEF a
      <4> QED BY <3>1, <1>a, <2>1, <2>2, EnterType DEF Calls, PlayerCalls
    <3>2. CASE Enter(t, "InsertFailed", a)
      <4> HIDE DEF a
      <4> QED BY <3>2, <1>a, <2>1, <2>2, EnterType DEF Calls, PlayerCalls
    <3> QED BY <1>1, <3>1, <3>2 DEF CreateMatchSession
  <2>4. DataOK'
    BY <1>1, <1>a DEF CreateMatchSession, InsertMatchSession, DataOK, outsideVars, Statuses
  <2> QED BY <2>3, <2>4 DEF TypeInv
<1>2. ASSUME NEW t \in Clients, NEW p \in Players, NEW accept \in BOOLEAN,
             CallAccept(t, p, accept)
      PROVE  TypeInv'
  <2> DEFINE a == [NoArg EXCEPT !.player = p, !.accept = accept]
  <2>1. a \in ArgumentType /\ a.player = p
    BY DEF NoArg, ArgumentType
  <2>2. CallsOK'
    <3>1. Enter(t, "Accept", a)
      BY <1>2 DEF CallAccept
    <3> HIDE DEF a
    <3> QED BY <3>1, <1>a, <2>1, EnterType DEF Calls, MatchCalls, Threads
  <2>3. DataOK'
    BY <1>2, <1>a DEF CallAccept, DataOK, sessionVars, outsideVars
  <2> QED BY <2>2, <2>3 DEF TypeInv
<1>3. ASSUME NEW t \in Clients, NEW p \in Players, NEW cleanup \in BOOLEAN,
             CallStop(t, p, cleanup)
      PROVE  TypeInv'
  <2> DEFINE a == [NoArg EXCEPT !.player = p, !.cleanup = cleanup]
  <2>1. a \in ArgumentType /\ a.player = p
    BY DEF NoArg, ArgumentType
  <2>2. CallsOK'
    <3>1. Enter(t, "Stop", a)
      BY <1>3 DEF CallStop
    <3> HIDE DEF a
    <3> QED BY <3>1, <1>a, <2>1, EnterType DEF Calls, MatchCalls, Threads
  <2>3. DataOK'
    BY <1>3, <1>a DEF CallStop, DataOK, sessionVars, outsideVars
  <2> QED BY <2>2, <2>3 DEF TypeInv
<1>4. ASSUME NEW j \in jobs, RunJob(j)
      PROVE  TypeInv'
  <2> DEFINE a == IF j.kind = "demoAccept"
                  THEN [NoArg EXCEPT !.player = j.player, !.accept = TRUE]
                  ELSE [NoArg EXCEPT !.match = j.match]
             c == HandlerOf[j.kind]
  <2>1. j \in Jobs /\ (j.kind = "demoAccept" => j.player \in Players)
    BY <1>a DEF DataOK
  <2>2. a \in ArgumentType
    BY <2>1 DEF Jobs, NoArg, ArgumentType
  <2>3. ASSUME j.kind = "demoAccept" PROVE CallsOK'
    <3>1. c = "Accept" /\ a.player \in Players
      BY <2>1, <2>3 DEF HandlerOf, NoArg
    <3>2. Enter(Async, c, a)
      BY <1>4 DEF RunJob
    <3> HIDE DEF a, c
    <3> QED BY <2>2, <3>1, <3>2, <1>a, EnterType DEF Calls, MatchCalls, Threads
  <2>4. ASSUME j.kind # "demoAccept" PROVE CallsOK'
    <3>1. c \in {"OnTimeOutAccept", "OnTimeOutPlace", "OnComplete"}
      BY <2>1, <2>4 DEF HandlerOf, Jobs, JobKinds
    <3>2. a.match \in Matches
      BY <2>1, <2>4 DEF NoArg, Jobs
    <3>3. Enter(Async, c, a)
      BY <1>4 DEF RunJob
    <3> HIDE DEF a, c
    <3> QED BY <2>2, <3>1, <3>2, <3>3, <1>a, EnterType DEF Calls, PlayerCalls, Threads
  <2>5. DataOK'
    BY <1>4, <1>a DEF RunJob, DataOK, sessionVars, outsideVars
  <2> QED BY <2>3, <2>4, <2>5 DEF TypeInv
<1>5. ASSUME NEW m \in Matches, CloseZone(m)
      PROVE  TypeInv'
  BY <1>5, <1>a DEF CloseZone, TypeInv, DataOK, CallsOK, sessionVars
<1>6. CASE UNCHANGED vars
  BY <1>6, <1>a DEF vars, TypeInv, DataOK, CallsOK
<1> QED BY <1>1, <1>2, <1>3, <1>4, <1>5, <1>6, StepType DEF Next

\* Every reachable state is well typed, and every handler has the match or the
\* player it works on.
THEOREM TypeCorrect == Spec => [](TypeOK /\ CallsOK)
<1>1. TypeInv => TypeOK /\ CallsOK
  BY TypeInvTypeOK DEF TypeInv
<1> QED BY <1>1, InitType, NextType, PTL DEF Spec

-----------------------------------------------------------------------------
(* What one step of a handler may change.                                  *)

\* Only the stepping thread moves; it keeps its arguments until its handler
\* ends or finds the session it is for, and it comes to the two calls before
\* PLACING only by the checks that lead there.
LEMMA StepControl ==
  ASSUME TypeInv, NEW t \in Threads, Step(t)
  PROVE  /\ \A u \in Threads \ {t} : pc'[u] = pc[u] /\ arg'[u] = arg[u]
         /\ pc'[t] \notin {"Idle", "AcceptPlayer"} => arg'[t] = arg[t]
         /\ pc'[t] = "Place" => pc[t] = "AllAccepted" /\ IsAllAccept(arg[t].match)
         /\ pc'[t] = "ChangePlacing" => pc[t] = "Place"
         /\ pc'[t] = "InsertZone" => pc[t] = "OnComplete"
         /\ pc'[t] = "ChangeCompleted" => pc[t] = "InsertZone"
         /\ pc'[t] = "EraseZone" => pc[t] = "ChangeCompleted"
         /\ pc'[t] # "OnComplete"
         /\ pc[t] = "Erase" => pc'[t] = "Idle"
<1>a. pc \in [Threads -> Calls] /\ arg \in [Threads -> ArgumentType]
  BY DEF TypeInv, CallsOK
<1> USE DEF Goto, Enter
<1>1. CASE RequireAcceptance(t) BY <1>1, <1>a DEF RequireAcceptance, ChangeStatus
<1>2. CASE ExpireOwnership(t) BY <1>2, <1>a DEF ExpireOwnership
<1>3. CASE ScheduleAccept(t) BY <1>3, <1>a DEF ScheduleAccept
<1>4. CASE InsertFailed(t) BY <1>4, <1>a DEF InsertFailed
<1>5. CASE StopMatchmaking(t) BY <1>5, <1>a DEF StopMatchmaking
<1>6. CASE AcceptMatchSession(t) BY <1>6, <1>a DEF AcceptMatchSession
<1>7. CASE AcceptPlayerSession(t) BY <1>7, <1>a DEF AcceptPlayerSession
<1>8. CASE AddDodgePenalty(t) BY <1>8, <1>a DEF AddDodgePenalty
<1>9. CASE CheckAllAccepted(t) BY <1>9, <1>a DEF CheckAllAccepted
<1>10. CASE PlaceMatchSession(t) BY <1>10, <1>a DEF PlaceMatchSession
<1>11. CASE ChangePlacing(t) BY <1>11, <1>a DEF ChangePlacing, ChangeStatus
<1>12. CASE SchedulePlace(t) BY <1>12, <1>a DEF SchedulePlace
<1>13. CASE OnTimeOutAcceptMatchSession(t) BY <1>13, <1>a DEF OnTimeOutAcceptMatchSession, OnTimeOut
<1>14. CASE EndAcceptWait(t) BY <1>14, <1>a DEF EndAcceptWait, ChangeStatus
<1>15. CASE OnTimeOutPlaceMatchSession(t) BY <1>15, <1>a DEF OnTimeOutPlaceMatchSession, OnTimeOut
<1>16. CASE EndPlaceWait(t) BY <1>16, <1>a DEF EndPlaceWait, ChangeStatus
<1>17. CASE OnCompleteMatchSession(t) BY <1>17, <1>a DEF OnCompleteMatchSession
<1>18. CASE InsertZone(t) BY <1>18, <1>a DEF InsertZone
<1>19. CASE ChangeCompleted(t) BY <1>19, <1>a DEF ChangeCompleted, ChangeStatus
<1>20. CASE EraseZone(t) BY <1>20, <1>a DEF EraseZone
<1>21. CASE OnFailedMatchSession(t) BY <1>21, <1>a DEF OnFailedMatchSession, ChangeStatus
<1>22. CASE EraseMatchSession(t) BY <1>22, <1>a DEF EraseMatchSession
<1> QED BY <1>1, <1>2, <1>3, <1>4, <1>5, <1>6, <1>7, <1>8, <1>9, <1>10, <1>11, <1>12,
           <1>13, <1>14, <1>15, <1>16, <1>17, <1>18, <1>19, <1>20, <1>21, <1>22 DEF Step

\* The call from which a session gets a status, and where the handler goes.
StatusCalls ==
  {<<"Require", "REQUIRES_ACCEPTANCE", "ExpireOwnership">>,
   <<"ChangePlacing", "PLACING", "SchedulePlace">>,
   <<"EndAcceptWait", "TIMED_OUT", "Erase">>,
   <<"EndPlaceWait", "TIMED_OUT", "Erase">>,
   <<"ChangeCompleted", "COMPLETED", "Erase">>,
   <<"OnFailed", "FAILED", "Erase">>}

\* A session's status changes only by the table, in one of these calls of a
\* handler that works on it, and its tickets change with it.
LEMMA StepStatus ==
  ASSUME TypeInv, NEW t \in Threads, Step(t), NEW m \in Matches
  PROVE  /\ status'[m] # status[m] =>
              /\ m = arg[t].match
              /\ CanChangeStatus(status[m], status'[m])
              /\ <<pc[t], status'[m], pc'[t]>> \in StatusCalls
              /\ ticket'[m] = status'[m]
         /\ status'[m] = status[m] =>
              ticket'[m] = ticket[m] \/ InsertFailed(t)
<1>a. /\ pc \in [Threads -> Calls]
      /\ status \in [Matches -> Statuses] /\ ticket \in [Matches -> Statuses]
  BY DEF TypeInv, CallsOK, DataOK
<1>b. \A s \in Statuses : ~CanChangeStatus(s, s)
  BY DEF Statuses, CanChangeStatus, NextStatuses
<1> DEFINE Goal ==
      /\ status'[m] # status[m] =>
           /\ m = arg[t].match
           /\ CanChangeStatus(status[m], status'[m])
           /\ <<pc[t], status'[m], pc'[t]>> \in StatusCalls
           /\ ticket'[m] = status'[m]
      /\ status'[m] = status[m] => ticket'[m] = ticket[m] \/ InsertFailed(t)
<1>c. ASSUME NEW next, NEW done, NEW refused, ChangeStatus(t, next, done, refused),
             <<pc[t], next, done>> \in StatusCalls
      PROVE  Goal
  <2>1. CASE m = arg[t].match /\ CanChange(m, next)
    <3>1. /\ status'[m] = next /\ ticket'[m] = next /\ pc'[t] = done
          /\ CanChangeStatus(status[m], next)
      BY <1>a, <1>c, <2>1 DEF ChangeStatus, SetStatus, CanChange, Goto
    <3> QED BY <1>a, <1>b, <1>c, <2>1, <3>1
  <2>2. CASE ~(m = arg[t].match /\ CanChange(m, next))
    BY <1>a, <1>c, <2>2 DEF ChangeStatus, SetStatus
  <2> QED BY <2>1, <2>2
<1>1. CASE RequireAcceptance(t) BY <1>1, <1>c DEF RequireAcceptance, StatusCalls
<1>2. CASE ExpireOwnership(t) BY <1>2 DEF ExpireOwnership, sessionVars
<1>3. CASE ScheduleAccept(t) BY <1>3 DEF ScheduleAccept, sessionVars
<1>4. CASE InsertFailed(t) BY <1>4 DEF InsertFailed
<1>5. CASE StopMatchmaking(t) BY <1>5 DEF StopMatchmaking, sessionVars
<1>6. CASE AcceptMatchSession(t) BY <1>6 DEF AcceptMatchSession, sessionVars
<1>7. CASE AcceptPlayerSession(t) BY <1>7 DEF AcceptPlayerSession, sessionVars
<1>8. CASE AddDodgePenalty(t) BY <1>8 DEF AddDodgePenalty, sessionVars
<1>9. CASE CheckAllAccepted(t) BY <1>9 DEF CheckAllAccepted, sessionVars
<1>10. CASE PlaceMatchSession(t) BY <1>10 DEF PlaceMatchSession, sessionVars
<1>11. CASE ChangePlacing(t) BY <1>11, <1>c DEF ChangePlacing, StatusCalls
<1>12. CASE SchedulePlace(t) BY <1>12 DEF SchedulePlace, sessionVars
<1>13. CASE OnTimeOutAcceptMatchSession(t) BY <1>13 DEF OnTimeOutAcceptMatchSession, OnTimeOut, sessionVars
<1>14. CASE EndAcceptWait(t) BY <1>14, <1>c DEF EndAcceptWait, StatusCalls
<1>15. CASE OnTimeOutPlaceMatchSession(t) BY <1>15 DEF OnTimeOutPlaceMatchSession, OnTimeOut, sessionVars
<1>16. CASE EndPlaceWait(t) BY <1>16, <1>c DEF EndPlaceWait, StatusCalls
<1>17. CASE OnCompleteMatchSession(t) BY <1>17 DEF OnCompleteMatchSession, sessionVars
<1>18. CASE InsertZone(t) BY <1>18 DEF InsertZone, sessionVars
<1>19. CASE ChangeCompleted(t) BY <1>19, <1>c DEF ChangeCompleted, StatusCalls
<1>20. CASE EraseZone(t) BY <1>20 DEF EraseZone, sessionVars
<1>21. CASE OnFailedMatchSession(t)
  <2>1. CASE ChangeStatus(t, "FAILED", "Erase", "Idle")
    BY <1>21, <1>c, <2>1 DEF OnFailedMatchSession, StatusCalls
  <2>2. CASE UNCHANGED <<sessionVars, jobs, outsideVars>>
    BY <2>2 DEF sessionVars
  <2> QED BY <1>21, <2>1, <2>2 DEF OnFailedMatchSession
<1>22. CASE EraseMatchSession(t) BY <1>22 DEF EraseMatchSession, sessionVars
<1> QED BY <1>1, <1>2, <1>3, <1>4, <1>5, <1>6, <1>7, <1>8, <1>9, <1>10, <1>11, <1>12,
           <1>13, <1>14, <1>15, <1>16, <1>17, <1>18, <1>19, <1>20, <1>21, <1>22 DEF Step

\* The session map, the player index, the answers and the zones have few
\* writers.
LEMMA StepFrame ==
  ASSUME NEW t \in Threads, Step(t)
  PROVE  /\ EraseMatchSession(t) \/ UNCHANGED <<sessionMap, playerIndex>>
         /\ AcceptPlayerSession(t) \/ UNCHANGED response
         /\ InsertZone(t) \/ EraseZone(t) \/ UNCHANGED zone
<1> USE DEF sessionVars, outsideVars
<1>1. CASE RequireAcceptance(t) BY <1>1 DEF RequireAcceptance, ChangeStatus
<1>2. CASE ExpireOwnership(t) BY <1>2 DEF ExpireOwnership
<1>3. CASE ScheduleAccept(t) BY <1>3 DEF ScheduleAccept
<1>4. CASE InsertFailed(t) BY <1>4 DEF InsertFailed
<1>5. CASE StopMatchmaking(t) BY <1>5 DEF StopMatchmaking
<1>6. CASE AcceptMatchSession(t) BY <1>6 DEF AcceptMatchSession
<1>7. CASE AcceptPlayerSession(t) BY <1>7 DEF AcceptPlayerSession
<1>8. CASE AddDodgePenalty(t) BY <1>8 DEF AddDodgePenalty
<1>9. CASE CheckAllAccepted(t) BY <1>9 DEF CheckAllAccepted
<1>10. CASE PlaceMatchSession(t) BY <1>10 DEF PlaceMatchSession
<1>11. CASE ChangePlacing(t) BY <1>11 DEF ChangePlacing, ChangeStatus
<1>12. CASE SchedulePlace(t) BY <1>12 DEF SchedulePlace
<1>13. CASE OnTimeOutAcceptMatchSession(t) BY <1>13 DEF OnTimeOutAcceptMatchSession, OnTimeOut
<1>14. CASE EndAcceptWait(t) BY <1>14 DEF EndAcceptWait, ChangeStatus
<1>15. CASE OnTimeOutPlaceMatchSession(t) BY <1>15 DEF OnTimeOutPlaceMatchSession, OnTimeOut
<1>16. CASE EndPlaceWait(t) BY <1>16 DEF EndPlaceWait, ChangeStatus
<1>17. CASE OnCompleteMatchSession(t) BY <1>17 DEF OnCompleteMatchSession
<1>18. CASE InsertZone(t) BY <1>18 DEF InsertZone
<1>19. CASE ChangeCompleted(t) BY <1>19 DEF ChangeCompleted, ChangeStatus
<1>20. CASE EraseZone(t) BY <1>20 DEF EraseZone
<1>21. CASE OnFailedMatchSession(t) BY <1>21 DEF OnFailedMatchSession, ChangeStatus
<1>22. CASE EraseMatchSession(t) BY <1>22 DEF EraseMatchSession
<1> QED BY <1>1, <1>2, <1>3, <1>4, <1>5, <1>6, <1>7, <1>8, <1>9, <1>10, <1>11, <1>12,
           <1>13, <1>14, <1>15, <1>16, <1>17, <1>18, <1>19, <1>20, <1>21, <1>22 DEF Step

-----------------------------------------------------------------------------
(* The steps that are not inside a handler.                                *)

\* A call or a job starts, a zone closes, or nothing happens.
Outside ==
  \/ \E t \in Clients, p \in Players, accept \in BOOLEAN : CallAccept(t, p, accept)
  \/ \E t \in Clients, p \in Players, cleanup \in BOOLEAN : CallStop(t, p, cleanup)
  \/ \E j \in jobs : RunJob(j)
  \/ \E m \in Matches : CloseZone(m)
  \/ UNCHANGED vars

LEMMA NextCases ==
  [Next]_vars => \/ \E t \in Creators, m \in Matches : CreateMatchSession(t, m)
                 \/ \E t \in Threads : Step(t)
                 \/ Outside
BY DEF Next, Outside

FirstCalls == {"Accept", "Stop", "OnTimeOutAccept", "OnTimeOutPlace", "OnComplete"}

LEMMA OutsideStep ==
  ASSUME TypeInv, Outside
  PROVE  /\ UNCHANGED sessionVars
         /\ \A u \in Threads :
              \/ pc'[u] = pc[u] /\ arg'[u] = arg[u]
              \/ /\ pc[u] = "Idle" /\ pc'[u] \in FirstCalls
                 /\ pc'[u] \in MatchCalls =>
                      u = Async /\ \E j \in jobs : arg'[u].match = j.match
         /\ jobs' \subseteq jobs
         /\ \A m \in Matches : zone'[m] = zone[m] \/ (zone[m] = "open" /\ zone'[m] = "closed")
<1>a. /\ pc \in [Threads -> Calls] /\ arg \in [Threads -> ArgumentType]
      /\ zone \in [Matches -> {"absent", "open", "closed"}]
  BY DEF TypeInv, CallsOK, DataOK
<1>b. "Accept" \notin MatchCalls /\ "Stop" \notin MatchCalls
  BY DEF MatchCalls
<1>1. ASSUME NEW t \in Clients, NEW p \in Players, NEW accept \in BOOLEAN,
             CallAccept(t, p, accept)
      PROVE  /\ UNCHANGED <<sessionVars, jobs, zone>>
             /\ \A u \in Threads : \/ pc'[u] = pc[u] /\ arg'[u] = arg[u]
                                   \/ pc[u] = "Idle" /\ pc'[u] = "Accept"
  BY <1>1, <1>a DEF CallAccept, Enter, outsideVars, Threads
<1>2. ASSUME NEW t \in Clients, NEW p \in Players, NEW cleanup \in BOOLEAN,
             CallStop(t, p, cleanup)
      PROVE  /\ UNCHANGED <<sessionVars, jobs, zone>>
             /\ \A u \in Threads : \/ pc'[u] = pc[u] /\ arg'[u] = arg[u]
                                   \/ pc[u] = "Idle" /\ pc'[u] = "Stop"
  BY <1>2, <1>a DEF CallStop, Enter, outsideVars, Threads
<1>3. ASSUME NEW j \in jobs, RunJob(j)
      PROVE  /\ UNCHANGED <<sessionVars, zone>> /\ jobs' \subseteq jobs
             /\ \A u \in Threads :
                  \/ pc'[u] = pc[u] /\ arg'[u] = arg[u]
                  \/ /\ u = Async /\ pc[u] = "Idle" /\ pc'[u] \in FirstCalls
                     /\ pc'[u] \in MatchCalls => arg'[u].match = j.match
  <2>1. HandlerOf[j.kind] \in FirstCalls
    BY <1>3 DEF TypeInv, DataOK, Jobs, JobKinds, HandlerOf, FirstCalls
  <2>2. pc' = [pc EXCEPT ![Async] = HandlerOf[j.kind]] /\ pc[Async] = "Idle"
    BY <1>3 DEF RunJob, Enter
  <2>3. \A u \in Threads : u # Async => arg'[u] = arg[u]
    BY <1>3, <1>a DEF RunJob, Enter
  <2>4. \A u \in Threads : pc'[u] = IF u = Async THEN HandlerOf[j.kind] ELSE pc[u]
    BY <2>2, <1>a
  <2>5. UNCHANGED <<sessionVars, zone>> /\ jobs' \subseteq jobs
    BY <1>3 DEF RunJob, outsideVars
  <2>6. HandlerOf[j.kind] \in MatchCalls => arg'[Async].match = j.match
    <3>1. j.kind = "demoAccept" => HandlerOf[j.kind] = "Accept"
      BY DEF HandlerOf
    <3> QED BY <1>3, <1>a, <1>b, <3>1 DEF RunJob, Enter, NoArg, Threads
  <2> QED BY <2>1, <2>2, <2>3, <2>4, <2>5, <2>6
<1>4. ASSUME NEW m \in Matches, CloseZone(m)
      PROVE  /\ UNCHANGED <<sessionVars, jobs, pc, arg>>
             /\ \A n \in Matches : zone'[n] = zone[n] \/ (zone[n] = "open" /\ zone'[n] = "closed")
  <2>1. UNCHANGED <<sessionVars, jobs, pc, arg>>
    BY <1>4 DEF CloseZone
  <2>2. \A n \in Matches : zone'[n] = zone[n] \/ (zone[n] = "open" /\ zone'[n] = "closed")
    BY <1>4, <1>a DEF CloseZone
  <2> QED BY <2>1, <2>2
<1>5. CASE UNCHANGED vars
  BY <1>5 DEF vars, sessionVars
<1> QED BY <1>b, <1>1, <1>2, <1>3, <1>4, <1>5 DEF Outside, FirstCalls

LEMMA CreateStep ==
  ASSUME TypeInv, NEW t \in Creators, NEW m \in Matches, CreateMatchSession(t, m)
  PROVE  /\ UNCHANGED <<ticket, response, jobs, zone>>
         /\ status[m] = "None" /\ status'[m] = "SEARCHING"
         /\ \A n \in Matches \ {m} : status'[n] = status[n]
         /\ pc[t] = "Idle" /\ pc'[t] \in {"Require", "InsertFailed"}
         /\ \A u \in Threads \ {t} : pc'[u] = pc[u] /\ arg'[u] = arg[u]
BY DEF CreateMatchSession, Enter, outsideVars, TypeInv, CallsOK, DataOK, Threads

-----------------------------------------------------------------------------
(* The session map and the player index.                                   *)

LEMMA IndexInit == Init => IndexMatchesSessions
BY MatchesAssumption DEF Init, IndexMatchesSessions

LEMMA IndexNext == TypeInv /\ IndexMatchesSessions /\ [Next]_vars => IndexMatchesSessions'
<1> SUFFICES ASSUME TypeInv, IndexMatchesSessions, [Next]_vars
             PROVE  IndexMatchesSessions'
  OBVIOUS
<1>a. playerIndex \in [Players -> Matches \cup {NoMatch}] /\ sessionMap \subseteq Matches
  BY DEF TypeInv, DataOK
<1>1. ASSUME NEW t \in Creators, NEW m \in Matches, CreateMatchSession(t, m)
      PROVE  IndexMatchesSessions'
  <2>1. CASE UNCHANGED <<sessionMap, playerIndex>>
    BY <2>1 DEF IndexMatchesSessions
  <2>2. CASE /\ \A p \in PlayersOf[m] : playerIndex[p] = NoMatch
             /\ m \notin sessionMap
             /\ sessionMap' = sessionMap \cup {m}
             /\ playerIndex' = [p \in Players |->
                                  IF p \in PlayersOf[m] THEN m ELSE playerIndex[p]]
    <3> SUFFICES ASSUME NEW p \in Players, NEW n \in Matches
                 PROVE  playerIndex'[p] = n <=> n \in sessionMap' /\ p \in PlayersOf[n]
      BY DEF IndexMatchesSessions
    <3>1. playerIndex[p] = n <=> n \in sessionMap /\ p \in PlayersOf[n]
      BY DEF IndexMatchesSessions
    <3>2. NoMatch # n
      BY MatchesAssumption
    <3>3. playerIndex'[p] = IF p \in PlayersOf[m] THEN m ELSE playerIndex[p]
      BY <2>2
    <3>4. p \in PlayersOf[m] => playerIndex[p] = NoMatch
      BY <2>2
    <3> QED BY <2>2, <3>1, <3>2, <3>3, <3>4
  <2> QED BY <1>1, <2>1, <2>2
       DEF CreateMatchSession, CanInsertMatchSession, InsertMatchSession
<1>2. ASSUME NEW t \in Threads, EraseMatchSession(t)
      PROVE  IndexMatchesSessions'
  <2> SUFFICES ASSUME NEW p \in Players, NEW n \in Matches
               PROVE  playerIndex'[p] = n <=> n \in sessionMap' /\ p \in PlayersOf[n]
    BY DEF IndexMatchesSessions
  <2> DEFINE m == arg[t].match
  <2>1. playerIndex[p] = n <=> n \in sessionMap /\ p \in PlayersOf[n]
    BY DEF IndexMatchesSessions
  <2>2. NoMatch # n
    BY MatchesAssumption
  <2>3. /\ sessionMap' = sessionMap \ {m}
        /\ playerIndex'[p] = IF m \in sessionMap /\ p \in PlayersOf[m] /\ playerIndex[p] = m
                             THEN NoMatch ELSE playerIndex[p]
    BY <1>2 DEF EraseMatchSession
  <2> HIDE DEF m
  <2> QED BY <2>1, <2>2, <2>3
<1>3. CASE UNCHANGED <<sessionMap, playerIndex>>
  BY <1>3 DEF IndexMatchesSessions
<1>4. CASE \E t \in Threads : Step(t)
  BY <1>2, <1>3, <1>4, StepFrame
<1>5. CASE Outside
  <2>1. UNCHANGED <<sessionMap, playerIndex>>
    BY <1>5, OutsideStep DEF sessionVars
  <2> QED BY <1>3, <2>1
<1> QED BY <1>1, <1>4, <1>5, NextCases

\* For any number of threads, matches and shared players the player index and
\* the session map agree in every reachable state.
THEOREM IndexCorrect == Spec => []IndexMatchesSessions
<1> QED BY InitType, NextType, IndexInit, IndexNext, PTL DEF Spec

-----------------------------------------------------------------------------
(* Placement only after all acceptances.                                   *)

\* A thread that is about to place a session has seen all its players accept.
PlacersSawAll ==
  \A t \in Threads : pc[t] \in {"Place", "ChangePlacing"} => IsAllAccept(arg[t].match)

AcceptInv == PlacedOnlyIfAllAccepted /\ PlacersSawAll

\* An acceptance is never taken back.
LEMMA AcceptedStays ==
  ASSUME TypeInv, NEW t \in Threads, Step(t), NEW m \in Matches, IsAllAccept(m)
  PROVE  IsAllAccept(m)'
<1>1. CASE AcceptPlayerSession(t)
  BY <1>1, MatchesAssumption DEF AcceptPlayerSession, IsAllAccept, TypeInv, DataOK
<1>2. CASE UNCHANGED response
  BY <1>2 DEF IsAllAccept
<1> QED BY <1>1, <1>2, StepFrame

\* Where the table lets a session be placed and completed from.
LEMMA PlacingTable ==
  \A s \in Statuses : /\ CanChangeStatus(s, "COMPLETED") => s = "PLACING"
                      /\ s \in FinalStatuses => \A n : ~CanChangeStatus(s, n)
BY DEF Statuses, FinalStatuses, CanChangeStatus, NextStatuses

LEMMA AcceptInit == Init => AcceptInv
BY DEF Init, AcceptInv, PlacedOnlyIfAllAccepted, PlacersSawAll

LEMMA AcceptNext == TypeInv /\ AcceptInv /\ [Next]_vars => AcceptInv'
<1> SUFFICES ASSUME TypeInv, AcceptInv, [Next]_vars PROVE AcceptInv'
  OBVIOUS
<1> USE DEF AcceptInv
<1>a. \A t \in Threads : pc[t] \in {"Place", "ChangePlacing", "AllAccepted"} => arg[t].match \in Matches
  BY CallKinds DEF TypeInv, CallsOK
<1>b. status \in [Matches -> Statuses]
  BY DEF TypeInv, DataOK
<1>1. ASSUME NEW t \in Threads, Step(t) PROVE AcceptInv'
  <2>1. PlacedOnlyIfAllAccepted'
    <3> SUFFICES ASSUME NEW m \in Matches, status'[m] \in {"PLACING", "COMPLETED"}
                 PROVE  IsAllAccept(m)'
      BY DEF PlacedOnlyIfAllAccepted
    <3>1. CASE status'[m] = status[m]
      BY <3>1, <1>1, AcceptedStays DEF PlacedOnlyIfAllAccepted
    <3>2. CASE status'[m] # status[m]
      <4>1. /\ m = arg[t].match /\ CanChangeStatus(status[m], status'[m])
            /\ <<pc[t], status'[m], pc'[t]>> \in StatusCalls
        BY <3>2, <1>1, StepStatus
      <4>2. CASE status'[m] = "PLACING"
        <5>1. pc[t] = "ChangePlacing"
          BY <4>1, <4>2 DEF StatusCalls
        <5> QED BY <5>1, <4>1, <1>1, AcceptedStays DEF PlacersSawAll
      <4>3. CASE status'[m] = "COMPLETED"
        <5>1. status[m] = "PLACING"
          BY <4>1, <4>3, <1>b, PlacingTable
        <5> QED BY <5>1, <1>1, AcceptedStays DEF PlacedOnlyIfAllAccepted
      <4> QED BY <4>2, <4>3
    <3> QED BY <3>1, <3>2
  <2>2. PlacersSawAll'
    <3> SUFFICES ASSUME NEW u \in Threads, pc'[u] \in {"Place", "ChangePlacing"}
                 PROVE  IsAllAccept(arg[u].match)'
      BY DEF PlacersSawAll
    <3>1. /\ arg'[u] = arg[u] /\ arg[u].match \in Matches
          /\ IsAllAccept(arg[u].match)
      <4>1. CASE u = t
        BY <4>1, <1>1, <1>a, StepControl DEF PlacersSawAll
      <4>2. CASE u # t
        BY <4>2, <1>1, <1>a, StepControl DEF PlacersSawAll
      <4> QED BY <4>1, <4>2
    <3>2. \A n \in Matches : IsAllAccept(n) => IsAllAccept(n)'
      BY <1>1, AcceptedStays
    <3> QED BY <3>1, <3>2 DEF IsAllAccept
  <2> QED BY <2>1, <2>2
<1>2. ASSUME NEW t \in Creators, NEW m \in Matches, CreateMatchSession(t, m)
      PROVE  AcceptInv'
  <2>1. UNCHANGED response /\ \A n \in Matches : status'[n] = status[n] \/ status'[n] = "SEARCHING"
    BY <1>2, CreateStep
  <2>2. \A u \in Threads : pc'[u] \in {"Place", "ChangePlacing"} => pc[u] = pc'[u] /\ arg'[u] = arg[u]
    BY <1>2, CreateStep
  <2> QED BY <2>1, <2>2 DEF PlacedOnlyIfAllAccepted, PlacersSawAll, IsAllAccept
<1>3. CASE Outside
  <2>1. UNCHANGED <<response, status>>
    BY <1>3, OutsideStep DEF sessionVars
  <2>2. \A u \in Threads : pc'[u] \in {"Place", "ChangePlacing"} => pc[u] = pc'[u] /\ arg'[u] = arg[u]
    BY <1>3, OutsideStep DEF FirstCalls
  <2> QED BY <2>1, <2>2 DEF PlacedOnlyIfAllAccepted, PlacersSawAll, IsAllAccept
<1> QED BY <1>1, <1>2, <1>3, NextCases

\* Whatever the interleaving of the answers, no session is placed or completed
\* before every one of its players accepted.
THEOREM PlacementCorrect == Spec => []PlacedOnlyIfAllAccepted
<1>1. AcceptInv => PlacedOnlyIfAllAccepted
  BY DEF AcceptInv
<1> QED BY <1>1, InitType, NextType, AcceptInit, AcceptNext, PTL DEF Spec

-----------------------------------------------------------------------------
(* Which sessions the handlers work on, and what is left in the map.       *)

LEMMA StepMatch ==
  ASSUME TypeInv, IndexMatchesSessions, NEW t \in Threads, Step(t)
  PROVE  /\ pc'[t] \in MatchCalls =>
              /\ pc'[t] # "InsertFailed"
              /\ \/ pc[t] \in MatchCalls \ {"InsertFailed"} /\ arg'[t] = arg[t]
                 \/ arg'[t].match \in sessionMap
         /\ \A j \in jobs' : \/ j \in jobs
                             \/ /\ pc[t] \in {"ScheduleAccept", "SchedulePlace"}
                                /\ j.match = arg[t].match
<1>a. pc \in [Threads -> Calls] /\ arg \in [Threads -> ArgumentType]
  BY DEF TypeInv, CallsOK
<1> USE DEF Goto, MatchCalls, Calls, sessionVars, outsideVars
<1>1. CASE RequireAcceptance(t) BY <1>1, <1>a DEF RequireAcceptance, ChangeStatus
<1>2. CASE ExpireOwnership(t) BY <1>2, <1>a DEF ExpireOwnership
<1>3. CASE ScheduleAccept(t) BY <1>3, <1>a DEF ScheduleAccept
<1>4. CASE InsertFailed(t) BY <1>4, <1>a DEF InsertFailed
<1>5. CASE StopMatchmaking(t) BY <1>5, <1>a DEF StopMatchmaking
<1>6. CASE AcceptMatchSession(t)
  <2> DEFINE m == FindByPlayerKey(arg[t].player)
  <2>1. arg[t].player \in Players
    BY <1>6 DEF AcceptMatchSession, TypeInv, CallsOK, PlayerCalls
  <2>2. m # NoMatch => m \in sessionMap
    BY DEF FindByPlayerKey
  <2>3. CASE m # NoMatch /\ Enter(t, "AcceptPlayer", [arg[t] EXCEPT !.match = m])
    <3>1. arg'[t].match = m
      BY <2>3, <1>a DEF Enter, ArgumentType
    <3>2. pc'[t] = "AcceptPlayer"
      BY <2>3, <1>a DEF Enter
    <3>3. jobs' = jobs
      BY <1>6 DEF AcceptMatchSession
    <3> QED BY <3>1, <3>2, <3>3, <2>2, <2>3
  <2>4. CASE Goto(t, "Idle")
    BY <1>6, <1>a, <2>4 DEF AcceptMatchSession
  <2> QED BY <1>6, <2>3, <2>4 DEF AcceptMatchSession
<1>7. CASE AcceptPlayerSession(t) BY <1>7, <1>a DEF AcceptPlayerSession
<1>8. CASE AddDodgePenalty(t) BY <1>8, <1>a DEF AddDodgePenalty
<1>9. CASE CheckAllAccepted(t) BY <1>9, <1>a DEF CheckAllAccepted
<1>10. CASE PlaceMatchSession(t) BY <1>10, <1>a DEF PlaceMatchSession
<1>11. CASE ChangePlacing(t) BY <1>11, <1>a DEF ChangePlacing, ChangeStatus
<1>12. CASE SchedulePlace(t) BY <1>12, <1>a DEF SchedulePlace
<1>13. CASE OnTimeOutAcceptMatchSession(t) BY <1>13, <1>a DEF OnTimeOutAcceptMatchSession, OnTimeOut
<1>14. CASE EndAcceptWait(t) BY <1>14, <1>a DEF EndAcceptWait, ChangeStatus
<1>15. CASE OnTimeOutPlaceMatchSession(t) BY <1>15, <1>a DEF OnTimeOutPlaceMatchSession, OnTimeOut
<1>16. CASE EndPlaceWait(t) BY <1>16, <1>a DEF EndPlaceWait, ChangeStatus
<1>17. CASE OnCompleteMatchSession(t) BY <1>17, <1>a DEF OnCompleteMatchSession
<1>18. CASE InsertZone(t) BY <1>18, <1>a DEF InsertZone
<1>19. CASE ChangeCompleted(t) BY <1>19, <1>a DEF ChangeCompleted, ChangeStatus
<1>20. CASE EraseZone(t) BY <1>20, <1>a DEF EraseZone
<1>21. CASE OnFailedMatchSession(t) BY <1>21, <1>a DEF OnFailedMatchSession, ChangeStatus
<1>22. CASE EraseMatchSession(t) BY <1>22, <1>a DEF EraseMatchSession
<1> QED BY <1>1, <1>2, <1>3, <1>4, <1>5, <1>6, <1>7, <1>8, <1>9, <1>10, <1>11, <1>12,
           <1>13, <1>14, <1>15, <1>16, <1>17, <1>18, <1>19, <1>20, <1>21, <1>22 DEF Step

\* A session that is being erased has a final status.
LEMMA StepErase ==
  ASSUME TypeInv, NEW t \in Threads, Step(t), pc'[t] = "Erase"
  PROVE  status'[arg[t].match] \in FinalStatuses
<1>a. /\ pc \in [Threads -> Calls] /\ arg \in [Threads -> ArgumentType]
      /\ status \in [Matches -> Statuses]
  BY DEF TypeInv, CallsOK, DataOK
<1>b. pc[t] \in MatchCalls => arg[t].match \in Matches
  BY DEF TypeInv, CallsOK
<1> USE DEF Goto, MatchCalls, Calls, FinalStatuses
<1>1. CASE RequireAcceptance(t) BY <1>1, <1>a, <1>b DEF RequireAcceptance, ChangeStatus, SetStatus
<1>2. CASE ExpireOwnership(t) BY <1>2, <1>a, <1>b DEF ExpireOwnership
<1>3. CASE ScheduleAccept(t) BY <1>3, <1>a, <1>b DEF ScheduleAccept
<1>4. CASE InsertFailed(t) BY <1>4, <1>a, <1>b DEF InsertFailed
<1>5. CASE StopMatchmaking(t) BY <1>5, <1>a, <1>b DEF StopMatchmaking
<1>6. CASE AcceptMatchSession(t) BY <1>6, <1>a, <1>b DEF AcceptMatchSession, Enter
<1>7. CASE AcceptPlayerSession(t) BY <1>7, <1>a, <1>b DEF AcceptPlayerSession
<1>8. CASE AddDodgePenalty(t) BY <1>8, <1>a, <1>b DEF AddDodgePenalty
<1>9. CASE CheckAllAccepted(t) BY <1>9, <1>a, <1>b DEF CheckAllAccepted
<1>10. CASE PlaceMatchSession(t) BY <1>10, <1>a, <1>b DEF PlaceMatchSession
<1>11. CASE ChangePlacing(t) BY <1>11, <1>a, <1>b DEF ChangePlacing, ChangeStatus, SetStatus
<1>12. CASE SchedulePlace(t) BY <1>12, <1>a, <1>b DEF SchedulePlace
<1>13. CASE OnTimeOutAcceptMatchSession(t) BY <1>13, <1>a, <1>b DEF OnTimeOutAcceptMatchSession, OnTimeOut
<1>14. CASE EndAcceptWait(t) BY <1>14, <1>a, <1>b DEF EndAcceptWait, ChangeStatus, SetStatus
<1>15. CASE OnTimeOutPlaceMatchSession(t) BY <1>15, <1>a, <1>b DEF OnTimeOutPlaceMatchSession, OnTimeOut
<1>16. CASE EndPlaceWait(t) BY <1>16, <1>a, <1>b DEF EndPlaceWait, ChangeStatus, SetStatus
<1>17. CASE OnCompleteMatchSession(t) BY <1>17, <1>a, <1>b DEF OnCompleteMatchSession
<1>18. CASE InsertZone(t) BY <1>18, <1>a, <1>b DEF InsertZone
<1>19. CASE ChangeCompleted(t) BY <1>19, <1>a, <1>b DEF ChangeCompleted, ChangeStatus, SetStatus
<1>20. CASE EraseZone(t) BY <1>20, <1>a, <1>b DEF EraseZone
<1>21. CASE OnFailedMatchSession(t) BY <1>21, <1>a, <1>b DEF OnFailedMatchSession, ChangeStatus, SetStatus
<1>22. CASE EraseMatchSession(t) BY <1>22, <1>a, <1>b DEF EraseMatchSession
<1> QED BY <1>1, <1>2, <1>3, <1>4, <1>5, <1>6, <1>7, <1>8, <1>9, <1>10, <1>11, <1>12,
           <1>13, <1>14, <1>15, <1>16, <1>17, <1>18, <1>19, <1>20, <1>21, <1>22 DEF Step

\* A match whose session is or was in the map.
Registered(m) == m \in sessionMap \/ status[m] \in FinalStatuses

RegisteredInv ==
  /\ \A t \in Threads : pc[t] \in MatchCalls \ {"InsertFailed"} => Registered(arg[t].match)
  /\ \A j \in jobs : Registered(j.match)
  /\ \A t \in Threads : pc[t] = "Erase" => status[arg[t].match] \in FinalStatuses
  /\ \A m \in sessionMap : status[m] # "None"
  /\ \A t \in Threads : pc[t] = "InsertFailed" =>
       status[arg[t].match] = "SEARCHING" /\ arg[t].match \notin sessionMap

SessionInv == IndexMatchesSessions /\ RegisteredInv /\ NoLeakedSession /\ TicketsFollowSession

LEMMA SessionInit == Init => SessionInv
BY IndexInit DEF Init, SessionInv, RegisteredInv, NoLeakedSession, TicketsFollowSession,
   MatchCalls, Calls

\* What every step of a handler keeps true.
LEMMA SessionStep ==
  ASSUME TypeInv, SessionInv, NEW t \in Threads, Step(t)
  PROVE  RegisteredInv' /\ NoLeakedSession' /\ TicketsFollowSession'
<1>a. /\ status \in [Matches -> Statuses] /\ sessionMap \subseteq Matches
      /\ \A u \in Threads : pc[u] \in MatchCalls => arg[u].match \in Matches
      /\ \A j \in jobs : j.match \in Matches
      /\ pc[t] \in Calls
  BY DEF TypeInv, CallsOK, DataOK, Jobs
<1>b. \A m \in Matches : status[m] \in FinalStatuses => status'[m] = status[m]
  BY <1>a, StepStatus, PlacingTable
<1>c. \/ UNCHANGED sessionMap
      \/ pc[t] = "Erase" /\ sessionMap' = sessionMap \ {arg[t].match}
  BY StepFrame DEF EraseMatchSession
<1>d. pc[t] = "Erase" => status[arg[t].match] \in FinalStatuses
  BY DEF SessionInv, RegisteredInv
<1>e. \A m \in Matches : Registered(m) => Registered(m)'
  BY <1>b, <1>c, <1>d DEF Registered
<1>f. \A u \in Threads \ {t} : pc'[u] = pc[u] /\ arg'[u] = arg[u]
  BY StepControl
<1>g. \A m \in sessionMap : Registered(m)
  BY DEF Registered
<1>h. \A m \in Matches : status'[m] # status[m] =>
         /\ m = arg[t].match /\ pc[t] \in MatchCalls \ {"InsertFailed"} /\ Registered(m)
         /\ status'[m] \in FinalStatuses => pc'[t] = "Erase"
         /\ status'[m] # "None"
         /\ ticket'[m] = status'[m]
  <2> SUFFICES ASSUME NEW m \in Matches, status'[m] # status[m]
               PROVE  /\ m = arg[t].match /\ pc[t] \in MatchCalls \ {"InsertFailed"} /\ Registered(m)
                      /\ status'[m] \in FinalStatuses => pc'[t] = "Erase"
                      /\ status'[m] # "None"
                      /\ ticket'[m] = status'[m]
    OBVIOUS
  <2>1. /\ m = arg[t].match /\ ticket'[m] = status'[m]
        /\ <<pc[t], status'[m], pc'[t]>> \in StatusCalls
    BY StepStatus
  <2>2. /\ pc[t] \in MatchCalls \ {"InsertFailed"}
        /\ status'[m] \in FinalStatuses => pc'[t] = "Erase"
        /\ status'[m] # "None"
    BY <2>1 DEF StatusCalls, MatchCalls, Calls, FinalStatuses
  <2> QED BY <2>1, <2>2 DEF SessionInv, RegisteredInv
<1>1. RegisteredInv'
  <2>1. ASSUME NEW u \in Threads, pc'[u] \in MatchCalls \ {"InsertFailed"}
        PROVE  Registered(arg[u].match)'
    <3>1. \/ pc[u] \in MatchCalls \ {"InsertFailed"} /\ arg'[u] = arg[u]
          \/ arg'[u].match \in sessionMap
      BY <2>1, <1>f, StepMatch DEF SessionInv
    <3>2. arg'[u].match \in Matches /\ Registered(arg'[u].match)
      BY <3>1, <1>a, <1>g DEF SessionInv, RegisteredInv
    <3> QED BY <3>2, <1>e DEF Registered
  <2>2. ASSUME NEW j \in jobs' PROVE Registered(j.match)'
    <3>1. j.match \in Matches /\ Registered(j.match)
      BY <2>2, <1>a, StepMatch DEF SessionInv, RegisteredInv, MatchCalls, Calls
    <3> QED BY <3>1, <1>e DEF Registered
  <2>3. ASSUME NEW u \in Threads, pc'[u] = "Erase"
        PROVE  status'[arg'[u].match] \in FinalStatuses
    <3>1. CASE u = t
      BY <2>3, <3>1, StepErase, StepControl
    <3>2. CASE u # t
      <4>1. pc[u] = "Erase" /\ arg'[u] = arg[u]
        BY <2>3, <3>2, <1>f
      <4> QED BY <4>1, <1>a, <1>b DEF SessionInv, RegisteredInv, MatchCalls, Calls
    <3> QED BY <3>1, <3>2
  <2>4. ASSUME NEW m \in sessionMap' PROVE status'[m] # "None"
    BY <1>a, <1>c, <1>h DEF SessionInv, RegisteredInv
  <2>5. ASSUME NEW u \in Threads, pc'[u] = "InsertFailed"
        PROVE  status'[arg'[u].match] = "SEARCHING" /\ arg'[u].match \notin sessionMap'
    <3>1. u # t
      BY <2>5, StepMatch DEF SessionInv, MatchCalls, Calls
    <3>2. pc[u] = "InsertFailed" /\ arg'[u] = arg[u]
      BY <2>5, <3>1, <1>f
    <3>3. /\ status[arg[u].match] = "SEARCHING" /\ arg[u].match \notin sessionMap
          /\ arg[u].match \in Matches
      BY <3>2, <1>a DEF SessionInv, RegisteredInv, MatchCalls, Calls
    <3>4. ~Registered(arg[u].match)
      BY <3>3 DEF Registered, FinalStatuses
    <3> QED BY <3>2, <3>3, <3>4, <1>c, <1>h
  <2> QED BY <2>1, <2>2, <2>3, <2>4, <2>5 DEF RegisteredInv
<1>2. NoLeakedSession'
  <2> SUFFICES ASSUME NEW m \in sessionMap', status'[m] \in FinalStatuses
               PROVE  \E u \in Threads : pc'[u] = "Erase" /\ arg'[u].match = m
    BY DEF NoLeakedSession
  <2>1. m \in sessionMap /\ m \in Matches
    BY <1>a, <1>c
  <2>2. CASE status'[m] # status[m]
    <3>1. pc'[t] = "Erase" /\ m = arg[t].match
      BY <2>1, <2>2, <1>h
    <3> QED BY <3>1, StepControl
  <2>3. CASE status'[m] = status[m]
    <3>1. PICK u \in Threads : pc[u] = "Erase" /\ arg[u].match = m
      BY <2>1, <2>3 DEF SessionInv, NoLeakedSession
    <3>2. u # t
      BY <3>1, StepFrame, StepControl, <2>1 DEF EraseMatchSession, Step,
         RequireAcceptance, ExpireOwnership, ScheduleAccept, InsertFailed, StopMatchmaking,
         AcceptMatchSession, AcceptPlayerSession, AddDodgePenalty, CheckAllAccepted,
         PlaceMatchSession, ChangePlacing, SchedulePlace, OnTimeOutAcceptMatchSession,
         EndAcceptWait, OnTimeOutPlaceMatchSession, EndPlaceWait, OnTimeOut,
         OnCompleteMatchSession, InsertZone, ChangeCompleted, EraseZone, OnFailedMatchSession
    <3> QED BY <3>1, <3>2, <1>f
  <2> QED BY <2>2, <2>3
<1>3. TicketsFollowSession'
  <2> SUFFICES ASSUME NEW m \in Matches
               PROVE  \/ status'[m] = "None" /\ ticket'[m] = "SEARCHING"
                      \/ status'[m] # "None" /\ status'[m] = ticket'[m]
                      \/ status'[m] = "SEARCHING" /\ ticket'[m] = "FAILED" /\ m \notin sessionMap'
    BY DEF TicketsFollowSession
  <2>1. CASE status'[m] # status[m]
    BY <2>1, <1>h
  <2>2. CASE status'[m] = status[m] /\ ticket'[m] = ticket[m]
    BY <2>2, <1>c DEF SessionInv, TicketsFollowSession
  <2>3. CASE status'[m] = status[m] /\ ticket'[m] # ticket[m]
    <3>1. InsertFailed(t)
      BY <2>3, StepStatus
    <3>2. m = arg[t].match /\ ticket'[m] = "FAILED" /\ pc[t] = "InsertFailed"
      BY <2>3, <3>1 DEF InsertFailed, TypeInv, DataOK
    <3> QED BY <2>3, <3>2, <1>c DEF SessionInv, RegisteredInv
  <2> QED BY <2>1, <2>2, <2>3
<1> QED BY <1>1, <1>2, <1>3

\* A registered match was created, so a match that is created is not registered.
LEMMA SessionCreate ==
  ASSUME TypeInv, SessionInv, NEW t \in Creators, NEW m \in Matches, CreateMatchSession(t, m)
  PROVE  RegisteredInv' /\ NoLeakedSession' /\ TicketsFollowSession'
<1>a. /\ sessionMap \subseteq Matches
      /\ \A u \in Threads : pc[u] \in MatchCalls => arg[u].match \in Matches
      /\ \A j \in jobs : j.match \in Matches
      /\ pc \in [Threads -> Calls] /\ arg \in [Threads -> ArgumentType]
      /\ t \in Threads
  BY DEF TypeInv, CallsOK, DataOK, Jobs, Threads
<1>b. /\ jobs' = jobs /\ ticket' = ticket
      /\ status[m] = "None" /\ status'[m] = "SEARCHING"
      /\ \A n \in Matches \ {m} : status'[n] = status[n]
      /\ pc[t] = "Idle"
      /\ \A u \in Threads \ {t} : pc'[u] = pc[u] /\ arg'[u] = arg[u]
  BY CreateStep
<1>c. m \notin sessionMap
  BY <1>b DEF SessionInv, RegisteredInv
<1>d. arg'[t].match = m
  BY <1>a DEF CreateMatchSession, Enter, NoArg, ArgumentType
<1>e. \/ pc'[t] = "Require" /\ sessionMap' = sessionMap \cup {m}
      \/ pc'[t] = "InsertFailed" /\ sessionMap' = sessionMap
  BY <1>a DEF CreateMatchSession, InsertMatchSession, Enter
<1>f. \A n \in Matches : Registered(n) => n # m /\ Registered(n)'
  BY <1>b, <1>c, <1>e DEF Registered, FinalStatuses
<1>1. RegisteredInv'
  <2>1. ASSUME NEW u \in Threads, pc'[u] \in MatchCalls \ {"InsertFailed"}
        PROVE  Registered(arg[u].match)'
    <3>1. CASE u = t
      BY <2>1, <3>1, <1>d, <1>e DEF Registered
    <3>2. CASE u # t
      BY <2>1, <3>2, <1>a, <1>b, <1>f DEF SessionInv, RegisteredInv, Registered
    <3> QED BY <3>1, <3>2
  <2>2. ASSUME NEW j \in jobs' PROVE Registered(j.match)'
    BY <2>2, <1>a, <1>b, <1>f DEF SessionInv, RegisteredInv, Registered
  <2>3. ASSUME NEW u \in Threads, pc'[u] = "Erase"
        PROVE  status'[arg'[u].match] \in FinalStatuses
    <3>1. u # t
      BY <2>3, <1>e
    <3>2. pc[u] = "Erase" /\ arg'[u] = arg[u]
      BY <2>3, <3>1, <1>b
    <3>3. arg[u].match \in Matches /\ status[arg[u].match] \in FinalStatuses
      BY <3>2, <1>a DEF SessionInv, RegisteredInv, MatchCalls, Calls
    <3>4. arg[u].match # m
      BY <3>3, <1>b DEF FinalStatuses
    <3> QED BY <3>2, <3>3, <3>4, <1>b
  <2>4. ASSUME NEW n \in sessionMap' PROVE status'[n] # "None"
    BY <1>a, <1>b, <1>e DEF SessionInv, RegisteredInv
  <2>5. ASSUME NEW u \in Threads, pc'[u] = "InsertFailed"
        PROVE  status'[arg'[u].match] = "SEARCHING" /\ arg'[u].match \notin sessionMap'
    <3>1. CASE u = t
      BY <2>5, <3>1, <1>b, <1>c, <1>d, <1>e
    <3>2. CASE u # t
      <4>1. pc[u] = "InsertFailed" /\ arg'[u] = arg[u]
        BY <2>5, <3>2, <1>b
      <4>2. /\ status[arg[u].match] = "SEARCHING" /\ arg[u].match \notin sessionMap
            /\ arg[u].match \in Matches
        BY <4>1, <1>a DEF SessionInv, RegisteredInv, MatchCalls, Calls
      <4>3. arg[u].match # m
        BY <4>2, <1>b
      <4> QED BY <4>1, <4>2, <4>3, <1>b, <1>e
    <3> QED BY <3>1, <3>2
  <2> QED BY <2>1, <2>2, <2>3, <2>4, <2>5 DEF RegisteredInv
<1>2. NoLeakedSession'
  <2> SUFFICES ASSUME NEW n \in sessionMap', status'[n] \in FinalStatuses
               PROVE  \E u \in Threads : pc'[u] = "Erase" /\ arg'[u].match = n
    BY DEF NoLeakedSession
  <2>1. n # m /\ n \in sessionMap /\ status[n] \in FinalStatuses
    BY <1>a, <1>b, <1>e DEF FinalStatuses
  <2>2. PICK u \in Threads : pc[u] = "Erase" /\ arg[u].match = n
    BY <2>1 DEF SessionInv, NoLeakedSession
  <2>3. u # t
    BY <2>2, <1>b
  <2> QED BY <2>2, <2>3, <1>b
<1>3. TicketsFollowSession'
  <2> SUFFICES ASSUME NEW n \in Matches
               PROVE  \/ status'[n] = "None" /\ ticket'[n] = "SEARCHING"
                      \/ status'[n] # "None" /\ status'[n] = ticket'[n]
                      \/ status'[n] = "SEARCHING" /\ ticket'[n] = "FAILED" /\ n \notin sessionMap'
    BY DEF TicketsFollowSession
  <2>1. CASE n = m
    BY <2>1, <1>b, <1>c DEF SessionInv, TicketsFollowSession
  <2>2. CASE n # m
    BY <2>2, <1>b, <1>e DEF SessionInv, TicketsFollowSession
  <2> QED BY <2>1, <2>2
<1> QED BY <1>1, <1>2, <1>3

\* Starting a handler and dropping a zone touch no session.
LEMMA SessionOutside ==
  ASSUME TypeInv, SessionInv, Outside
  PROVE  RegisteredInv' /\ NoLeakedSession' /\ TicketsFollowSession'
<1>a. /\ sessionMap' = sessionMap /\ status' = status /\ ticket' = ticket
      /\ jobs' \subseteq jobs
      /\ \A u \in Threads :
           \/ pc'[u] = pc[u] /\ arg'[u] = arg[u]
           \/ /\ pc[u] = "Idle" /\ pc'[u] \in FirstCalls
              /\ pc'[u] \in MatchCalls => \E j \in jobs : arg'[u].match = j.match
  BY OutsideStep DEF sessionVars
<1>b. "Erase" \notin FirstCalls /\ "InsertFailed" \notin FirstCalls
  BY DEF FirstCalls
<1>c. \A n : Registered(n)' <=> Registered(n)
  BY <1>a DEF Registered
<1>1. RegisteredInv'
  BY <1>a, <1>b, <1>c DEF SessionInv, RegisteredInv, MatchCalls, Calls, Registered
<1>2. NoLeakedSession'
  <2> SUFFICES ASSUME NEW n \in sessionMap, status[n] \in FinalStatuses
               PROVE  \E u \in Threads : pc'[u] = "Erase" /\ arg'[u].match = n
    BY <1>a DEF NoLeakedSession
  <2>1. PICK u \in Threads : pc[u] = "Erase" /\ arg[u].match = n
    BY DEF SessionInv, NoLeakedSession
  <2> QED BY <2>1, <1>a
<1>3. TicketsFollowSession'
  BY <1>a DEF SessionInv, TicketsFollowSession
<1> QED BY <1>1, <1>2, <1>3

LEMMA SessionNext == TypeInv /\ SessionInv /\ [Next]_vars => SessionInv'
<1> SUFFICES ASSUME TypeInv, SessionInv, [Next]_vars PROVE SessionInv'
  OBVIOUS
<1>1. IndexMatchesSessions'
  BY IndexNext DEF SessionInv
<1>2. RegisteredInv' /\ NoLeakedSession' /\ TicketsFollowSession'
  BY NextCases, SessionCreate, SessionStep, SessionOutside
<1> QED BY <1>1, <1>2 DEF SessionInv

\* No session with a final status is left behind in the session map: the
\* handler that ended it is on its way to EraseMatchSession.
THEOREM NoLeak == Spec => []NoLeakedSession
<1>1. SessionInv => NoLeakedSession
  BY DEF SessionInv
<1> QED BY <1>1, InitType, NextType, SessionInit, SessionNext, PTL DEF Spec

\* The tickets have the status of their session, and the tickets of a session
\* that could not be registered are failed.
THEOREM TicketsCorrect == Spec => []TicketsFollowSession
<1>1. SessionInv => TicketsFollowSession
  BY DEF SessionInv
<1> QED BY <1>1, InitType, NextType, SessionInit, SessionNext, PTL DEF Spec

-----------------------------------------------------------------------------
(* The zone of a match, which its one completion registers and may take    *)
(* back, and the dodge penalties.                                          *)


CompletionCalls == {"OnComplete", "InsertZone", "ChangeCompleted", "EraseZone"}

\* The three stages of the completion of a match: a thread is about to schedule
\* it, it is scheduled, it runs.
IsPlacing(t, m) == pc[t] = "SchedulePlace" /\ arg[t].match = m
IsScheduled(m) == \E j \in jobs : j.kind = "complete" /\ j.match = m
IsCompleting(m) == pc[Async] \in CompletionCalls /\ arg[Async].match = m

\* What one step of a handler does to these stages and to the penalties.
LEMMA StepOutside ==
  ASSUME TypeInv, NEW t \in Threads, Step(t)
  PROVE  /\ pc'[t] = "SchedulePlace" =>
              /\ pc[t] = "ChangePlacing" /\ CanChange(arg[t].match, "PLACING")
              /\ status' = [status EXCEPT ![arg[t].match] = "PLACING"]
         /\ \A j \in jobs' : j.kind = "complete" =>
              \/ j \in jobs
              \/ pc[t] = "SchedulePlace" /\ j.match = arg[t].match /\ j.player = NoPlayer
         /\ AddDodgePenalty(t) \/ UNCHANGED penalized
         /\ pc'[t] = "AddPenalty" => AcceptPlayerSession(t)
         /\ pc[t] = "SchedulePlace" => pc'[t] = "Idle"
         /\ pc[t] = "InsertZone" => InsertZone(t)
         /\ pc[t] = "ChangeCompleted" => ChangeCompleted(t)
         /\ pc[t] = "EraseZone" => EraseZone(t)
<1>a. pc \in [Threads -> Calls] /\ arg \in [Threads -> ArgumentType]
  BY DEF TypeInv, CallsOK
<1> USE DEF Goto, Enter, sessionVars, outsideVars
<1>1. CASE RequireAcceptance(t) BY <1>1, <1>a DEF RequireAcceptance, ChangeStatus
<1>2. CASE ExpireOwnership(t) BY <1>2, <1>a DEF ExpireOwnership
<1>3. CASE ScheduleAccept(t) BY <1>3, <1>a DEF ScheduleAccept
<1>4. CASE InsertFailed(t) BY <1>4, <1>a DEF InsertFailed
<1>5. CASE StopMatchmaking(t) BY <1>5, <1>a DEF StopMatchmaking
<1>6. CASE AcceptMatchSession(t) BY <1>6, <1>a DEF AcceptMatchSession
<1>7. CASE AcceptPlayerSession(t) BY <1>7, <1>a DEF AcceptPlayerSession
<1>8. CASE AddDodgePenalty(t) BY <1>8, <1>a DEF AddDodgePenalty
<1>9. CASE CheckAllAccepted(t) BY <1>9, <1>a DEF CheckAllAccepted
<1>10. CASE PlaceMatchSession(t) BY <1>10, <1>a DEF PlaceMatchSession
<1>11. CASE ChangePlacing(t) BY <1>11, <1>a DEF ChangePlacing, ChangeStatus, SetStatus
<1>12. CASE SchedulePlace(t) BY <1>12, <1>a DEF SchedulePlace
<1>13. CASE OnTimeOutAcceptMatchSession(t) BY <1>13, <1>a DEF OnTimeOutAcceptMatchSession, OnTimeOut
<1>14. CASE EndAcceptWait(t) BY <1>14, <1>a DEF EndAcceptWait, ChangeStatus
<1>15. CASE OnTimeOutPlaceMatchSession(t) BY <1>15, <1>a DEF OnTimeOutPlaceMatchSession, OnTimeOut
<1>16. CASE EndPlaceWait(t) BY <1>16, <1>a DEF EndPlaceWait, ChangeStatus
<1>17. CASE OnCompleteMatchSession(t) BY <1>17, <1>a DEF OnCompleteMatchSession
<1>18. CASE InsertZone(t) BY <1>18, <1>a DEF InsertZone
<1>19. CASE ChangeCompleted(t) BY <1>19, <1>a DEF ChangeCompleted, ChangeStatus
<1>20. CASE EraseZone(t) BY <1>20, <1>a DEF EraseZone
<1>21. CASE OnFailedMatchSession(t) BY <1>21, <1>a DEF OnFailedMatchSession, ChangeStatus
<1>22. CASE EraseMatchSession(t) BY <1>22, <1>a DEF EraseMatchSession
<1> QED BY <1>1, <1>2, <1>3, <1>4, <1>5, <1>6, <1>7, <1>8, <1>9, <1>10, <1>11, <1>12,
           <1>13, <1>14, <1>15, <1>16, <1>17, <1>18, <1>19, <1>20, <1>21, <1>22 DEF Step

-----------------------------------------------------------------------------
(* The completion of a match.                                              *)

\* A match is completed by the asynchronous thread, in one run of one job, which
\* the one thread that changed the status to PLACING schedules.
CompletionInv ==
  /\ \A t \in Threads : pc[t] \in CompletionCalls => t = Async
  /\ \A j \in jobs : j.kind = "complete" => j.player = NoPlayer
  /\ \A m \in Matches :
       IsScheduled(m) \/ IsCompleting(m) \/ (\E t \in Threads : IsPlacing(t, m)) =>
         status[m] \in {"PLACING", "FAILED", "TIMED_OUT"}
  /\ \A m \in Matches : ~(IsScheduled(m) /\ IsCompleting(m))
  /\ \A m \in Matches, t \in Threads : IsPlacing(t, m) =>
       /\ ~IsScheduled(m) /\ ~IsCompleting(m)
       /\ \A u \in Threads : IsPlacing(u, m) => u = t

LEMMA CompletionInit == Init => CompletionInv
BY DEF Init, CompletionInv, CompletionCalls, IsPlacing, IsScheduled, IsCompleting, Threads

\* Where the table leads from the statuses a completion finds.
LEMMA CompletionTable ==
  \A s, n \in Statuses : CanChangeStatus(s, n) =>
    /\ s \in {"PLACING", "FAILED", "TIMED_OUT"} => n \in {"COMPLETED", "FAILED", "TIMED_OUT"}
    /\ n = "PLACING" => s \notin {"PLACING", "FAILED", "TIMED_OUT"}
BY DEF Statuses, CanChangeStatus, NextStatuses

LEMMA CompletionStep ==
  ASSUME TypeInv, CompletionInv, NEW t \in Threads, Step(t)
  PROVE  CompletionInv'
<1>a. /\ pc \in [Threads -> Calls] /\ status \in [Matches -> Statuses]
      /\ status' \in [Matches -> Statuses] /\ Async \in Threads
      /\ \A u \in Threads : pc[u] \in CompletionCalls \cup {"SchedulePlace", "ChangePlacing"} =>
           arg[u].match \in Matches
  BY StepType DEF TypeInv, CallsOK, DataOK, Threads, CompletionCalls, MatchCalls, Calls
<1>b. \A u \in Threads \ {t} : pc'[u] = pc[u] /\ arg'[u] = arg[u]
  BY StepControl
<1>c. pc'[t] \in CompletionCalls => pc[t] \in CompletionCalls /\ arg'[t] = arg[t]
  BY StepControl DEF CompletionCalls
<1>d. pc'[t] = "SchedulePlace" => pc[t] = "ChangePlacing" /\ arg'[t] = arg[t]
  BY StepControl, StepOutside
<1>1. (\A u \in Threads : pc[u] \in CompletionCalls => u = Async)'
  BY <1>b, <1>c DEF CompletionInv
<1>2. (\A j \in jobs : j.kind = "complete" => j.player = NoPlayer)'
  BY StepOutside DEF CompletionInv
<1> SUFFICES ASSUME NEW m \in Matches
             PROVE  /\ (\/ IsScheduled(m)' \/ IsCompleting(m)'
                        \/ \E u \in Threads : IsPlacing(u, m)') =>
                         status'[m] \in {"PLACING", "FAILED", "TIMED_OUT"}
                    /\ ~(IsScheduled(m)' /\ IsCompleting(m)')
                    /\ \A u \in Threads : IsPlacing(u, m)' =>
                         /\ ~IsScheduled(m)' /\ ~IsCompleting(m)'
                         /\ \A v \in Threads : IsPlacing(v, m)' => v = u
  BY <1>1, <1>2 DEF CompletionInv
<1>3. IsCompleting(m)' => IsCompleting(m)
  BY <1>a, <1>b, <1>c DEF IsCompleting
<1>4. IsScheduled(m)' => IsScheduled(m) \/ IsPlacing(t, m)
  BY StepOutside DEF IsScheduled, IsPlacing
<1>5. \A u \in Threads \ {t} : IsPlacing(u, m)' => IsPlacing(u, m)
  BY <1>b DEF IsPlacing
<1>6. CASE IsPlacing(t, m)'
  <2>1. /\ pc[t] = "ChangePlacing" /\ arg[t].match = m
        /\ CanChangeStatus(status[m], "PLACING") /\ status'[m] = "PLACING"
    BY <1>6, <1>a, <1>d, StepOutside DEF IsPlacing, CanChange
  <2>2. status[m] \notin {"PLACING", "FAILED", "TIMED_OUT"}
    BY <1>a, <2>1, CompletionTable DEF Statuses
  <2>3. ~IsScheduled(m) /\ ~IsCompleting(m) /\ \A u \in Threads : ~IsPlacing(u, m)
    BY <2>2 DEF CompletionInv
  <2> QED BY <1>3, <1>4, <1>5, <2>1, <2>3
<1>7. CASE ~IsPlacing(t, m)'
  <2>1. ASSUME \/ IsScheduled(m)' \/ IsCompleting(m)'
               \/ \E u \in Threads : IsPlacing(u, m)'
        PROVE  status'[m] \in {"PLACING", "FAILED", "TIMED_OUT"}
    <3>1. /\ IsScheduled(m) \/ IsCompleting(m) \/ \E u \in Threads : IsPlacing(u, m)
          /\ status[m] \in {"PLACING", "FAILED", "TIMED_OUT"}
      BY <1>3, <1>4, <1>5, <1>7, <2>1 DEF CompletionInv
    <3>2. status'[m] # status[m] => status'[m] \in {"COMPLETED", "FAILED", "TIMED_OUT"}
      BY <1>a, <3>1, StepStatus, CompletionTable
    <3>3. ASSUME status'[m] = "COMPLETED"
          PROVE  FALSE
      <4>1. m = arg[t].match /\ pc[t] = "ChangeCompleted" /\ pc'[t] = "Erase"
        BY <3>1, <3>3, StepStatus DEF StatusCalls
      <4>2. IsCompleting(m) /\ t = Async
        BY <4>1 DEF CompletionInv, IsCompleting, CompletionCalls
      <4>3. ~IsScheduled(m) /\ \A u \in Threads : ~IsPlacing(u, m)
        BY <4>2 DEF CompletionInv
      <4>4. ~IsCompleting(m)'
        BY <4>1, <4>2 DEF IsCompleting, CompletionCalls
      <4> QED BY <1>4, <1>5, <1>7, <2>1, <4>3, <4>4
    <3> QED BY <3>1, <3>2, <3>3
  <2>2. ~(IsScheduled(m)' /\ IsCompleting(m)')
    BY <1>3, <1>4 DEF CompletionInv
  <2>3. ASSUME NEW u \in Threads, IsPlacing(u, m)'
        PROVE  /\ ~IsScheduled(m)' /\ ~IsCompleting(m)'
               /\ \A v \in Threads : IsPlacing(v, m)' => v = u
    <3>1. u # t /\ IsPlacing(u, m)
      BY <1>5, <1>7, <2>3
    <3>2. /\ ~IsScheduled(m) /\ ~IsCompleting(m)
          /\ \A v \in Threads : IsPlacing(v, m) => v = u
      BY <3>1 DEF CompletionInv
    <3> QED BY <1>3, <1>4, <1>5, <1>7, <3>1, <3>2
  <2> QED BY <2>1, <2>2, <2>3
<1> QED BY <1>6, <1>7

LEMMA CompletionNext == TypeInv /\ CompletionInv /\ [Next]_vars => CompletionInv'
<1> SUFFICES ASSUME TypeInv, CompletionInv, [Next]_vars PROVE CompletionInv'
  OBVIOUS
<1>a. /\ pc \in [Threads -> Calls] /\ arg \in [Threads -> ArgumentType] /\ Async \in Threads
      /\ jobs \subseteq Jobs
  BY DEF TypeInv, CallsOK, DataOK, Threads
<1>1. ASSUME NEW t \in Threads, Step(t) PROVE CompletionInv'
  BY <1>1, CompletionStep
<1>2. ASSUME NEW t \in Creators, NEW m \in Matches, CreateMatchSession(t, m)
      PROVE  CompletionInv'
  <2>1. /\ jobs' = jobs /\ status[m] = "None"
        /\ \A n \in Matches \ {m} : status'[n] = status[n]
    BY <1>2, CreateStep
  <2>2. \A u \in Threads : pc'[u] \in CompletionCalls \cup {"SchedulePlace"} =>
          pc'[u] = pc[u] /\ arg'[u] = arg[u]
    BY <1>2, CreateStep DEF CompletionCalls
  <2>3. /\ \A n \in Matches : IsScheduled(n)' => IsScheduled(n)
        /\ \A n \in Matches : IsCompleting(n)' => IsCompleting(n)
        /\ \A n \in Matches, u \in Threads : IsPlacing(u, n)' => IsPlacing(u, n)
    BY <1>a, <2>1, <2>2 DEF IsScheduled, IsCompleting, IsPlacing
  <2> QED BY <2>1, <2>2, <2>3 DEF CompletionInv
<1>3. ASSUME NEW j \in jobs, RunJob(j), j.kind = "complete"
      PROVE  CompletionInv'
  <2>1. /\ jobs' = jobs \ {j} /\ pc[Async] = "Idle" /\ UNCHANGED status
        /\ pc'[Async] = "OnComplete" /\ arg'[Async].match = j.match
        /\ \A u \in Threads \ {Async} : pc'[u] = pc[u] /\ arg'[u] = arg[u]
    BY <1>3, <1>a DEF RunJob, Enter, HandlerOf, NoArg, sessionVars
  <2>2. j.match \in Matches /\ IsScheduled(j.match)
    BY <1>3, <1>a DEF Jobs, IsScheduled
  <2>3. \A k \in jobs' : k.kind = "complete" => k.match # j.match
    BY <1>3, <1>a, <2>1 DEF CompletionInv, Jobs
  <2>4. /\ \A n \in Matches : IsScheduled(n)' => IsScheduled(n) /\ n # j.match
        /\ \A n \in Matches : IsCompleting(n)' => n = j.match
        /\ \A n \in Matches, u \in Threads : IsPlacing(u, n)' => IsPlacing(u, n)
    BY <2>1, <2>3 DEF IsScheduled, IsCompleting, IsPlacing
  <2>5. (\A u \in Threads : pc[u] \in CompletionCalls => u = Async)'
    BY <2>1 DEF CompletionInv
  <2> QED BY <2>1, <2>2, <2>4, <2>5 DEF CompletionInv
<1>4. CASE Outside /\ ~\E j \in jobs : RunJob(j) /\ j.kind = "complete"
  <2>1. UNCHANGED status /\ jobs' \subseteq jobs
    BY <1>4, OutsideStep DEF sessionVars
  <2>2. pc'[Async] = "OnComplete" => pc[Async] = "OnComplete"
    <3>1. ASSUME NEW j \in jobs, RunJob(j)
          PROVE  pc'[Async] # "OnComplete"
      <4>1. j.kind \in {"demoAccept", "acceptTimeout", "placeTimeout"}
        BY <1>4, <1>a, <3>1 DEF Jobs, JobKinds
      <4>2. HandlerOf[j.kind] # "OnComplete"
        BY <4>1 DEF HandlerOf
      <4>3. pc' = [pc EXCEPT ![Async] = HandlerOf[j.kind]]
        BY <3>1 DEF RunJob, Enter
      <4> QED BY <1>a, <4>2, <4>3
    <3>2. ASSUME NEW t \in Clients, NEW p \in Players, NEW accept \in BOOLEAN,
                 CallAccept(t, p, accept) \/ CallStop(t, p, accept)
          PROVE  pc'[Async] = pc[Async]
      BY <3>2, <1>a, ThreadsAssumption DEF CallAccept, CallStop, Enter
    <3>3. ASSUME NEW m \in Matches, CloseZone(m)
          PROVE  pc'[Async] = pc[Async]
      BY <3>3 DEF CloseZone
    <3>4. CASE UNCHANGED vars
      BY <3>4 DEF vars
    <3> QED BY <1>4, <3>1, <3>2, <3>3, <3>4 DEF Outside
  <2>3. \A u \in Threads : pc'[u] = "OnComplete" => u = Async
    BY <1>4, <1>a, OutsideStep DEF FirstCalls, MatchCalls, Calls, CompletionInv, CompletionCalls
  <2>4. \A u \in Threads : pc'[u] \in CompletionCalls \cup {"SchedulePlace"} =>
          pc'[u] = pc[u] /\ arg'[u] = arg[u]
    BY <1>4, <2>2, <2>3, OutsideStep DEF FirstCalls, CompletionCalls
  <2>5. /\ \A n \in Matches : IsScheduled(n)' => IsScheduled(n)
        /\ \A n \in Matches : IsCompleting(n)' => IsCompleting(n)
        /\ \A n \in Matches, u \in Threads : IsPlacing(u, n)' => IsPlacing(u, n)
    BY <1>a, <2>1, <2>4 DEF IsScheduled, IsCompleting, IsPlacing
  <2> QED BY <2>1, <2>4, <2>5 DEF CompletionInv
<1> QED BY <1>1, <1>2, <1>3, <1>4, NextCases DEF Outside

-----------------------------------------------------------------------------
(* The zone of a match.                                                    *)

ZoneInv ==
  /\ ZoneOnlyOfCompleted
  /\ CompletedHasZone
  /\ pc[Async] = "ChangeCompleted" => zone[arg[Async].match] # "absent"

LEMMA ZoneInit == Init => ZoneInv
BY DEF Init, ZoneInv, ZoneOnlyOfCompleted, CompletedHasZone, Threads

LEMMA ZoneStep ==
  ASSUME TypeInv, CompletionInv, ZoneInv, NEW t \in Threads, Step(t)
  PROVE  ZoneInv'
<1>a. /\ pc \in [Threads -> Calls] /\ arg \in [Threads -> ArgumentType] /\ Async \in Threads
      /\ zone \in [Matches -> {"absent", "open", "closed"}]
      /\ status \in [Matches -> Statuses]
      /\ \A u \in Threads : pc[u] \in CompletionCalls => arg[u].match \in Matches
  BY DEF TypeInv, CallsOK, DataOK, Threads, CompletionCalls, MatchCalls, Calls
<1>b. \A u \in Threads \ {t} : pc'[u] = pc[u] /\ arg'[u] = arg[u]
  BY StepControl
<1>1. CASE InsertZone(t)
  <2>1. t = Async /\ arg[t].match \in Matches /\ status[arg[t].match] # "COMPLETED"
    BY <1>1, <1>a DEF InsertZone, CompletionInv, IsCompleting, CompletionCalls
  <2>2. /\ status' = status
        /\ \A m \in Matches : m # arg[t].match => zone'[m] = zone[m]
        /\ \/ zone'[arg[t].match] = "open" /\ pc'[t] = "ChangeCompleted" /\ arg'[t] = arg[t]
           \/ zone'[arg[t].match] = "absent" /\ pc'[t] = "OnFailed"
    BY <1>1, <1>a, <2>1 DEF InsertZone, Goto, sessionVars
  <2>3. pc[t] = "InsertZone"
    BY <1>1 DEF InsertZone
  <2> QED BY <2>1, <2>2, <2>3 DEF ZoneInv, ZoneOnlyOfCompleted, CompletedHasZone
<1>2. CASE EraseZone(t)
  <2>1. t = Async /\ arg[t].match \in Matches /\ status[arg[t].match] # "COMPLETED"
    BY <1>2, <1>a DEF EraseZone, CompletionInv, IsCompleting, CompletionCalls
  <2>2. /\ status' = status /\ pc[t] = "EraseZone" /\ pc'[t] = "OnFailed"
        /\ \A m \in Matches : m # arg[t].match => zone'[m] = zone[m]
        /\ zone'[arg[t].match] = "absent"
    BY <1>2, <1>a, <2>1 DEF EraseZone, Goto, sessionVars
  <2> QED BY <2>1, <2>2 DEF ZoneInv, ZoneOnlyOfCompleted, CompletedHasZone
<1>3. CASE ChangeCompleted(t)
  <2> DEFINE m == arg[t].match
  <2>1. t = Async /\ m \in Matches /\ zone[m] # "absent" /\ zone' = zone
    BY <1>3, <1>a
    DEF ChangeCompleted, ChangeStatus, CompletionInv, CompletionCalls, ZoneInv, outsideVars
  <2>2. \/ status'[m] = "COMPLETED" /\ pc'[t] = "Erase"
        \/ status'[m] = status[m] /\ pc'[t] = "EraseZone" /\ arg'[t] = arg[t]
    BY <1>3, <1>a, <2>1 DEF ChangeCompleted, ChangeStatus, SetStatus, Goto
  <2>3. \A n \in Matches : n # m => status'[n] = status[n]
    BY <1>3, StepStatus
  <2>4. pc[t] = "ChangeCompleted"
    BY <1>3 DEF ChangeCompleted
  <2> QED BY <2>1, <2>2, <2>3, <2>4 DEF ZoneInv, ZoneOnlyOfCompleted, CompletedHasZone
<1>4. CASE ~InsertZone(t) /\ ~EraseZone(t) /\ ~ChangeCompleted(t)
  <2>1. zone' = zone
    BY <1>4, StepFrame
  <2>2. pc[t] \notin {"InsertZone", "EraseZone", "ChangeCompleted"}
    BY <1>4, StepOutside
  <2>3. pc'[t] \notin {"ChangeCompleted", "EraseZone"}
    BY <1>4, <2>2, StepControl, StepOutside
  <2>4. \A m \in Matches : status[m] = "COMPLETED" <=> status'[m] = "COMPLETED"
    <3> SUFFICES ASSUME NEW m \in Matches, status'[m] # status[m]
                 PROVE  status[m] # "COMPLETED" /\ status'[m] # "COMPLETED"
      OBVIOUS
    <3>1. CanChangeStatus(status[m], status'[m]) /\ <<pc[t], status'[m], pc'[t]>> \in StatusCalls
      BY StepStatus
    <3>2. status[m] # "COMPLETED"
      BY <1>a, <3>1, PlacingTable DEF FinalStatuses
    <3> QED BY <2>2, <3>1, <3>2 DEF StatusCalls
  <2>5. pc'[Async] = "ChangeCompleted" => pc[Async] = "ChangeCompleted" /\ arg'[Async] = arg[Async]
    BY <1>a, <1>b, <2>3
  <2>6. pc[Async] \in {"ChangeCompleted", "EraseZone"} =>
          pc'[Async] = pc[Async] /\ arg'[Async] = arg[Async]
    BY <1>a, <1>b, <2>2
  <2> QED BY <2>1, <2>4, <2>5, <2>6 DEF ZoneInv, ZoneOnlyOfCompleted, CompletedHasZone
<1> QED BY <1>1, <1>2, <1>3, <1>4

LEMMA ZoneNext == TypeInv /\ CompletionInv /\ ZoneInv /\ [Next]_vars => ZoneInv'
<1> SUFFICES ASSUME TypeInv, CompletionInv, ZoneInv, [Next]_vars PROVE ZoneInv'
  OBVIOUS
<1>a. /\ zone \in [Matches -> {"absent", "open", "closed"}] /\ Async \in Threads
      /\ pc[Async] \in CompletionCalls => arg[Async].match \in Matches
  BY DEF TypeInv, CallsOK, DataOK, Threads, CompletionCalls, MatchCalls, Calls
<1>1. ASSUME NEW t \in Threads, Step(t) PROVE ZoneInv'
  BY <1>1, ZoneStep
<1>2. ASSUME NEW t \in Creators, NEW m \in Matches, CreateMatchSession(t, m)
      PROVE  ZoneInv'
  <2>1. /\ zone' = zone
        /\ \A n \in Matches : status[n] = "COMPLETED" <=> status'[n] = "COMPLETED"
        /\ pc'[Async] = pc[Async] /\ arg'[Async] = arg[Async]
    BY <1>2, <1>a, CreateStep, ThreadsAssumption
  <2> QED BY <2>1 DEF ZoneInv, ZoneOnlyOfCompleted, CompletedHasZone
<1>3. CASE Outside
  <2>1. status' = status
    BY <1>3, OutsideStep DEF sessionVars
  <2>2. \A m \in Matches : /\ zone'[m] = "open" => zone[m] = "open"
                           /\ zone'[m] = "absent" => zone[m] = "absent"
    BY <1>3, <1>a, OutsideStep
  <2>3. /\ pc[Async] \in {"ChangeCompleted", "EraseZone"} \/ pc'[Async] = "ChangeCompleted" =>
             pc'[Async] = pc[Async] /\ arg'[Async] = arg[Async]
    BY <1>3, <1>a, OutsideStep DEF FirstCalls
  <2> QED BY <1>a, <2>1, <2>2, <2>3
       DEF ZoneInv, ZoneOnlyOfCompleted, CompletedHasZone, CompletionCalls
<1> QED BY <1>1, <1>2, <1>3, NextCases

\* A zone stays registered for a completed match only: of a completion and a
\* failure or timeout that race, the completion takes its zone back when it
\* loses.
THEOREM ZoneOfCompleted == Spec => []ZoneOnlyOfCompleted
<1>1. ZoneInv => ZoneOnlyOfCompleted
  BY DEF ZoneInv
<1> QED BY <1>1, InitType, NextType, CompletionInit, CompletionNext, ZoneInit, ZoneNext, PTL
     DEF Spec

\* A completed match has got its zone, which is never taken back by a second
\* completion: there is one.
THEOREM ZoneOfEveryCompleted == Spec => []CompletedHasZone
<1>1. ZoneInv => CompletedHasZone
  BY DEF ZoneInv
<1> QED BY <1>1, InitType, NextType, CompletionInit, CompletionNext, ZoneInit, ZoneNext, PTL
     DEF Spec

-----------------------------------------------------------------------------
(* The dodge penalties.                                                    *)

HasRejected(p) == \E m \in Matches : response[m][p] = "rejected"

PenaltyInv ==
  /\ PenaltyOnlyAfterReject
  /\ \A t \in Threads : pc[t] = "AddPenalty" => HasRejected(arg[t].player)

LEMMA PenaltyInit == Init => PenaltyInv
BY DEF Init, PenaltyInv, PenaltyOnlyAfterReject

\* A rejection stays on record.
LEMMA RejectedStays ==
  ASSUME TypeInv, NEW t \in Threads, Step(t), NEW p \in Players, HasRejected(p)
  PROVE  HasRejected(p)'
<1>1. PICK m \in Matches : response[m][p] = "rejected"
  BY DEF HasRejected
<1>2. CASE AcceptPlayerSession(t)
  <2>1. response'[m][p] = "rejected"
    BY <1>1, <1>2 DEF AcceptPlayerSession, TypeInv, DataOK
  <2> QED BY <2>1 DEF HasRejected
<1>3. CASE UNCHANGED response
  BY <1>3 DEF HasRejected
<1> QED BY <1>2, <1>3, StepFrame

LEMMA PenaltyStep ==
  ASSUME TypeInv, PenaltyInv, NEW t \in Threads, Step(t)
  PROVE  PenaltyInv'
<1>a. /\ pc \in [Threads -> Calls] /\ arg \in [Threads -> ArgumentType]
      /\ response \in [Matches -> [Players -> {"none", "accepted", "rejected"}]]
      /\ penalized \subseteq Players
      /\ \A u \in Threads : pc[u] \in {"AddPenalty", "AcceptPlayer"} => arg[u].player \in Players
      /\ \A u \in Threads : pc[u] = "AcceptPlayer" => arg[u].match \in Matches
  BY DEF TypeInv, CallsOK, DataOK, PlayerCalls, MatchCalls, Calls
<1>1. \A p \in Players : HasRejected(p) => HasRejected(p)'
  BY RejectedStays
<1>2. \A p \in penalized' : HasRejected(p)'
  <2>1. CASE AddDodgePenalty(t)
    <3>1. penalized' = penalized \cup {arg[t].player} /\ HasRejected(arg[t].player)
      BY <2>1 DEF AddDodgePenalty, PenaltyInv
    <3>2. arg[t].player \in Players
      BY <2>1, <1>a DEF AddDodgePenalty
    <3> QED BY <1>a, <1>1, <3>1, <3>2 DEF PenaltyInv, PenaltyOnlyAfterReject, HasRejected
  <2>2. CASE UNCHANGED penalized
    BY <1>a, <1>1, <2>2 DEF PenaltyInv, PenaltyOnlyAfterReject, HasRejected
  <2> QED BY <2>1, <2>2, StepOutside
<1>3. ASSUME NEW u \in Threads, pc'[u] = "AddPenalty"
      PROVE  \E m \in Matches : response'[m][arg'[u].player] = "rejected"
  <2>1. CASE u = t
    <3>1. AcceptPlayerSession(t) /\ arg'[t] = arg[t]
      BY <1>3, <2>1, StepOutside, StepControl
    <3>2. pc[t] = "AcceptPlayer" /\ arg[t].player \in Players /\ arg[t].match \in Matches
      BY <1>a, <3>1 DEF AcceptPlayerSession
    <3>3. response'[arg[t].match][arg[t].player] = "rejected"
      BY <1>3, <1>a, <2>1, <3>1, <3>2 DEF AcceptPlayerSession, Goto
    <3> QED BY <2>1, <3>1, <3>2, <3>3
  <2>2. CASE u # t
    <3>1. pc[u] = "AddPenalty" /\ arg'[u] = arg[u]
      BY <1>3, <2>2, StepControl
    <3>2. arg[u].player \in Players /\ HasRejected(arg[u].player)
      BY <1>a, <3>1 DEF PenaltyInv
    <3>3. \E m \in Matches : response'[m][arg[u].player] = "rejected"
      BY <1>1, <3>2 DEF HasRejected
    <3> QED BY <3>1, <3>3
  <2> QED BY <2>1, <2>2
<1> QED BY <1>2, <1>3 DEF PenaltyInv, PenaltyOnlyAfterReject, HasRejected

LEMMA PenaltyNext == TypeInv /\ PenaltyInv /\ [Next]_vars => PenaltyInv'
<1> SUFFICES ASSUME TypeInv, PenaltyInv, [Next]_vars PROVE PenaltyInv'
  OBVIOUS
<1>1. ASSUME NEW t \in Threads, Step(t) PROVE PenaltyInv'
  BY <1>1, PenaltyStep
<1>2. ASSUME NEW t \in Creators, NEW m \in Matches, CreateMatchSession(t, m)
      PROVE  PenaltyInv'
  <2>1. UNCHANGED <<response, penalized>>
    BY <1>2 DEF CreateMatchSession, outsideVars
  <2>2. \A u \in Threads : pc'[u] = "AddPenalty" => pc'[u] = pc[u] /\ arg'[u] = arg[u]
    BY <1>2, CreateStep
  <2> QED BY <2>1, <2>2 DEF PenaltyInv, PenaltyOnlyAfterReject, HasRejected
<1>3. CASE Outside
  <2>1. UNCHANGED <<response, penalized>>
    BY <1>3 DEF Outside, CallAccept, CallStop, RunJob, CloseZone, sessionVars, outsideVars, vars
  <2>2. \A u \in Threads : pc'[u] = "AddPenalty" => pc'[u] = pc[u] /\ arg'[u] = arg[u]
    BY <1>3, OutsideStep DEF FirstCalls
  <2> QED BY <2>1, <2>2 DEF PenaltyInv, PenaltyOnlyAfterReject, HasRejected
<1> QED BY <1>1, <1>2, <1>3, NextCases

\* Nobody is given a dodge penalty who is not on record as having rejected a
\* match, whatever other answers and timeouts reach the session meanwhile.
THEOREM PenaltyCorrect == Spec => []PenaltyOnlyAfterReject
<1>1. PenaltyInv => PenaltyOnlyAfterReject
  BY DEF PenaltyInv
<1> QED BY <1>1, InitType, NextType, PenaltyInit, PenaltyNext, PTL DEF Spec

=============================================================================
