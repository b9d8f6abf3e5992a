---------------------------- MODULE MatchSession ----------------------------
(***************************************************************************)
(* CMatchSessionManager and CMatchSession: from the moment a queue hands   *)
(* over the tickets of a match until the match is completed, failed or     *)
(* timed out.                                                              *)
(*                                                                         *)
(* Three kinds of threads run the manager's code at the same time:         *)
(*   Creators  queue worker threads, which call CreateMatchSession;        *)
(*   Clients   threads of the callers, which answer for a player           *)
(*             (AcceptMatchSession) or cancel a player's solo ticket       *)
(*             (CSoloMatchmakingManager::StopMatchmaking);                 *)
(*   Async     the one thread of m_AsyncJobWorker, which runs the accept   *)
(*             and place timeouts, the automatic accepts and the           *)
(*             completion of a placement.                                  *)
(*                                                                         *)
(* A handler takes the session-map mutex, the mutex of the session and the *)
(* locks of the other managers one after the other and never holds one     *)
(* across two of these calls, so one action is one such critical section   *)
(* and pc says which call the thread makes next.  Consecutive reads that   *)
(* only lead to an early return are one action, taken at the last of them: *)
(* whatever the earlier ones saw, the outcome is one the last one allows.  *)
(*                                                                         *)
(* The tickets of a match are written by one thread at a time (the session *)
(* mutex is held while CMatchSession::ChangeStatus visits them) and always *)
(* get the same status, so ticket[m] stands for all of them.               *)
(***************************************************************************)
EXTENDS TicketStatus, FiniteSets

CONSTANTS
  Players,      \* player keys
  Matches,      \* match ids: the tickets a queue worker has grouped
  PlayersOf,    \* the players of a match's tickets
  SoloMatches,     \* the matches whose tickets the solo manager has
  PartyPlayersOf,  \* the players whose ticket IsPartyTicket takes for a party's
  Creators,     \* queue worker threads
  Clients,      \* caller threads
  Async,        \* the thread of m_AsyncJobWorker
  DelayOrder,   \* <<k1, k2>>: for one match a job of kind k1 is due before one of kind k2
  Replies,      \* results OnCompleteMatchSession is called with: TRUE is Protocol_Success
  NoMatch,      \* no match id
  NoPlayer      \* no player key

ASSUME MatchesAssumption ==
  /\ PlayersOf \in [Matches -> (SUBSET Players) \ {{}}]
  /\ SoloMatches \subseteq Matches
  /\ PartyPlayersOf \in [Matches -> SUBSET Players]
  /\ \A m \in Matches : PartyPlayersOf[m] \subseteq PlayersOf[m]
  /\ NoMatch \notin Matches
  /\ NoPlayer \notin Players

ASSUME ThreadsAssumption ==
  /\ Creators \cap Clients = {}
  /\ Async \notin Creators \cup Clients
  /\ Replies \subseteq BOOLEAN

Threads == Creators \cup Clients \cup {Async}

JobKinds == {"demoAccept", "acceptTimeout", "placeTimeout", "complete"}

\* A queued job.  The match of an automatic accept is the one that scheduled
\* it; the job itself is bound to the player only.
Jobs == [kind : JobKinds, match : Matches, player : Players \cup {NoPlayer}]

\* The calls a thread can be about to make; "Idle" is outside the manager.
Calls == {"Idle",
          "Require", "ExpireOwnership", "ScheduleAccept", "InsertFailed",
          "Stop", "Accept", "AcceptPlayer", "AddPenalty", "AllAccepted",
          "Place", "ChangePlacing", "SchedulePlace",
          "OnTimeOutAccept", "EndAcceptWait", "OnTimeOutPlace", "EndPlaceWait",
          "OnComplete", "InsertZone", "ChangeCompleted", "EraseZone",
          "OnFailed", "Erase"}

VARIABLES
  sessionMap,   \* m_MatchSessionMap: the registered matches
  playerIndex,  \* m_MatchSessionFindMapByPlayerKey
  status,       \* CMatchSession::m_Status
  ticket,       \* CMatchTicket::m_Status of the match's tickets
  response,     \* m_PlayerMatchAcceptInfos: what each player of a match answered
  owned,        \* the players of a match whose ticket is still in the map of the
                \* queue manager that made the match
  jobs,         \* m_AsyncJobWorker's waiting queue
  penalized,    \* players AddDodgePenalty was called for
  zone,         \* the integration zone of a match: absent, open or closed
  pc,           \* the call each thread makes next
  arg           \* what each thread's handler works on: the match, the player, the
                \* answer, and whether it is a cancel that is to add no penalty

sessionVars == <<sessionMap, playerIndex, status, ticket, response>>
outsideVars == <<owned, penalized, zone>>
vars == <<sessionMap, playerIndex, status, ticket, response, owned, jobs,
          penalized, zone, pc, arg>>

NoArg == [match |-> NoMatch, player |-> NoPlayer, accept |-> FALSE, cleanup |-> FALSE]

Init ==
  /\ sessionMap = {}
  /\ playerIndex = [p \in Players |-> NoMatch]
  /\ status = [m \in Matches |-> "None"]
  /\ ticket = [m \in Matches |-> "SEARCHING"]
  /\ response = [m \in Matches |-> [p \in Players |-> "none"]]
  /\ owned = PlayersOf
  /\ jobs = {}
  /\ penalized = {}
  /\ zone = [m \in Matches |-> "absent"]
  /\ pc = [t \in Threads |-> "Idle"]
  /\ arg = [t \in Threads |-> NoArg]

-----------------------------------------------------------------------------
(* Operators of CMatchSession and of the session map.                      *)

\* Thread t makes the call next; "Idle" ends its handler.
Goto(t, call) ==
  /\ pc' = [pc EXCEPT ![t] = call]
  /\ arg' = IF call = "Idle" THEN [arg EXCEPT ![t] = NoArg] ELSE arg

Enter(t, call, a) ==
  /\ pc' = [pc EXCEPT ![t] = call]
  /\ arg' = [arg EXCEPT ![t] = a]

\* CMatchSession::ChangeStatus succeeds: the session and each of its tickets
\* may take the status.
CanChange(m, next) ==
  /\ CanChangeStatus(status[m], next)
  /\ CanChangeStatus(ticket[m], next)

\* A variant with a bug (see below): the session forgets its tickets.
SetStatusOfSessionOnly(m, next) ==
  /\ status' = [status EXCEPT ![m] = next]
  /\ UNCHANGED ticket

SetStatus(m, next) ==
  /\ status' = [status EXCEPT ![m] = next]
  /\ ticket' = [ticket EXCEPT ![m] = next]

\* The thread changes the status of its match and goes on to one call or,
\* when the table forbids the change, to another.
ChangeStatus(t, next, done, refused) ==
  LET m == arg[t].match IN
  /\ IF CanChange(m, next)
     THEN SetStatus(m, next) /\ Goto(t, done)
     ELSE UNCHANGED <<status, ticket>> /\ Goto(t, refused)
  /\ UNCHANGED <<sessionMap, playerIndex, response, jobs, outsideVars>>

\* FindMatchSessionByPlayerKey: the index names a match that is in the map.
FindByPlayerKey(p) == IF playerIndex[p] \in sessionMap THEN playerIndex[p] ELSE NoMatch

\* CMatchSession::IsAllAcceptPlayerSession
IsAllAccept(m) == \A p \in PlayersOf[m] : response[m][p] = "accepted"

-----------------------------------------------------------------------------
(* Variants of the operations below with a bug each could have.  No action *)
(* uses them: in the place of the operation it is named after, each makes  *)
(* TLC find a property of the module violated.                             *)

\* A player who is in another session is taken over by the new one.
CreateMatchSessionTakingOver(t, m) ==
  /\ pc[t] = "Idle"
  /\ status[m] = "None"
  /\ status' = [status EXCEPT ![m] = "SEARCHING"]
  /\ sessionMap' = sessionMap \cup {m}
  /\ playerIndex' = [p \in Players |->
                       IF p \in PlayersOf[m] THEN m ELSE playerIndex[p]]
  /\ Enter(t, "Require", [NoArg EXCEPT !.match = m])
  /\ UNCHANGED <<ticket, response, jobs, outsideVars>>


\* The automatic accept is bound to the match id, not to the player key.
ScheduleAcceptByMatchId(t) ==
  LET m == arg[t].match IN
  /\ pc[t] = "ScheduleAccept"
  /\ jobs' = jobs \cup {[kind |-> "demoAccept", match |-> m, player |-> m]}
  /\ Goto(t, "Idle")
  /\ UNCHANGED <<sessionVars, outsideVars>>

\* A later answer replaces the first one.
AcceptPlayerSessionAgain(t) ==
  LET m == arg[t].match
      p == arg[t].player IN
  /\ pc[t] = "AcceptPlayer"
  /\ response' = [response EXCEPT ![m][p] =
                    IF arg[t].accept THEN "accepted" ELSE "rejected"]
  /\ Goto(t, IF arg[t].accept THEN "AllAccepted" ELSE "AddPenalty")
  /\ UNCHANGED <<sessionMap, playerIndex, status, ticket, jobs, outsideVars>>

\* One acceptance is enough.
CheckAnyAccepted(t) ==
  /\ pc[t] = "AllAccepted"
  /\ Goto(t, "Place")
  /\ UNCHANGED <<sessionVars, jobs, outsideVars>>

\* The session that timed out stays registered.
EndPlaceWaitWithoutErase(t) ==
  /\ pc[t] = "EndPlaceWait"
  /\ ChangeStatus(t, "TIMED_OUT", "Idle", "Idle")

\* The refusal of the zone manager is not looked at.
InsertZoneUnchecked(t) ==
  LET m == arg[t].match IN
  /\ pc[t] = "InsertZone"
  /\ \E z \in {"open", "absent"} : zone' = [zone EXCEPT ![m] = z]
  /\ Goto(t, "ChangeCompleted")
  /\ UNCHANGED <<sessionVars, jobs, owned, penalized>>

\* The zone is not taken back.
ChangeCompletedKeepingZone(t) ==
  /\ pc[t] = "ChangeCompleted"
  /\ ChangeStatus(t, "COMPLETED", "Erase", "OnFailed")

\* The failed session stays registered.
OnFailedWithoutErase(t) ==
  /\ pc[t] = "OnFailed"
  /\ IF arg[t].match \in sessionMap
     THEN ChangeStatus(t, "FAILED", "Idle", "Idle")
     ELSE Goto(t, "Idle") /\ UNCHANGED <<sessionVars, jobs, outsideVars>>

\* Only the session is erased, not the index entries that name it.
EraseMatchSessionOnly(t) ==
  /\ pc[t] = "Erase"
  /\ sessionMap' = sessionMap \ {arg[t].match}
  /\ Goto(t, "Idle")
  /\ UNCHANGED <<playerIndex, status, ticket, response, jobs, outsideVars>>

-----------------------------------------------------------------------------
(* CreateMatchSession, on a queue worker thread.                           *)

\* InsertMatchSession succeeds; otherwise it takes back what it inserted, since
\* the match or one of its players is in the map already.
CanInsertMatchSession(m) == m \notin sessionMap /\ \A p \in PlayersOf[m] : playerIndex[p] = NoMatch

InsertMatchSession(m) ==
  /\ sessionMap' = sessionMap \cup {m}
  /\ playerIndex' = [p \in Players |-> IF p \in PlayersOf[m] THEN m ELSE playerIndex[p]]

\* The session is built with status SEARCHING and inserted with all its
\* players, or not at all.
CreateMatchSession(t, m) ==
  /\ pc[t] = "Idle"
  /\ status[m] = "None"
  /\ status' = [status EXCEPT ![m] = "SEARCHING"]
  /\ IF CanInsertMatchSession(m)
     THEN InsertMatchSession(m) /\ Enter(t, "Require", [NoArg EXCEPT !.match = m])
     ELSE /\ UNCHANGED <<sessionMap, playerIndex>>
          /\ Enter(t, "InsertFailed", [NoArg EXCEPT !.match = m])
  /\ UNCHANGED <<ticket, response, jobs, outsideVars>>

\* The session manager is not told which queue manager has a ticket.  It asks
\* the party manager for those of IsPartyTicket, with a party key or more than
\* one player, and the solo manager for the rest; a manager that does not have
\* the ticket erases nothing.  These are the players of m whose ticket goes wrong.
Misrouted(m) ==
  IF m \in SoloMatches THEN PartyPlayersOf[m] ELSE PlayersOf[m] \ PartyPlayersOf[m]

\* The manager asked for each ticket of m forgets it, if it has it.
ExpireTickets(m) == owned' = [owned EXCEPT ![m] = @ \cap Misrouted(m)]

\* NotifyMatchmakingFailure for every ticket: the queue manager fails it and
\* forgets it.  (EraseMatchSession before it finds no session to erase.)
InsertFailed(t) ==
  LET m == arg[t].match IN
  /\ pc[t] = "InsertFailed"
  /\ ticket' = [ticket EXCEPT ![m] =
                  IF CanChangeStatus(ticket[m], "FAILED") THEN "FAILED" ELSE @]
  /\ IF CanChangeStatus(ticket[m], "FAILED") THEN ExpireTickets(m) ELSE UNCHANGED owned
  /\ Goto(t, "Idle")
  /\ UNCHANGED <<sessionMap, playerIndex, status, response, jobs, penalized,
                 zone>>

RequireAcceptance(t) ==
  /\ pc[t] = "Require"
  /\ ChangeStatus(t, "REQUIRES_ACCEPTANCE", "ExpireOwnership", "OnFailed")

\* ExpireMatchmakingOwnership of every ticket.
ExpireOwnership(t) ==
  /\ pc[t] = "ExpireOwnership"
  /\ ExpireTickets(arg[t].match)
  /\ Goto(t, "ScheduleAccept")
  /\ UNCHANGED <<sessionVars, jobs, penalized, zone>>

\* The accept timeout and one automatic accept per player.
ScheduleAccept(t) ==
  LET m == arg[t].match IN
  /\ pc[t] = "ScheduleAccept"
  /\ jobs' = jobs
       \cup {[kind |-> "acceptTimeout", match |-> m, player |-> NoPlayer]}
       \cup {[kind |-> "demoAccept", match |-> m, player |-> p] : p \in PlayersOf[m]}
  /\ Goto(t, "Idle")
  /\ UNCHANGED <<sessionVars, outsideVars>>

-----------------------------------------------------------------------------
(* Calls that start on a caller's thread.                                  *)

CallAccept(t, p, accept) ==
  /\ pc[t] = "Idle"
  /\ Enter(t, "Accept", [NoArg EXCEPT !.player = p, !.accept = accept])
  /\ UNCHANGED <<sessionVars, jobs, outsideVars>>

\* A cancel request, or the cleanup before a new request or at login, which
\* passes apply_dodge_penalty = false.
CallStop(t, p, cleanup) ==
  /\ pc[t] = "Idle"
  /\ Enter(t, "Stop", [NoArg EXCEPT !.player = p, !.cleanup = cleanup])
  /\ UNCHANGED <<sessionVars, jobs, outsideVars>>

\* The tickets CSoloMatchmakingManager still finds for a player.
SoloTicketsOf(p) == {m \in SoloMatches : p \in owned[m]}

\* CSoloMatchmakingManager::StopMatchmaking on a ticket that has been grouped:
\* a ticket waiting for acceptance is rejected, one still SEARCHING cannot be
\* cancelled, and one the manager no longer owns is not found.
StopMatchmaking(t) ==
  /\ pc[t] = "Stop"
  /\ IF \E m \in SoloTicketsOf(arg[t].player) : ticket[m] = "REQUIRES_ACCEPTANCE"
     THEN Goto(t, "Accept")
     ELSE Goto(t, "Idle")
  /\ UNCHANGED <<sessionVars, jobs, outsideVars>>

-----------------------------------------------------------------------------
(* AcceptMatchSession, on any thread.                                      *)

\* The session is found by the player; it must not be fully accepted and must
\* wait for answers.
AcceptMatchSession(t) ==
  LET m == FindByPlayerKey(arg[t].player) IN
  /\ pc[t] = "Accept"
  /\ IF m # NoMatch /\ ~IsAllAccept(m) /\ status[m] = "REQUIRES_ACCEPTANCE"
     THEN Enter(t, "AcceptPlayer", [arg[t] EXCEPT !.match = m])
     ELSE Goto(t, "Idle")
  /\ UNCHANGED <<sessionVars, jobs, outsideVars>>

\* CMatchSession::AcceptPlayerSession records the first answer only.
AcceptPlayerSession(t) ==
  LET m == arg[t].match
      p == arg[t].player IN
  /\ pc[t] = "AcceptPlayer"
  /\ IF p \in PlayersOf[m] /\ response[m][p] = "none"
     THEN /\ response' = [response EXCEPT ![m][p] =
                            IF arg[t].accept THEN "accepted" ELSE "rejected"]
          /\ Goto(t, IF arg[t].accept THEN "AllAccepted" ELSE "AddPenalty")
     ELSE /\ UNCHANGED response
          /\ Goto(t, "Idle")
  /\ UNCHANGED <<sessionMap, playerIndex, status, ticket, jobs, outsideVars>>

AddDodgePenalty(t) ==
  /\ pc[t] = "AddPenalty"
  /\ penalized' = penalized \cup {arg[t].player}
  /\ Goto(t, "OnFailed")
  /\ UNCHANGED <<sessionVars, jobs, owned, zone>>

CheckAllAccepted(t) ==
  /\ pc[t] = "AllAccepted"
  /\ Goto(t, IF IsAllAccept(arg[t].match) THEN "Place" ELSE "Idle")
  /\ UNCHANGED <<sessionVars, jobs, outsideVars>>

\* PlaceMatchSession up to its status check.
PlaceMatchSession(t) ==
  LET m == arg[t].match IN
  /\ pc[t] = "Place"
  /\ Goto(t, IF m \in sessionMap /\ status[m] # "PLACING"
             THEN "ChangePlacing" ELSE "Idle")
  /\ UNCHANGED <<sessionVars, jobs, outsideVars>>

ChangePlacing(t) ==
  /\ pc[t] = "ChangePlacing"
  /\ ChangeStatus(t, "PLACING", "SchedulePlace", "OnFailed")

\* The place timeout and the completion that stands for the reply of the
\* integration server.
SchedulePlace(t) ==
  LET m == arg[t].match IN
  /\ pc[t] = "SchedulePlace"
  /\ jobs' = jobs \cup {[kind |-> k, match |-> m, player |-> NoPlayer] :
                          k \in {"placeTimeout", "complete"}}
  /\ Goto(t, "Idle")
  /\ UNCHANGED <<sessionVars, outsideVars>>

-----------------------------------------------------------------------------
(* Jobs of the asynchronous worker.                                        *)

\* j is at the front of the worker's queue: no job of the same match that is
\* due earlier waits.  The due times of different matches are not compared.
AtFront(j) ==
  \A k \in jobs : k.match = j.match => <<k.kind, j.kind>> \notin DelayOrder

HandlerOf == [acceptTimeout |-> "OnTimeOutAccept", placeTimeout |-> "OnTimeOutPlace",
              complete |-> "OnComplete", demoAccept |-> "Accept"]

\* CAsyncJobWorker::DoWorkerAsyncJob takes a job from the queue and runs it.
RunJob(j) ==
  /\ pc[Async] = "Idle"
  /\ j \in jobs
  /\ AtFront(j)
  /\ jobs' = jobs \ {j}
  /\ Enter(Async, HandlerOf[j.kind],
           IF j.kind = "demoAccept"
           THEN [NoArg EXCEPT !.player = j.player, !.accept = TRUE]
           ELSE [NoArg EXCEPT !.match = j.match])
  /\ UNCHANGED <<sessionVars, outsideVars>>

\* The status is read, and the session timed out in a second critical section.
OnTimeOut(t, call, waiting, change) ==
  LET m == arg[t].match IN
  /\ pc[t] = call
  /\ Goto(t, IF m \in sessionMap /\ status[m] = waiting THEN change ELSE "Idle")
  /\ UNCHANGED <<sessionVars, jobs, outsideVars>>

OnTimeOutAcceptMatchSession(t) ==
  OnTimeOut(t, "OnTimeOutAccept", "REQUIRES_ACCEPTANCE", "EndAcceptWait")

EndAcceptWait(t) ==
  /\ pc[t] = "EndAcceptWait"
  /\ ChangeStatus(t, "TIMED_OUT", "Erase", "Idle")

OnTimeOutPlaceMatchSession(t) ==
  OnTimeOut(t, "OnTimeOutPlace", "PLACING", "EndPlaceWait")

EndPlaceWait(t) ==
  /\ pc[t] = "EndPlaceWait"
  /\ ChangeStatus(t, "TIMED_OUT", "Erase", "Idle")

\* OnCompleteMatchSession: an error result or a missing session is a failure.
OnCompleteMatchSession(t) ==
  /\ pc[t] = "OnComplete"
  /\ \E success \in Replies :
       Goto(t, IF success /\ arg[t].match \in sessionMap THEN "InsertZone"
               ELSE "OnFailed")
  /\ UNCHANGED <<sessionVars, jobs, outsideVars>>

\* CIntegrationZoneInstanceManager::Insert, which may refuse; it then erases
\* whatever is registered under the match's zone key.
InsertZone(t) ==
  LET m == arg[t].match IN
  /\ pc[t] = "InsertZone"
  /\ \/ zone[m] # "open" /\ zone' = [zone EXCEPT ![m] = "open"]
                         /\ Goto(t, "ChangeCompleted")
     \/ zone' = [zone EXCEPT ![m] = "absent"] /\ Goto(t, "OnFailed")
  /\ UNCHANGED <<sessionVars, jobs, owned, penalized>>

ChangeCompleted(t) ==
  /\ pc[t] = "ChangeCompleted"
  /\ ChangeStatus(t, "COMPLETED", "Erase", "EraseZone")

\* The zone of a session that can no longer be completed is taken back.
EraseZone(t) ==
  /\ pc[t] = "EraseZone"
  /\ zone' = [zone EXCEPT ![arg[t].match] = "absent"]
  /\ Goto(t, "OnFailed")
  /\ UNCHANGED <<sessionVars, jobs, owned, penalized>>

\* The zone manager drops a zone: it expired, its server closed, or all its
\* players left.
CloseZone(m) ==
  /\ zone[m] = "open"
  /\ zone' = [zone EXCEPT ![m] = "closed"]
  /\ UNCHANGED <<sessionVars, jobs, owned, penalized, pc, arg>>

-----------------------------------------------------------------------------
(* The end of a session, on any thread.                                    *)

OnFailedMatchSession(t) ==
  /\ pc[t] = "OnFailed"
  /\ IF arg[t].match \in sessionMap
     THEN ChangeStatus(t, "FAILED", "Erase", "Idle")
     ELSE Goto(t, "Idle") /\ UNCHANGED <<sessionVars, jobs, outsideVars>>

\* EraseMatchSession removes the session and the index entries that name it.
EraseMatchSession(t) ==
  LET m == arg[t].match IN
  /\ pc[t] = "Erase"
  /\ sessionMap' = sessionMap \ {m}
  /\ playerIndex' =
       [p \in Players |->
          IF m \in sessionMap /\ p \in PlayersOf[m] /\ playerIndex[p] = m
          THEN NoMatch ELSE playerIndex[p]]
  /\ Goto(t, "Idle")
  /\ UNCHANGED <<status, ticket, response, jobs, outsideVars>>

-----------------------------------------------------------------------------
\* The next step of a handler that thread t is in.
Step(t) ==
  \/ RequireAcceptance(t) \/ ExpireOwnership(t) \/ ScheduleAccept(t) \/ InsertFailed(t)
  \/ StopMatchmaking(t) \/ AcceptMatchSession(t) \/ AcceptPlayerSession(t)
  \/ AddDodgePenalty(t) \/ CheckAllAccepted(t)
  \/ PlaceMatchSession(t) \/ ChangePlacing(t) \/ SchedulePlace(t)
  \/ OnTimeOutAcceptMatchSession(t) \/ EndAcceptWait(t)
  \/ OnTimeOutPlaceMatchSession(t) \/ EndPlaceWait(t)
  \/ OnCompleteMatchSession(t) \/ InsertZone(t) \/ ChangeCompleted(t) \/ EraseZone(t)
  \/ OnFailedMatchSession(t) \/ EraseMatchSession(t)

Next ==
  \/ \E t \in Creators, m \in Matches : CreateMatchSession(t, m)
  \/ \E t \in Clients, p \in Players, accept \in BOOLEAN : CallAccept(t, p, accept)
  \/ \E t \in Clients, p \in Players, cleanup \in BOOLEAN : CallStop(t, p, cleanup)
  \/ \E j \in jobs : RunJob(j)
  \/ \E m \in Matches : CloseZone(m)
  \/ \E t \in Threads : Step(t)

Spec == Init /\ [][Next]_vars

\* A handler that has been entered runs to its end, and the asynchronous worker
\* reaches every queued job: its thread loops while the group runs.
Fairness ==
  /\ \A t \in Threads : WF_vars(Step(t))
  /\ \A j \in Jobs : WF_vars(RunJob(j))

FairSpec == Spec /\ Fairness

-----------------------------------------------------------------------------
(* Properties.                                                             *)

\* Every variable has its type.
TypeOK ==
  /\ sessionMap \subseteq Matches
  /\ playerIndex \in [Players -> Matches \cup {NoMatch}]
  /\ status \in [Matches -> Statuses]
  /\ ticket \in [Matches -> Statuses]
  /\ response \in [Matches -> [Players -> {"none", "accepted", "rejected"}]]
  /\ owned \in [Matches -> SUBSET Players]
  /\ jobs \subseteq Jobs
  /\ penalized \subseteq Players
  /\ zone \in [Matches -> {"absent", "open", "closed"}]
  /\ pc \in [Threads -> Calls]
  /\ arg \in [Threads -> [match : Matches \cup {NoMatch}, player : Players \cup {NoPlayer},
                          accept : BOOLEAN, cleanup : BOOLEAN]]

\* The player index names exactly the players of the registered sessions:
\* the two maps InsertMatchSession and EraseMatchSession write never diverge,
\* also when an insertion is rolled back or two handlers erase one session.
IndexMatchesSessions ==
  \A p \in Players, m \in Matches :
    playerIndex[p] = m <=> m \in sessionMap /\ p \in PlayersOf[m]

\* A session is placed or completed only after each of its players accepted,
\* whichever threads recorded the answers and looked at them.
PlacedOnlyIfAllAccepted ==
  \A m \in Matches : status[m] \in {"PLACING", "COMPLETED"} => IsAllAccept(m)

\* The tickets have the status of their session from its registration on; the
\* tickets of a session that was not registered are failed.
TicketsFollowSession ==
  \A m \in Matches :
    \/ status[m] = "None" /\ ticket[m] = "SEARCHING"
    \/ status[m] # "None" /\ status[m] = ticket[m]
    \/ status[m] = "SEARCHING" /\ ticket[m] = "FAILED" /\ m \notin sessionMap

\* No session is left behind in the session map: one whose status is final is
\* about to be erased by the handler that ended it.
NoLeakedSession ==
  \A m \in sessionMap : status[m] \in FinalStatuses =>
    \E t \in Threads : pc[t] = "Erase" /\ arg[t].match = m

\* A zone stays registered only for a completed match: when completion loses a
\* race against a failure the zone is taken back.
ZoneOnlyOfCompleted ==
  \A m \in Matches : zone[m] = "open" =>
    \/ status[m] = "COMPLETED"
    \/ pc[Async] \in {"ChangeCompleted", "EraseZone"} /\ arg[Async].match = m

\* A completed match got its zone, and the session manager never takes the
\* zone of a completed match back.
CompletedHasZone ==
  \A m \in Matches : status[m] = "COMPLETED" => zone[m] # "absent"

\* A dodge penalty is given only to a player who is on record as having
\* rejected a match, by AcceptMatchSession or by a cancel handled as one.
PenaltyOnlyAfterReject ==
  \A p \in penalized : \E m \in Matches : response[m][p] = "rejected"

\* Every registered session is erased again: a timeout, a rejection or the
\* completion of the placement ends it.
SessionsEnd == \A m \in Matches : m \in sessionMap ~> m \notin sessionMap


-----------------------------------------------------------------------------
(* What a comment or the documentation says and the code does not do.      *)

\* README: when all players accept, the session goes to PLACING and the zone
\* placement is carried out.  So an accepted match fails only in the handler
\* of its completion (the asynchronous thread, in a call made for no player).
AcceptedFailsOnlyInPlacement ==
  [][\A m \in Matches :
       IsAllAccept(m) /\ status[m] # "FAILED" /\ status'[m] = "FAILED" =>
         arg[Async].match = m /\ arg[Async].player = NoPlayer /\ pc[Async] = "OnFailed"]_vars

\* README: no dodge penalty is applied on the cleanup path.
CleanupAddsNoPenalty ==
  [][\A t \in Threads : pc[t] = "AddPenalty" /\ arg[t].cleanup => UNCHANGED penalized]_vars

\* StopMatchmaking's comment: a cancel request during the acceptance wait is
\* handled as a rejecting answer.
CancelWhileWaitingIsReject ==
  [][\A t \in Clients, m \in SoloMatches :
       /\ pc[t] = "Stop" /\ pc'[t] # "Stop"
       /\ playerIndex[arg[t].player] = m
       /\ status[m] = "REQUIRES_ACCEPTANCE"
       => pc'[t] = "Accept"]_vars

=============================================================================
