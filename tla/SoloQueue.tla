------------------------------ MODULE SoloQueue ------------------------------
(***************************************************************************)
(* CSoloMatchmakingManager and one CSoloMatchmakingWorkerGroup: the        *)
(* one-player tickets of one world group and zone, from the request to the *)
(* match that is handed to the session manager.                            *)
(*                                                                         *)
(* The statuses are changed before the worker's queue here and not under   *)
(* the group mutex, so the order of a caller's steps is another than in    *)
(* PartyQueue: a ticket becomes QUEUED first and is then enqueued, if it   *)
(* is QUEUED still, under the mutex of its worker, and a cancel changes    *)
(* status and queues under that mutex too.                                 *)
(*                                                                         *)
(* The manager can be stopped and started again.  Terminate takes the      *)
(* groups out of m_MatchmakingWorkers and joins their threads; the tickets *)
(* stay in the ticket map, and Init makes groups with empty queues.        *)
(***************************************************************************)
EXTENDS TicketStatus, TicketMap, Integers, FiniteSets

CONSTANTS
  MatchPlayerCount,  \* players of a match
  WorkerCount,       \* workers of the group
  Callers,           \* threads that call the manager
  MaxStarts          \* bound: how often the manager is started

ASSUME SoloAssumption ==
  /\ Tickets \subseteq Nat
  /\ \A t \in Tickets : \E p \in Players : PlayersOf[t] = {p}
  /\ MatchPlayerCount \in Nat \ {0}
  /\ WorkerCount \in Nat \ {0}
  /\ MaxStarts \in Nat

Workers == 0 .. WorkerCount - 1

VARIABLES
  status,      \* CMatchTicket::m_Status
  requests,    \* tickets that no caller has asked for yet
  waiting,     \* m_WaitingQueue of each worker
  progressing, \* m_SendProgressingList of each worker
  matches,     \* the matches made so far
  pc,          \* what each caller does next
  arg,         \* its request with its group, and the ticket it cancels
  work,        \* what each worker does next
  picked,      \* the tickets of the match it has made
  control,     \* whether the manager is up, stopping or down
  started,     \* how often it was started; the group of that start
  stranded,    \* history: tickets in the queues of a group when it was dropped
  forgotten    \* history: tickets that a stop erased and did not cancel

callerVars == <<requests, pc, arg>>
listVars == <<waiting, progressing>>
workerVars == <<matches, work, picked>>
groupVars == <<control, started, stranded, forgotten>>
vars == <<status, ticketMap, playerIndex, requests, waiting, progressing,
          matches, pc, arg, work, picked, control, started, stranded, forgotten>>

NoArg == [request |-> NoTicket, target |-> NoTicket, group |-> 0]

Init ==
  /\ status = [t \in Tickets |-> "None"]
  /\ EmptyMap
  /\ requests = Tickets
  /\ waiting = [w \in Workers |-> {}]
  /\ progressing = [w \in Workers |-> {}]
  /\ matches = {}
  /\ pc = [c \in Callers |-> "Idle"]
  /\ arg = [c \in Callers |-> NoArg]
  /\ work = [w \in Workers |-> "Idle"]
  /\ picked = [w \in Workers |-> {}]
  /\ control = "Down"
  /\ started = 0
  /\ stranded = {}
  /\ forgotten = {}

FullMatches == {S \in SUBSET Tickets : Cardinality(S) = MatchPlayerCount}

\* GetWorkerIndex
WorkerOf(t) == t % WorkerCount

-----------------------------------------------------------------------------
(* Callers.                                                                *)

Goto(c, call) ==
  /\ pc' = [pc EXCEPT ![c] = call]
  /\ arg' = IF call = "Idle" THEN [arg EXCEPT ![c] = NoArg] ELSE arg

\* GetWorkerGroup finds the group of this start until Terminate takes it away.
\* Whoever has it keeps it; its queues live until its threads are joined.
HasGroup == control = "Up"
HasQueues(c) == control # "Down" /\ arg[c].group = started

\* StartMatchmaking for a request of one player.
CallStart(c, t) ==
  /\ pc[c] = "Idle"
  /\ control = "Up"
  /\ t \in requests
  /\ requests' = requests \ {t}
  /\ pc' = [pc EXCEPT ![c] = "Cleanup"]
  /\ arg' = [arg EXCEPT ![c].request = t]
  /\ UNCHANGED <<status, mapVars, listVars, workerVars, groupVars>>

\* A variant with a bug: the player key is handed on for the ticket id.
CallStopByPlayerKey(c, p) ==
  /\ pc[c] = "Idle"
  /\ FindByPlayerKey(p) # NoTicket
  /\ pc' = [pc EXCEPT ![c] = "Stop"]
  /\ arg' = [arg EXCEPT ![c].target = p]
  /\ UNCHANGED <<requests, status, mapVars, listVars, workerVars, groupVars>>

\* StopMatchmaking for a player whose ticket the manager finds; another call
\* returns at once.
CallStop(c, p) ==
  /\ pc[c] = "Idle"
  /\ FindByPlayerKey(p) # NoTicket
  /\ pc' = [pc EXCEPT ![c] = "Stop"]
  /\ arg' = [arg EXCEPT ![c].target = FindByPlayerKey(p)]
  /\ UNCHANGED <<requests, status, mapVars, listVars, workerVars, groupVars>>

\* CleanupPrevMatchmaking stops the player's ticket if there is one, and the
\* request is then dropped; so is one of a player in an integration zone or
\* with a dodge penalty.
Cleanup(c) ==
  /\ pc[c] = "Cleanup"
  /\ \E p \in PlayersOf[arg[c].request] :
       IF FindByPlayerKey(p) # NoTicket
       THEN /\ pc' = [pc EXCEPT ![c] = "Stop"]
            /\ arg' = [arg EXCEPT ![c].target = FindByPlayerKey(p)]
       ELSE Goto(c, "GetGroup") \/ Goto(c, "Idle")
  /\ UNCHANGED <<requests, status, mapVars, listVars, workerVars, groupVars>>

\* EnqueueWorkerJobRequest gets the group ...
GetWorkerGroup(c) ==
  /\ pc[c] = "GetGroup"
  /\ IF HasGroup
     THEN /\ pc' = [pc EXCEPT ![c] = "Insert"]
          /\ arg' = [arg EXCEPT ![c].group = started]
     ELSE Goto(c, "Fail")
  /\ UNCHANGED <<requests, status, mapVars, listVars, workerVars, groupVars>>

\* ... and then inserts the ticket, whatever has become of the group.
InsertTicket(c) ==
  LET t == arg[c].request IN
  /\ pc[c] = "Insert"
  /\ IF CanInsert(t)
     THEN InsertMatchTicket(t) /\ Goto(c, "ChangeQueued")
     ELSE UNCHANGED mapVars /\ Goto(c, "Fail")
  /\ UNCHANGED <<requests, status, listVars, workerVars, groupVars>>

\* The group's EnqueueJobRequest makes the ticket QUEUED ...
ChangeQueued(c) ==
  LET t == arg[c].request IN
  /\ pc[c] = "ChangeQueued"
  /\ IF CanChangeStatus(status[t], "QUEUED")
     THEN status' = [status EXCEPT ![t] = "QUEUED"] /\ Goto(c, "Enqueue")
     ELSE UNCHANGED status /\ Goto(c, "EraseRefused")
  /\ UNCHANGED <<requests, mapVars, listVars, workerVars, groupVars>>

\* A variant with a bug: the status is not looked at again.
EnqueueUnchecked(c) ==
  LET t == arg[c].request IN
  /\ pc[c] = "Enqueue"
  /\ waiting' = [waiting EXCEPT ![WorkerOf(t)] = @ \cup {t}]
  /\ Goto(c, "Idle")
  /\ UNCHANGED <<requests, status, mapVars, progressing, workerVars, groupVars>>

\* ... and the worker's enqueues it unless it was cancelled in between.
EnqueueJobRequest(c) ==
  LET t == arg[c].request
      w == WorkerOf(t) IN
  /\ pc[c] = "Enqueue"
  /\ IF status[t] = "QUEUED"
     THEN /\ waiting' = [waiting EXCEPT ![w] = IF HasQueues(c) THEN @ \cup {t} ELSE @]
          /\ stranded' = IF HasQueues(c) THEN stranded ELSE stranded \cup {t}
          /\ Goto(c, "Idle")
     ELSE UNCHANGED <<waiting, stranded>> /\ Goto(c, "EraseRefused")
  /\ UNCHANGED <<requests, status, mapVars, progressing, workerVars, control, started,
                 forgotten>>

EraseRefused(c) ==
  /\ pc[c] = "EraseRefused"
  /\ EraseMatchTicket(arg[c].request)
  /\ Goto(c, "Fail")
  /\ UNCHANGED <<requests, status, listVars, workerVars, groupVars>>

\* The caller fails the ticket it could not enqueue.  (The EraseMatchTicket
\* after it finds no ticket: it was not inserted or is erased already.)
FailRequest(c) ==
  LET t == arg[c].request IN
  /\ pc[c] = "Fail"
  /\ status' = [status EXCEPT ![t] = IF CanChangeStatus(@, "FAILED") THEN "FAILED" ELSE @]
  /\ Goto(c, "Idle")
  /\ UNCHANGED <<requests, mapVars, listVars, workerVars, groupVars>>

\* The first look of StopMatchmaking at the ticket.  One that waits for
\* acceptance is rejected, which is the session manager's work.
StopMatchmaking(c) ==
  /\ pc[c] = "Stop"
  /\ Goto(c, IF CanChangeStatus(status[arg[c].target], "CANCELLED")
             THEN "GetCancelGroup" ELSE "Idle")
  /\ UNCHANGED <<requests, status, mapVars, listVars, workerVars, groupVars>>

\* Without a group the ticket is erased and keeps its status, whatever that is
\* by now, and its place in a worker's list.
GetCancelGroup(c) ==
  /\ pc[c] = "GetCancelGroup"
  /\ Goto(c, IF HasGroup THEN "Cancel" ELSE "EraseCancelled")
  /\ UNCHANGED <<requests, status, mapVars, listVars, workerVars, groupVars>>

\* A variant with a bug: the cancel trusts the first look.
CancelUnchecked(c) ==
  LET t == arg[c].target
      w == WorkerOf(t) IN
  /\ pc[c] = "Cancel"
  /\ status' = [status EXCEPT ![t] = "CANCELLED"]
  /\ waiting' = [waiting EXCEPT ![w] = @ \ {t}]
  /\ progressing' = [progressing EXCEPT ![w] = @ \ {t}]
  /\ Goto(c, "EraseCancelled")
  /\ UNCHANGED <<requests, mapVars, workerVars, groupVars>>

\* The worker's Cancel changes the status, if that is still allowed, and takes
\* the ticket out of both its lists.  (Only the ticket's own group has it in its
\* lists; another one erases nothing.)
CancelMatchTicket(c) ==
  LET t == arg[c].target
      w == WorkerOf(t) IN
  /\ pc[c] = "Cancel"
  /\ IF CanChangeStatus(status[t], "CANCELLED")
     THEN /\ status' = [status EXCEPT ![t] = "CANCELLED"]
          /\ waiting' = [waiting EXCEPT ![w] = @ \ {t}]
          /\ progressing' = [progressing EXCEPT ![w] = @ \ {t}]
          /\ Goto(c, "EraseCancelled")
     ELSE UNCHANGED <<status, listVars>> /\ Goto(c, "Idle")
  /\ UNCHANGED <<requests, mapVars, workerVars, groupVars>>

\* The dodge penalty that follows a player's own cancel is not kept here: a
\* penalty is one of the reasons for which Cleanup may drop a request.
EraseCancelled(c) ==
  /\ pc[c] = "EraseCancelled"
  /\ EraseMatchTicket(arg[c].target)
  /\ forgotten' = IF status[arg[c].target] = "CANCELLED" THEN forgotten
                  ELSE forgotten \cup {arg[c].target}
  /\ Goto(c, "Idle")
  /\ UNCHANGED <<requests, status, listVars, workerVars, control, started, stranded>>

-----------------------------------------------------------------------------
(* Workers.                                                                *)

\* The oldest tickets of a worker's queue that still fit into the match.
Taken(w) ==
  LET free == MatchPlayerCount - Cardinality(progressing[w]) IN
  {t \in waiting[w] : Cardinality({u \in waiting[w] : u < t}) < free}

\* Two variants with a bug: a match asks for one player more, and the
\* progressing list is cleared after every look at the queue.
IsFullBeyond(list) == Cardinality(list) > MatchPlayerCount
RestDropped(list) == {}

IsFull(list) == Cardinality(list) >= MatchPlayerCount

\* m_SendProgressingList is cleared when it has become a match.
Rest(list) == IF IsFull(list) THEN {} ELSE list

\* DoWorkerAsyncJob, under the mutex of the worker: tickets move from the queue
\* to the progressing list until it makes a match; its tickets become SEARCHING.
\* A ticket that may not ("logic error2") spoils the match: all are failed.
Collect(w) ==
  LET list == progressing[w] \cup Taken(w)
      Searching(t) == IsFull(list) /\ t \in list /\ CanChangeStatus(status[t], "SEARCHING")
      sound == \A t \in list : Searching(t) IN
  /\ work[w] = "Idle"
  /\ waiting[w] # {}
  /\ waiting' = [waiting EXCEPT ![w] = @ \ Taken(w)]
  /\ progressing' = [progressing EXCEPT ![w] = Rest(list)]
  /\ status' = [t \in Tickets |-> IF Searching(t) THEN "SEARCHING" ELSE status[t]]
  /\ matches' = IF sound THEN matches \cup {list} ELSE matches
  /\ IF IsFull(list)
     THEN /\ picked' = [picked EXCEPT ![w] = list]
          /\ work' = [work EXCEPT ![w] = IF sound THEN "Create" ELSE "OnFailed"]
     ELSE UNCHANGED <<work, picked>>
  /\ UNCHANGED <<mapVars, callerVars, groupVars>>

\* CreateMatchSession, as MatchSession models it: the tickets get the status
\* of their session and are then given up, or are failed one by one.
CreateMatchSession(w) ==
  /\ work[w] = "Create"
  /\ \/ /\ status' = [t \in Tickets |->
                        IF t \in picked[w] THEN "REQUIRES_ACCEPTANCE" ELSE status[t]]
        /\ work' = [work EXCEPT ![w] = "Expire"]
     \/ UNCHANGED status /\ work' = [work EXCEPT ![w] = "OnFailed"]
  /\ UNCHANGED <<mapVars, callerVars, listVars, matches, picked, groupVars>>

\* The worker is done with ticket t of its match.
Done(w, t, next) ==
  /\ picked' = [picked EXCEPT ![w] = @ \ {t}]
  /\ work' = [work EXCEPT ![w] = IF picked[w] = {t} THEN "Idle" ELSE next]
  /\ UNCHANGED <<callerVars, listVars, matches>>

\* A worker that fails a spoiled match itself calls its own manager.  The session
\* manager takes a ticket with a party key for one of the other manager's, and
\* this one keeps it.
Forget(t) ==
  IF t \in UNION matches /\ IsPartyTicket(t) THEN UNCHANGED mapVars ELSE EraseMatchTicket(t)

OnExpireMatchmaking(w, t) ==
  /\ work[w] = "Expire"
  /\ t \in picked[w]
  /\ Forget(t)
  /\ Done(w, t, "Expire")
  /\ UNCHANGED <<status, groupVars>>

\* OnFailedMatchmaking changes the status and erases the ticket after it.
OnFailedMatchmaking(w, t) ==
  /\ work[w] = "OnFailed"
  /\ t \in picked[w]
  /\ IF CanChangeStatus(status[t], "FAILED")
     THEN /\ status' = [status EXCEPT ![t] = "FAILED"]
          /\ work' = [work EXCEPT ![w] = "EraseFailed"]
          /\ UNCHANGED <<picked, callerVars, listVars, matches>>
     ELSE UNCHANGED status /\ Done(w, t, "OnFailed")
  /\ UNCHANGED <<mapVars, groupVars>>

EraseFailed(w, t) ==
  /\ work[w] = "EraseFailed"
  /\ t \in picked[w]
  /\ status[t] = "FAILED"
  /\ Forget(t)
  /\ Done(w, t, "OnFailed")
  /\ UNCHANGED <<status, groupVars>>

-----------------------------------------------------------------------------
(* The life of the manager.                                                *)

\* Init makes the groups and starts their threads.
Start ==
  /\ control = "Down"
  /\ started < MaxStarts
  /\ control' = "Up"
  /\ started' = started + 1
  /\ UNCHANGED <<status, mapVars, callerVars, listVars, workerVars, stranded, forgotten>>

\* Terminate clears m_IsRunning and the map of the groups.
Terminate ==
  /\ control = "Up"
  /\ control' = "Stopping"
  /\ UNCHANGED <<status, mapVars, callerVars, listVars, workerVars, started, stranded,
                 forgotten>>

Held(w) == waiting[w] \cup progressing[w]

\* The group's threads end after the job they are at, and the group is dropped.
Join ==
  /\ control = "Stopping"
  /\ \A w \in Workers : work[w] = "Idle"
  /\ control' = "Down"
  /\ waiting' = [w \in Workers |-> {}]
  /\ progressing' = [w \in Workers |-> {}]
  /\ stranded' = stranded \cup UNION {Held(w) : w \in Workers}
  /\ UNCHANGED <<status, mapVars, callerVars, workerVars, started, forgotten>>

-----------------------------------------------------------------------------
CallerStep(c) ==
  \/ Cleanup(c) \/ GetWorkerGroup(c) \/ InsertTicket(c) \/ ChangeQueued(c)
  \/ EnqueueJobRequest(c) \/ EraseRefused(c) \/ FailRequest(c)
  \/ StopMatchmaking(c) \/ GetCancelGroup(c) \/ CancelMatchTicket(c) \/ EraseCancelled(c)

WorkerStep(w) ==
  \/ Collect(w) \/ CreateMatchSession(w)
  \/ \E t \in Tickets :
       OnExpireMatchmaking(w, t) \/ OnFailedMatchmaking(w, t) \/ EraseFailed(w, t)

Next ==
  \/ \E c \in Callers, t \in Tickets : CallStart(c, t)
  \/ \E c \in Callers, p \in Players : CallStop(c, p)
  \/ \E c \in Callers : CallerStep(c)
  \/ \E w \in Workers : WorkerStep(w)
  \/ Start \/ Terminate \/ Join

Spec == Init /\ [][Next]_vars

\* Every worker keeps running, and is woken by every enqueue; Terminate ends.
Fairness == WF_vars(Join) /\ \A w \in Workers : WF_vars(WorkerStep(w))

FairSpec == Spec /\ Fairness

-----------------------------------------------------------------------------
(* Properties.                                                             *)

Calls == {"Idle", "Cleanup", "GetGroup", "Insert", "ChangeQueued", "Enqueue",
          "EraseRefused", "Fail", "Stop", "GetCancelGroup", "Cancel", "EraseCancelled"}
Works == {"Idle", "Create", "Expire", "OnFailed", "EraseFailed"}

\* Every variable has its type.
TypeOK ==
  /\ MapTypeOK
  /\ status \in [Tickets -> Statuses]
  /\ requests \subseteq Tickets
  /\ waiting \in [Workers -> SUBSET Tickets]
  /\ progressing \in [Workers -> SUBSET Tickets]
  /\ matches \subseteq SUBSET Tickets
  /\ pc \in [Callers -> Calls]
  /\ arg \in [Callers -> [request : Tickets \cup {NoTicket}, target : Tickets \cup {NoTicket},
                          group : 0 .. MaxStarts]]
  /\ work \in [Workers -> Works]
  /\ picked \in [Workers -> SUBSET Tickets]
  /\ control \in {"Down", "Up", "Stopping"}
  /\ started \in 0 .. MaxStarts
  /\ stranded \subseteq Tickets
  /\ forgotten \subseteq Tickets

\* What a worker holds is QUEUED, in one of its lists and, until Terminate takes
\* the group away, known to the manager: no cancelled ticket is left in a list, a
\* cancel can still reach every ticket that waits, and the status change for a
\* match ("logic error2") never fails.
ListsHoldQueued ==
  \A w \in Workers :
    /\ waiting[w] \cap progressing[w] = {}
    /\ \A t \in waiting[w] \cup progressing[w] :
         /\ status[t] = "QUEUED" /\ WorkerOf(t) = w
         /\ t \in ticketMap \/ control = "Stopping"

\* A QUEUED ticket is in a list of its worker unless its caller is about to
\* enqueue it, or it was in the queues of a group that Terminate has dropped:
\* nothing but the end of the manager leaves a ticket QUEUED that no worker has.
QueuedIsListed ==
  \A t \in Tickets : status[t] = "QUEUED" =>
    \/ t \in waiting[WorkerOf(t)] \cup progressing[WorkerOf(t)]
    \/ \E c \in Callers : pc[c] = "Enqueue" /\ arg[c].request = t
    \/ t \in stranded

\* No player is in a match twice, but with a ticket that a stop has erased from
\* the map and left with its worker, for want of a group: a caller that got the
\* group before Terminate then inserts the player's next ticket and enqueues it to
\* the worker that holds the first (SoloMatchmakingManager.cpp:130-135, :111-117).
\* There is no other way: not with two requests at once, and not over a restart.
NoPlayerTwice ==
  \A S \in matches : \A t, u \in S :
    t # u => PlayersOf[t] \cap PlayersOf[u] = {} \/ t \in forgotten \/ u \in forgotten

\* The queue keeps what MatchQueue promises.
Queue ==
  INSTANCE MatchQueue WITH
    state <- [t \in Tickets |->
                CASE status[t] = "None" -> "new"
                  [] status[t] = "QUEUED" -> "waiting"
                  [] status[t] = "CANCELLED" -> "cancelled"
                  [] OTHER -> IF t \in UNION matches THEN "matched" ELSE "refused"]

ImplementsQueue == Queue!Spec

\* When a worker holds enough tickets for a match, one is matched or cancelled:
\* a worker that has moved all its tickets to the progressing list and sleeps
\* has too few of them.
FullListIsServed ==
  \A w \in Workers :
    LET held == waiting[w] \cup progressing[w] IN
    Cardinality(held) >= MatchPlayerCount ~> Cardinality(held) < MatchPlayerCount

=============================================================================
