----------------------------- MODULE PartyQueue -----------------------------
(***************************************************************************)
(* CPartyMatchmakingManager and one CPartyMatchmakingWorkerGroup: the      *)
(* party tickets of one world group and zone, from the request to the      *)
(* match that is handed to the session manager.                            *)
(*                                                                         *)
(* Threads: callers (StartMatchmaking, StopMatchmaking, backfill), the     *)
(* workers of the group, and the group thread that lets more workers see a *)
(* ticket that waits long.  m_WorkerGroupMutex is held while a ticket is   *)
(* enqueued, cancelled, committed or expanded; MakeMatchmaking takes only   *)
(* the mutex of its worker, and what it picks is looked at again by the    *)
(* commit.  One action is one critical section.                            *)
(***************************************************************************)
EXTENDS TicketStatus, TicketMap, MatchCombination

CONSTANTS
  MatchPlayerCount,  \* players of a match
  PartyMax,          \* largest party of the rule
  WorkerCount,       \* workers of the group
  Callers            \* threads that call the manager

ASSUME RuleAssumption ==
  /\ Tickets \subseteq Nat
  /\ \A t \in Tickets : IsFiniteSet(PlayersOf[t])
  /\ MatchPlayerCount \in Nat \ {0}
  /\ PartyMax \in Nat \ {0}
  /\ WorkerCount \in Nat \ {0}

Workers == 0 .. WorkerCount - 1

VARIABLES
  status,    \* CMatchTicket::m_Status
  requests,  \* tickets that no caller has asked for yet
  waiting,   \* m_WaitingQueue of each worker, which m_WaitingQueueByPlayerCount
             \* and m_QueuedCountByPlayerCount sort by size and count
  level,     \* m_WorkerExpansionLevel of a ticket's request
  toExpand,  \* m_MatchmakingRequestSlotExpandTimeMap
  matches,   \* the matches committed so far
  pc,        \* what each caller does next
  arg,       \* its request, the players it still has to clean up, whether it
             \* found something to clean up, and the ticket it cancels
  work,      \* what each worker does next
  picked     \* the tickets it works on

callerVars == <<requests, pc, arg>>
queueVars == <<waiting, level, toExpand>>
workerVars == <<matches, work, picked>>
vars == <<status, ticketMap, playerIndex, requests, waiting, level, toExpand,
          matches, pc, arg, work, picked>>

NoArg == [request |-> NoTicket, todo |-> {}, cleaned |-> FALSE, target |-> NoTicket]

Init ==
  /\ status = [t \in Tickets |-> "None"]
  /\ EmptyMap
  /\ requests = Tickets
  /\ waiting = [w \in Workers |-> {}]
  /\ level = [t \in Tickets |-> 0]
  /\ toExpand = {}
  /\ matches = {}
  /\ pc = [c \in Callers |-> "Idle"]
  /\ arg = [c \in Callers |-> NoArg]
  /\ work = [w \in Workers |-> "Idle"]
  /\ picked = [w \in Workers |-> {}]

-----------------------------------------------------------------------------
(* The rule and the worker slots.                                          *)

PlayerCount(t) == Cardinality(PlayersOf[t])

FullMatches == {S \in SUBSET Tickets : MapThenSumSet(PlayerCount, S) = MatchPlayerCount}

\* m_Combination of the rule, which allows the sizes it has an entry for.
Combinations == MakeCombination(MatchPlayerCount, PartyMax)

RuleAllows(t) == PlayerCount(t) \in DOMAIN Combinations

\* The tickets are those of a combination for the party size.
Fills(S, size) ==
  \E i \in DOMAIN GetCombination(Combinations, size) :
    LET c == GetCombination(Combinations, size)[i] IN
    /\ {PlayerCount(t) : t \in S} = DOMAIN c
    /\ \A n \in DOMAIN c : Cardinality({t \in S : PlayerCount(t) = n}) = c[n]

Clamp(i) == IF i < 0 THEN 0 ELSE IF i >= WorkerCount THEN WorkerCount - 1 ELSE i

\* The workers of a request from its minimal to its maximal worker index.
BaseWorker(t) == t % WorkerCount
Slots(t, n) == Clamp(BaseWorker(t) - n) .. Clamp(BaseWorker(t) + n)

\* The worker's EnqueueJobRequest and Erase, in all of its per-size queues.
Enqueued(w, S) == waiting[w] \cup S
Erased(w, S) == waiting[w] \ S

\* A variant with a bug: tickets are taken whatever their status.
CandidatesOfAnyStatus(w) ==
  {S \in SUBSET waiting[w] :
     /\ \E t \in waiting[w] : Fills(S, PlayerCount(t))
     /\ \A t \in S, u \in waiting[w] :
          PlayerCount(u) = PlayerCount(t) /\ u < t => u \in S}

\* BuildCandidateLocked for the combinations of each party size that waits: of each
\* size in the combination the oldest queued tickets, as many as it asks for.
Candidates(w) ==
  LET queued == {t \in waiting[w] : status[t] = "QUEUED"} IN
  {S \in SUBSET queued :
     /\ \E t \in waiting[w] : Fills(S, PlayerCount(t))
     /\ \A t \in S, u \in queued :
          PlayerCount(u) = PlayerCount(t) /\ u < t => u \in S}

\* MakeMatchmakingLocked: the candidate with the oldest ticket.
BestCandidates(w) ==
  {S \in Candidates(w) : \A T \in Candidates(w) : \E t \in S : \A u \in T : t <= u}

-----------------------------------------------------------------------------
(* Callers.                                                                *)

Goto(c, call) ==
  /\ pc' = [pc EXCEPT ![c] = call]
  /\ arg' = IF call = "Idle" THEN [arg EXCEPT ![c] = NoArg] ELSE arg

Enter(c, call, a) ==
  /\ pc' = [pc EXCEPT ![c] = call]
  /\ arg' = [arg EXCEPT ![c] = a]

\* StartMatchmaking; StartMatchBackfill starts without the cleanup.
CallStart(c, t, backfill) ==
  /\ pc[c] = "Idle"
  /\ t \in requests
  /\ requests' = requests \ {t}
  /\ Enter(c, IF backfill THEN "Insert" ELSE "Cleanup",
           [NoArg EXCEPT !.request = t, !.todo = PlayersOf[t]])
  /\ UNCHANGED <<status, mapVars, queueVars, workerVars>>

\* StopMatchmaking for a player, StopMatchBackfill for a ticket: one that the
\* manager finds.
CallStop(c, t) ==
  /\ pc[c] = "Idle"
  /\ t \in ticketMap
  /\ Enter(c, "Cancel", [NoArg EXCEPT !.target = t])
  /\ UNCHANGED <<requests, status, mapVars, queueVars, workerVars>>

\* CleanupPrevMatchmaking stops the ticket of each player of the request.
CleanupPlayer(c, p) ==
  LET t == FindByPlayerKey(p) IN
  /\ pc[c] = "Cleanup"
  /\ p \in arg[c].todo
  /\ IF t # NoTicket
     THEN Enter(c, "Cancel", [arg[c] EXCEPT !.todo = @ \ {p}, !.cleaned = TRUE, !.target = t])
     ELSE Enter(c, "Cleanup", [arg[c] EXCEPT !.todo = @ \ {p}])
  /\ UNCHANGED <<requests, status, mapVars, queueVars, workerVars>>

\* A request that had something to clean up is dropped; so is one of a player
\* in an integration zone or with a dodge penalty.
EndCleanup(c) ==
  /\ pc[c] = "Cleanup"
  /\ arg[c].todo = {}
  /\ \/ ~arg[c].cleaned /\ Goto(c, "Insert")
     \/ Goto(c, "Idle")
  /\ UNCHANGED <<requests, status, mapVars, queueVars, workerVars>>

InsertTicket(c) ==
  LET t == arg[c].request IN
  /\ pc[c] = "Insert"
  /\ IF CanInsert(t)
     THEN InsertMatchTicket(t) /\ Goto(c, "Enqueue")
     ELSE UNCHANGED mapVars /\ Goto(c, "Fail")
  /\ UNCHANGED <<requests, status, queueVars, workerVars>>

\* The group's EnqueueJobRequest: the request is put into its worker's queue,
\* and then the ticket is QUEUED if its status still allows it.
EnqueueJobRequest(c) ==
  LET t == arg[c].request IN
  /\ pc[c] = "Enqueue"
  /\ IF RuleAllows(t)
     THEN /\ toExpand' = IF WorkerCount > 1 THEN toExpand \cup {t} ELSE toExpand
          /\ waiting' = [waiting EXCEPT ![BaseWorker(t)] = Enqueued(BaseWorker(t), {t})]
          /\ status' = [status EXCEPT ![t] =
                          IF CanChangeStatus(@, "QUEUED") THEN "QUEUED" ELSE @]
          /\ Goto(c, "Idle")
     ELSE UNCHANGED <<toExpand, waiting, status>> /\ Goto(c, "EraseRefused")
  /\ UNCHANGED <<requests, mapVars, level, workerVars>>

EraseRefused(c) ==
  /\ pc[c] = "EraseRefused"
  /\ EraseMatchTicket(arg[c].request)
  /\ Goto(c, "Fail")
  /\ UNCHANGED <<requests, status, queueVars, workerVars>>

\* The caller fails the ticket it could not enqueue.  (The EraseMatchTicket
\* beside it finds no ticket: it was not inserted or is erased already.)
FailRequest(c) ==
  LET t == arg[c].request IN
  /\ pc[c] = "Fail"
  /\ status' = [status EXCEPT ![t] = IF CanChangeStatus(@, "FAILED") THEN "FAILED" ELSE @]
  /\ Goto(c, "Idle")
  /\ UNCHANGED <<requests, mapVars, queueVars, workerVars>>

\* A cancel ends the call, or goes on with the cleanup it is part of.
Return(c) == Goto(c, IF arg[c].request = NoTicket THEN "Idle" ELSE "Cleanup")

\* A variant with a bug: the ticket is forgotten also if it was not cancelled.
CancelMatchTicketUnchecked(c) ==
  LET t == arg[c].target IN
  /\ pc[c] = "Cancel"
  /\ IF CanChangeStatus(status[t], "CANCELLED")
     THEN /\ status' = [status EXCEPT ![t] = "CANCELLED"]
          /\ waiting' = [w \in Workers |-> Erased(w, {t})]
     ELSE UNCHANGED <<status, waiting>>
  /\ Goto(c, "EraseCancelled")
  /\ UNCHANGED <<requests, mapVars, level, toExpand, workerVars>>

\* The group's CancelMatchTicket takes the ticket out of every worker's queue.
CancelMatchTicket(c) ==
  LET t == arg[c].target IN
  /\ pc[c] = "Cancel"
  /\ IF CanChangeStatus(status[t], "CANCELLED")
     THEN /\ status' = [status EXCEPT ![t] = "CANCELLED"]
          /\ waiting' = [w \in Workers |-> Erased(w, {t})]
          /\ Goto(c, "EraseCancelled")
     ELSE UNCHANGED <<status, waiting>> /\ Return(c)
  /\ UNCHANGED <<requests, mapVars, level, toExpand, workerVars>>

EraseCancelled(c) ==
  /\ pc[c] = "EraseCancelled"
  /\ EraseMatchTicket(arg[c].target)
  /\ Return(c)
  /\ UNCHANGED <<requests, status, queueVars, workerVars>>

-----------------------------------------------------------------------------
(* Workers.                                                                *)

\* DoWorkerAsyncJob picks a candidate under the mutex of the worker only.
MakeMatchmaking(w) ==
  /\ work[w] = "Idle"
  /\ \E S \in BestCandidates(w) : picked' = [picked EXCEPT ![w] = S]
  /\ work' = [work EXCEPT ![w] = "Commit"]
  /\ UNCHANGED <<status, mapVars, callerVars, queueVars, matches>>

\* Two variants with a bug: what was picked is not looked at again, and the
\* committed tickets leave the queue of this worker only.
CommitUnchecked(w) ==
  /\ work[w] = "Commit"
  /\ status' = [t \in Tickets |-> IF t \in picked[w] THEN "SEARCHING" ELSE status[t]]
  /\ waiting' = [v \in Workers |-> Erased(v, picked[w])]
  /\ matches' = matches \cup {picked[w]}
  /\ work' = [work EXCEPT ![w] = "Create"]
  /\ UNCHANGED <<mapVars, callerVars, level, toExpand, picked>>

CommitInOwnQueue(w) ==
  /\ work[w] = "Commit"
  /\ IF \A t \in picked[w] : status[t] = "QUEUED"
     THEN /\ status' = [t \in Tickets |-> IF t \in picked[w] THEN "SEARCHING" ELSE status[t]]
          /\ waiting' = [waiting EXCEPT ![w] = Erased(w, picked[w])]
          /\ matches' = matches \cup {picked[w]}
          /\ work' = [work EXCEPT ![w] = "Create"]
          /\ UNCHANGED picked
     ELSE /\ UNCHANGED <<status, waiting, matches>>
          /\ picked' = [picked EXCEPT ![w] = {}]
          /\ work' = [work EXCEPT ![w] = "Idle"]
  /\ UNCHANGED <<mapVars, callerVars, level, toExpand>>

\* TryCommitMatchmakingRequests: if all of them are still QUEUED they become
\* SEARCHING and leave the queues of their slots.  Every change from QUEUED is
\* made under the group mutex, so the rollback after it is never taken.
TryCommit(w) ==
  /\ work[w] = "Commit"
  /\ IF \A t \in picked[w] : status[t] = "QUEUED"
     THEN /\ status' = [t \in Tickets |-> IF t \in picked[w] THEN "SEARCHING" ELSE status[t]]
          /\ waiting' = [v \in Workers |->
                           Erased(v, {t \in picked[w] : v \in Slots(t, level[t])})]
          /\ matches' = matches \cup {picked[w]}
          /\ work' = [work EXCEPT ![w] = "Create"]
          /\ UNCHANGED picked
     ELSE /\ UNCHANGED <<status, waiting, matches>>
          /\ picked' = [picked EXCEPT ![w] = {}]
          /\ work' = [work EXCEPT ![w] = "Idle"]
  /\ UNCHANGED <<mapVars, callerVars, level, toExpand>>

\* CreateMatchSession, as MatchSession models it: the tickets get the status
\* of their session and are then given up, or are failed one by one.
CreateMatchSession(w) ==
  /\ work[w] = "Create"
  /\ \/ /\ status' = [t \in Tickets |->
                        IF t \in picked[w] THEN "REQUIRES_ACCEPTANCE" ELSE status[t]]
        /\ work' = [work EXCEPT ![w] = "Expire"]
     \/ UNCHANGED status /\ work' = [work EXCEPT ![w] = "OnFailed"]
  /\ UNCHANGED <<mapVars, callerVars, queueVars, matches, picked>>

\* The session manager calls this manager for a party ticket only.  A request of
\* one player without a party key, though this manager has it, is taken for one
\* of the other manager's, which erases nothing: the ticket stays in the map, and
\* the clean-up of the player's next request finds it.  (All failures come by the
\* session manager; what the worker fails itself after a commit is none.)
Forget(t) == IF IsPartyTicket(t) THEN EraseMatchTicket(t) ELSE UNCHANGED mapVars

\* The worker is done with ticket t of its match.
Done(w, t, next) ==
  /\ Forget(t)
  /\ picked' = [picked EXCEPT ![w] = @ \ {t}]
  /\ work' = [work EXCEPT ![w] = IF picked[w] = {t} THEN "Idle" ELSE next]
  /\ UNCHANGED <<callerVars, queueVars, matches>>

OnExpireMatchmaking(w, t) ==
  /\ work[w] = "Expire"
  /\ t \in picked[w]
  /\ Done(w, t, "Expire")
  /\ UNCHANGED status

\* OnFailedMatchmaking changes the status and erases the ticket after it.
OnFailedMatchmaking(w, t) ==
  /\ work[w] = "OnFailed"
  /\ t \in picked[w]
  /\ status' = [status EXCEPT ![t] = "FAILED"]
  /\ work' = [work EXCEPT ![w] = "EraseFailed"]
  /\ UNCHANGED <<mapVars, callerVars, queueVars, matches, picked>>

EraseFailed(w, t) ==
  /\ work[w] = "EraseFailed"
  /\ t \in picked[w]
  /\ status[t] = "FAILED"
  /\ Done(w, t, "OnFailed")
  /\ UNCHANGED status

-----------------------------------------------------------------------------
(* The group thread.                                                       *)

\* A variant with a bug: a request is expanded again whatever it reaches.
ExpandForever(due) ==
  LET queued == {t \in due : status[t] = "QUEUED"} IN
  /\ due \subseteq toExpand /\ due # {}
  /\ waiting' = [w \in Workers |-> Enqueued(w, queued)]
  /\ level' = [t \in Tickets |-> IF t \in queued THEN level[t] + 1 ELSE level[t]]
  /\ toExpand' = (toExpand \ due) \cup queued
  /\ UNCHANGED <<status, mapVars, callerVars, workerVars>>

\* ExpandMatchmakingWorkerSlot for the requests that have waited long enough:
\* those still QUEUED reach one worker further to each side.
Expand(due) ==
  LET queued == {t \in due : status[t] = "QUEUED"} IN
  /\ due \subseteq toExpand /\ due # {}
  /\ waiting' = [w \in Workers |->
                   Enqueued(w, {t \in queued :
                     w \in {Clamp(BaseWorker(t) - (level[t] + 1)),
                            Clamp(BaseWorker(t) + (level[t] + 1))}})]
  /\ level' = [t \in Tickets |-> IF t \in queued THEN level[t] + 1 ELSE level[t]]
  /\ toExpand' = (toExpand \ due) \cup {t \in queued : Slots(t, level[t] + 1) # Workers}
  /\ UNCHANGED <<status, mapVars, callerVars, workerVars>>

-----------------------------------------------------------------------------
CallerStep(c) ==
  \/ \E p \in Players : CleanupPlayer(c, p)
  \/ EndCleanup(c) \/ InsertTicket(c) \/ EnqueueJobRequest(c) \/ EraseRefused(c)
  \/ FailRequest(c) \/ CancelMatchTicket(c) \/ EraseCancelled(c)

WorkerStep(w) ==
  \/ MakeMatchmaking(w) \/ TryCommit(w) \/ CreateMatchSession(w)
  \/ \E t \in Tickets :
       OnExpireMatchmaking(w, t) \/ OnFailedMatchmaking(w, t) \/ EraseFailed(w, t)

Next ==
  \/ \E c \in Callers, t \in Tickets, backfill \in BOOLEAN : CallStart(c, t, backfill)
  \/ \E c \in Callers, t \in Tickets : CallStop(c, t)
  \/ \E c \in Callers : CallerStep(c)
  \/ \E w \in Workers : WorkerStep(w)
  \/ \E due \in SUBSET toExpand : Expand(due)

Spec == Init /\ [][Next]_vars

\* Every thread of the group keeps running: a worker looks for a candidate as
\* long as its queue is not empty, and is woken by every enqueue.
Fairness == \A w \in Workers : WF_vars(WorkerStep(w))

FairSpec == Spec /\ Fairness

-----------------------------------------------------------------------------
(* Properties.                                                             *)

Calls == {"Idle", "Cleanup", "Insert", "Enqueue", "EraseRefused", "Fail", "Cancel",
          "EraseCancelled"}
Works == {"Idle", "Commit", "Create", "Expire", "OnFailed", "EraseFailed"}

\* Every variable has its type.  A request is not expanded further once it
\* reaches every worker.
TypeOK ==
  /\ MapTypeOK
  /\ status \in [Tickets -> Statuses]
  /\ requests \subseteq Tickets
  /\ waiting \in [Workers -> SUBSET Tickets]
  /\ level \in [Tickets -> Workers]
  /\ toExpand \subseteq Tickets
  /\ matches \subseteq SUBSET Tickets
  /\ pc \in [Callers -> Calls]
  /\ arg \in [Callers -> [request : Tickets \cup {NoTicket}, todo : SUBSET Players,
                          cleaned : BOOLEAN, target : Tickets \cup {NoTicket}]]
  /\ work \in [Workers -> Works]
  /\ picked \in [Workers -> SUBSET Tickets]

\* No ticket is lost: one that is QUEUED can be cancelled through the manager
\* and is in the queue of every worker of its slots, so that it can be matched;
\* one that is committed has left the queues of all workers.
QueuedIsReachable ==
  \A t \in Tickets :
    /\ status[t] = "QUEUED" =>
         t \in ticketMap /\ \A w \in Slots(t, level[t]) : t \in waiting[w]
    /\ status[t] = "SEARCHING" => \A w \in Workers : t \notin waiting[w]

\* The rule has every combination, and a worker overlooks no match: if some of its
\* queued tickets fill one, MakeMatchmaking finds a candidate, whatever tickets
\* of other sizes or left over from a cancel are in its queue.
FullMatchIsFound ==
  /\ CombinationsAreAll
  /\ \A w \in Workers :
       (\E S \in SUBSET {t \in waiting[w] : status[t] = "QUEUED" /\ PlayerCount(t) <= PartyMax} :
          S \in FullMatches)
       => Candidates(w) # {}

\* A player is in at most one ticket that is queued or being matched, so no
\* match has a player twice, although a request is cleaned up, inserted and
\* enqueued in separate critical sections.
OnePlacePerPlayer ==
  \A t, u \in Tickets :
    {status[t], status[u]} \subseteq {"QUEUED", "SEARCHING"} /\ t # u =>
      PlayersOf[t] \cap PlayersOf[u] = {}

\* A match has as many different players as the rule asks for: no two of its
\* tickets share a player, although a match outlives the tickets it was made of
\* and their players ask again.
MatchHasItsPlayers ==
  \A S \in matches : Cardinality(UNION {PlayersOf[t] : t \in S}) = MatchPlayerCount

\* Every change of a ticket's status is one the table allows, also those a worker
\* makes while it handles its match and whose refusal it takes for an error: they
\* are never refused, and a ticket that is failed, cancelled or timed out stays so.
StatusFollowsTable ==
  [][\A t \in Tickets :
       status'[t] # status[t] => CanChangeStatus(status[t], status'[t])]_vars

\* The queue keeps what MatchQueue promises: every match is a full one made of
\* waiting tickets, also when a ticket is cancelled or matched by another
\* worker after it was picked.
Queue ==
  INSTANCE MatchQueue WITH
    state <- [t \in Tickets |->
                CASE status[t] = "None" -> "new"
                  [] status[t] = "QUEUED" -> "waiting"
                  [] status[t] = "CANCELLED" -> "cancelled"
                  [] OTHER -> IF t \in UNION matches THEN "matched" ELSE "refused"]

ImplementsQueue == Queue!Spec

\* When the queued tickets of a worker can fill a match, one of them is matched
\* or cancelled eventually; a ticket left over from a cancel does not block it.
CandidatesAreServed == \A w \in Workers : Candidates(w) # {} ~> Candidates(w) = {}

-----------------------------------------------------------------------------
(* What the documentation says and the code does not do.                   *)

\* README: a cancelled ticket does not stay in a worker's queue.
CancelledLeavesQueue ==
  \A t \in Tickets : status[t] = "CANCELLED" => \A w \in Workers : t \notin waiting[w]

=============================================================================
