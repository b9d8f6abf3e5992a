-------------------------- MODULE SoloQueue_proofs --------------------------
(***************************************************************************)
(* Proofs about SoloQueue for every set of players, tickets and callers,   *)
(* any number of workers and of starts: its types, what its lists hold,    *)
(* and that it implements MatchQueue.                                      *)
(***************************************************************************)
EXTENDS SoloQueue, QueueLemmas

-----------------------------------------------------------------------------
(* The inductive invariant.                                                *)

RequestCalls == {"Cleanup", "GetGroup", "Insert", "ChangeQueued", "Enqueue", "EraseRefused",
                 "Fail"}
EarlyCalls == {"Cleanup", "GetGroup", "Insert"}
TargetCalls == {"Stop", "GetCancelGroup", "Cancel", "EraseCancelled"}

\* A ticket is asked for by one caller; how far that caller has come tells the
\* status the ticket may have, and the caller's cancel has a ticket.
RequestsOK ==
  /\ \A t \in requests : t \notin ticketMap /\ status[t] = "None"
  /\ \A c \in Callers :
       /\ pc[c] \in RequestCalls => arg[c].request \in Tickets \ requests
       /\ pc[c] \in TargetCalls => arg[c].target \in Tickets \ requests
       /\ pc[c] \in EarlyCalls => arg[c].request \notin ticketMap
       /\ pc[c] \in EarlyCalls => status[arg[c].request] = "None"
       /\ pc[c] \in {"ChangeQueued", "Fail"} =>
            status[arg[c].request] \in {"None", "CANCELLED"}
       /\ pc[c] = "Enqueue" => status[arg[c].request] \in {"QUEUED", "CANCELLED"}
       /\ pc[c] = "EraseRefused" => status[arg[c].request] = "CANCELLED"
       /\ arg[c].group <= started
  /\ \A c, d \in Callers :
       /\ pc[c] \in RequestCalls /\ pc[d] \in RequestCalls /\ c # d =>
            arg[c].request # arg[d].request
       /\ pc[c] \in EarlyCalls /\ pc[d] \in TargetCalls => arg[c].request # arg[d].target

\* What a worker holds is QUEUED and no caller is asking for it any more, and it
\* has not enough for a match in its progressing list.
ListsOK ==
  /\ \A w \in Workers :
       /\ waiting[w] \cap progressing[w] = {}
       /\ IsFiniteSet(waiting[w]) /\ IsFiniteSet(progressing[w])
       /\ Cardinality(progressing[w]) < MatchPlayerCount
       /\ control = "Down" => Held(w) = {}
       /\ \A t \in Held(w) : status[t] = "QUEUED" /\ WorkerOf(t) = w
       /\ \A t \in Held(w), c \in Callers :
            pc[c] \in RequestCalls => arg[c].request # t

\* The ticket is or will be in a list of a manager that is up.
Live(t) ==
  /\ control = "Up"
  /\ \/ \E w \in Workers : t \in Held(w)
     \/ \E c \in Callers : /\ pc[c] \in {"ChangeQueued", "Enqueue"}
                           /\ arg[c].request = t /\ arg[c].group = started

\* Such a ticket can be found until it is cancelled.
LiveOK ==
  /\ \A t \in Tickets :
       Live(t) /\ status[t] \in {"None", "QUEUED"} => t \in ticketMap
  /\ \A c \in Callers :
       pc[c] = "EraseCancelled" /\ Live(arg[c].target) => status[arg[c].target] = "CANCELLED"

\* The tickets of a match do not wait any more, and a worker handles only those.
MatchesOK ==
  /\ \A t \in UNION matches : status[t] \notin {"None", "QUEUED", "CANCELLED"}
  /\ \A w \in Workers : picked[w] \subseteq UNION matches

TypeInv == TypeOK /\ MapOK

IInv == TypeInv /\ RequestsOK /\ ListsOK /\ LiveOK /\ MatchesOK /\ QueuedIsListed

LEMMA Changes ==
  ASSUME NEW s \in Statuses
  PROVE  /\ CanChangeStatus(s, "QUEUED") <=> s = "None"
         /\ CanChangeStatus(s, "CANCELLED") <=> s \in {"None", "QUEUED"}
         /\ CanChangeStatus(s, "SEARCHING") <=> s = "QUEUED"
BY DEF CanChangeStatus, NextStatuses, Statuses

LEMMA WorkerOfType == \A t \in Tickets : WorkerOf(t) \in Workers
BY SoloAssumption DEF WorkerOf, Workers

LEMMA InitOK == Init => IInv
<1> SUFFICES ASSUME Init PROVE IInv
  OBVIOUS
<1>1. TypeInv
  BY EmptyMapOK, SoloAssumption
  DEF Init, TypeInv, MapOK, TypeOK, NoArg, Statuses, Calls, Works
<1>2. RequestsOK
  BY SoloAssumption DEF Init, RequestsOK, EmptyMap, NoArg, RequestCalls, EarlyCalls, TargetCalls
<1>3. ListsOK
  BY SoloAssumption, FS_EmptySet DEF Init, ListsOK, Held, RequestCalls
<1>4. LiveOK /\ MatchesOK /\ QueuedIsListed
  BY WorkerOfType DEF Init, LiveOK, Live, MatchesOK, QueuedIsListed
<1> QED BY <1>1, <1>2, <1>3, <1>4 DEF IInv

-----------------------------------------------------------------------------
(* Callers.                                                                *)

\* Goto moves one caller and keeps its argument unless it is done.
LEMMA GotoStep ==
  ASSUME TypeInv, NEW c \in Callers, NEW call \in Calls, Goto(c, call)
  PROVE  /\ pc' \in [Callers -> Calls] /\ pc'[c] = call
         /\ arg' \in [Callers -> [request : Tickets \cup {NoTicket},
                                  target : Tickets \cup {NoTicket}, group : 0 .. MaxStarts]]
         /\ arg'[c] = IF call = "Idle" THEN NoArg ELSE arg[c]
         /\ \A d \in Callers \ {c} : pc'[d] = pc[d] /\ arg'[d] = arg[d]
BY SoloAssumption DEF Goto, TypeInv, TypeOK, NoArg

LEMMA CallStartOK ==
  ASSUME IInv, NEW c \in Callers, NEW t \in Tickets, CallStart(c, t)
  PROVE  IInv'
<1> USE DEF CallStart, mapVars, listVars, workerVars, groupVars
<1>0. MapOK'
  BY UnchangedMap DEF IInv, TypeInv
<1>1. TypeInv'
  BY <1>0 DEF IInv, TypeInv, TypeOK, MapOK, Calls
<1>2. RequestsOK'
  BY DEF IInv, TypeInv, TypeOK, RequestsOK, RequestCalls, EarlyCalls, TargetCalls
<1>3. ListsOK'
  BY DEF IInv, TypeInv, TypeOK, RequestsOK, ListsOK, Held, RequestCalls
<1>4. LiveOK'
  BY DEF IInv, TypeInv, TypeOK, LiveOK, Live, Held
<1>5. MatchesOK' /\ QueuedIsListed'
  BY DEF IInv, TypeInv, TypeOK, MatchesOK, QueuedIsListed
<1> QED BY <1>1, <1>2, <1>3, <1>4, <1>5 DEF IInv

LEMMA CallStopOK ==
  ASSUME IInv, NEW c \in Callers, NEW p \in Players, CallStop(c, p)
  PROVE  IInv'
<1> USE DEF CallStop, mapVars, listVars, workerVars, groupVars
<1>0. FindByPlayerKey(p) \in ticketMap /\ FindByPlayerKey(p) \in Tickets \ requests
  BY FoundTicket DEF IInv, TypeInv, TypeOK, MapTypeOK, RequestsOK
<1>1. TypeInv'
  BY <1>0, UnchangedMap, GotoStep
  DEF IInv, TypeInv, TypeOK, MapOK, MapTypeOK, Calls, Statuses
<1>2. RequestsOK'
  BY <1>0, Changes
  DEF Goto, NoArg, IInv, TypeInv, TypeOK, RequestsOK, RequestCalls, EarlyCalls, TargetCalls
<1>3. ListsOK'
  BY <1>0, Changes
  DEF Goto, NoArg, IInv, TypeInv, TypeOK, RequestsOK, ListsOK, Held, RequestCalls
<1>4. LiveOK'
  BY <1>0, Changes
  DEF Goto, NoArg, IInv, TypeInv, TypeOK, RequestsOK, ListsOK, LiveOK, Live, Held, RequestCalls,
      EarlyCalls, TargetCalls
<1>5. MatchesOK' /\ QueuedIsListed'
  BY <1>0, Changes
  DEF Goto, NoArg, IInv, TypeInv, TypeOK, RequestsOK, MatchesOK, QueuedIsListed, RequestCalls
<1> QED BY <1>1, <1>2, <1>3, <1>4, <1>5 DEF IInv

LEMMA CleanupOK ==
  ASSUME IInv, NEW c \in Callers, Cleanup(c)
  PROVE  IInv'
<1> USE DEF mapVars, listVars, workerVars, groupVars
<1>0. arg[c].request \in Tickets \ requests /\ pc[c] = "Cleanup"
  BY DEF Cleanup, IInv, RequestsOK, RequestCalls
<1>1. PICK p \in Players :
        IF FindByPlayerKey(p) # NoTicket
        THEN /\ pc' = [pc EXCEPT ![c] = "Stop"]
             /\ arg' = [arg EXCEPT ![c].target = FindByPlayerKey(p)]
        ELSE Goto(c, "GetGroup") \/ Goto(c, "Idle")
  BY <1>0, TicketsAssumption DEF Cleanup
<1>2. UNCHANGED <<requests, status, mapVars, listVars, workerVars, groupVars>>
  BY DEF Cleanup
<1>3. CASE FindByPlayerKey(p) # NoTicket
  <2>0. /\ FindByPlayerKey(p) \in ticketMap /\ FindByPlayerKey(p) \in Tickets \ requests
        /\ pc' = [pc EXCEPT ![c] = "Stop"]
        /\ arg' = [arg EXCEPT ![c].target = FindByPlayerKey(p)]
    BY <1>1, <1>3, FoundTicket DEF IInv, TypeInv, TypeOK, MapTypeOK, RequestsOK
  <2>a. MapOK'
    BY <1>2, UnchangedMap DEF IInv, TypeInv
  <2>b. /\ pc' \in [Callers -> Calls]
        /\ arg' \in [Callers -> [request : Tickets \cup {NoTicket},
                                 target : Tickets \cup {NoTicket}, group : 0 .. MaxStarts]]
    BY <2>0 DEF IInv, TypeInv, TypeOK, Calls
  <2>1. TypeInv'
    BY <1>2, <2>a, <2>b DEF IInv, TypeInv, TypeOK, MapOK
  <2>2. RequestsOK'
    BY <1>0, <1>2, <2>0
    DEF IInv, TypeInv, TypeOK, RequestsOK, RequestCalls, EarlyCalls, TargetCalls
  <2>3. ListsOK'
    BY <1>2, <2>0 DEF IInv, TypeInv, TypeOK, ListsOK, Held, RequestCalls
  <2>4. LiveOK'
    BY <1>0, <1>2, <2>0 DEF IInv, TypeInv, TypeOK, LiveOK, Live, Held
  <2>5. MatchesOK' /\ QueuedIsListed'
    BY <1>0, <1>2, <2>0 DEF IInv, TypeInv, TypeOK, MatchesOK, QueuedIsListed
  <2> QED BY <2>1, <2>2, <2>3, <2>4, <2>5 DEF IInv
<1>4. ASSUME NEW call \in {"GetGroup", "Idle"}, Goto(c, call)
      PROVE  IInv'
  <2>1. TypeInv'
    BY <1>2, <1>4, UnchangedMap, GotoStep DEF IInv, TypeInv, TypeOK, MapOK, MapTypeOK, Calls
  <2>2. RequestsOK'
    BY <1>0, <1>2, <1>4
    DEF Goto, NoArg, IInv, TypeInv, TypeOK, RequestsOK, RequestCalls, EarlyCalls, TargetCalls
  <2>3. ListsOK'
    BY <1>0, <1>2, <1>4
    DEF Goto, NoArg, IInv, TypeInv, TypeOK, ListsOK, Held, RequestCalls
  <2>4. LiveOK'
    BY <1>0, <1>2, <1>4 DEF Goto, NoArg, IInv, TypeInv, TypeOK, LiveOK, Live, Held
  <2>5. MatchesOK' /\ QueuedIsListed'
    BY <1>0, <1>2, <1>4 DEF Goto, NoArg, IInv, TypeInv, TypeOK, MatchesOK, QueuedIsListed
  <2> QED BY <2>1, <2>2, <2>3, <2>4, <2>5 DEF IInv
<1> QED BY <1>1, <1>3, <1>4

LEMMA GetWorkerGroupOK ==
  ASSUME IInv, NEW c \in Callers, GetWorkerGroup(c)
  PROVE  IInv'
<1> USE DEF mapVars, listVars, workerVars, groupVars
<1>0. /\ arg[c].request \in Tickets \ requests /\ pc[c] = "GetGroup"
      /\ status[arg[c].request] = "None"
      /\ UNCHANGED <<requests, status, mapVars, listVars, workerVars, groupVars>>
  BY DEF GetWorkerGroup, IInv, RequestsOK, RequestCalls, EarlyCalls
<1>1. PICK call \in {"Insert", "Fail"} :
        /\ pc' = [pc EXCEPT ![c] = call]
        /\ arg' \in {arg, [arg EXCEPT ![c].group = started]}
  BY DEF GetWorkerGroup, Goto
<1>2. TypeInv'
  BY <1>0, <1>1, UnchangedMap, SoloAssumption
  DEF IInv, TypeInv, TypeOK, MapOK, MapTypeOK, Calls
<1>3. RequestsOK'
  BY <1>0, <1>1, SoloAssumption
  DEF IInv, TypeInv, TypeOK, RequestsOK, RequestCalls, EarlyCalls, TargetCalls
<1>4. ListsOK'
  BY <1>0, <1>1 DEF IInv, TypeInv, TypeOK, ListsOK, Held, RequestCalls
<1>5. LiveOK'
  BY <1>0, <1>1 DEF IInv, TypeInv, TypeOK, LiveOK, Live, Held
<1>6. MatchesOK' /\ QueuedIsListed'
  BY <1>0, <1>1 DEF IInv, TypeInv, TypeOK, MatchesOK, QueuedIsListed
<1> QED BY <1>2, <1>3, <1>4, <1>5, <1>6 DEF IInv

LEMMA InsertTicketOK ==
  ASSUME IInv, NEW c \in Callers, InsertTicket(c)
  PROVE  IInv'
<1> USE DEF mapVars, listVars, workerVars, groupVars
<1> DEFINE t == arg[c].request
<1>0. /\ t \in Tickets \ requests /\ pc[c] = "Insert"
      /\ t \notin ticketMap /\ status[t] = "None"
      /\ UNCHANGED <<requests, status, listVars, workerVars, groupVars>>
  BY DEF InsertTicket, IInv, RequestsOK, RequestCalls, EarlyCalls
<1>1. CASE CanInsert(t)
  <2>0. /\ MapOK' /\ ticketMap' = ticketMap \cup {t}
        /\ pc' = [pc EXCEPT ![c] = "ChangeQueued"] /\ arg' = arg
    BY <1>0, <1>1, InsertKeepsMap DEF InsertTicket, InsertMatchTicket, Goto, IInv, TypeInv
  <2>1. TypeInv'
    BY <1>0, <2>0, SoloAssumption DEF IInv, TypeInv, TypeOK, MapOK, Calls
  <2>2. RequestsOK'
    BY <1>0, <2>0
    DEF IInv, TypeInv, TypeOK, RequestsOK, RequestCalls, EarlyCalls, TargetCalls
  <2>3. ListsOK'
    BY <1>0, <2>0 DEF IInv, TypeInv, TypeOK, ListsOK, Held, RequestCalls
  <2>4. \A u \in Tickets : Live(u)' => Live(u) \/ u = t
    BY <1>0, <2>0 DEF IInv, TypeInv, TypeOK, Live, Held
  <2>5. \A d \in Callers : pc'[d] = "EraseCancelled" =>
          pc[d] = "EraseCancelled" /\ arg'[d].target = arg[d].target /\ arg[d].target # t
                                   /\ arg[d].target \in Tickets
    BY <1>0, <2>0
    DEF IInv, TypeInv, TypeOK, RequestsOK, EarlyCalls, TargetCalls
  <2>6. LiveOK'
    BY <1>0, <2>0, <2>4, <2>5 DEF IInv, LiveOK
  <2>7. MatchesOK' /\ QueuedIsListed'
    BY <1>0, <2>0 DEF IInv, TypeInv, TypeOK, MatchesOK, QueuedIsListed
  <2> QED BY <2>1, <2>2, <2>3, <2>6, <2>7, <2>0 DEF IInv
<1>2. CASE Goto(c, "Fail") /\ UNCHANGED mapVars
  <2>1. TypeInv'
    BY <1>0, <1>2, UnchangedMap, GotoStep DEF IInv, TypeInv, TypeOK, MapOK, MapTypeOK, Calls
  <2>2. RequestsOK'
    BY <1>0, <1>2
    DEF Goto, IInv, TypeInv, TypeOK, RequestsOK, RequestCalls, EarlyCalls, TargetCalls
  <2>3. ListsOK'
    BY <1>0, <1>2 DEF Goto, IInv, TypeInv, TypeOK, ListsOK, Held, RequestCalls
  <2>4. LiveOK'
    BY <1>0, <1>2 DEF Goto, IInv, TypeInv, TypeOK, LiveOK, Live, Held
  <2>5. MatchesOK' /\ QueuedIsListed'
    BY <1>0, <1>2 DEF Goto, IInv, TypeInv, TypeOK, MatchesOK, QueuedIsListed
  <2> QED BY <2>1, <2>2, <2>3, <2>4, <2>5 DEF IInv
<1> QED BY <1>1, <1>2 DEF InsertTicket

LEMMA ChangeQueuedOK ==
  ASSUME IInv, NEW c \in Callers, ChangeQueued(c)
  PROVE  IInv'
<1> USE DEF ChangeQueued, mapVars, listVars, workerVars, groupVars
<1>0. arg[c].request \in Tickets
  BY DEF IInv, RequestsOK, RequestCalls
<1>1. TypeInv'
  BY <1>0, UnchangedMap, GotoStep
  DEF IInv, TypeInv, TypeOK, MapOK, MapTypeOK, Calls, Statuses
<1>2. RequestsOK'
  BY <1>0, Changes
  DEF Goto, NoArg, IInv, TypeInv, TypeOK, RequestsOK, RequestCalls, EarlyCalls, TargetCalls
<1>3. ListsOK'
  BY <1>0, Changes
  DEF Goto, NoArg, IInv, TypeInv, TypeOK, RequestsOK, ListsOK, Held, RequestCalls
<1>4. LiveOK'
  <2>1. \A u \in Tickets : Live(u)' => Live(u)
    <3>1. \A d \in Callers : pc'[d] \in {"ChangeQueued", "Enqueue"} =>
            pc[d] \in {"ChangeQueued", "Enqueue"} /\ arg'[d] = arg[d]
      BY DEF Goto, IInv, TypeInv, TypeOK
    <3>2. UNCHANGED <<control, started>> /\ \A w \in Workers : Held(w)' = Held(w)
      BY DEF Held
    <3> QED BY <3>1, <3>2, Zenon DEF Live
  <2>2. \A u \in Tickets : status'[u] # status[u] =>
          status[u] = "None" /\ status'[u] = "QUEUED"
    BY <1>0, Changes DEF IInv, TypeInv, TypeOK
  <2>3. /\ UNCHANGED ticketMap
        /\ \A d \in Callers : pc'[d] = "EraseCancelled" =>
             pc[d] = "EraseCancelled" /\ arg'[d] = arg[d] /\ arg[d].target \in Tickets
    BY DEF Goto, IInv, TypeInv, TypeOK, RequestsOK, TargetCalls
  <2> QED BY <2>1, <2>2, <2>3 DEF IInv, LiveOK
<1>5. MatchesOK' /\ QueuedIsListed'
  BY <1>0, Changes
  DEF Goto, NoArg, IInv, TypeInv, TypeOK, RequestsOK, MatchesOK, QueuedIsListed, RequestCalls
<1> QED BY <1>1, <1>2, <1>3, <1>4, <1>5 DEF IInv

LEMMA EnqueueJobRequestOK ==
  ASSUME IInv, NEW c \in Callers, EnqueueJobRequest(c)
  PROVE  IInv'
<1> USE DEF mapVars, listVars, workerVars
<1> DEFINE t == arg[c].request
           w == WorkerOf(t)
<1>0. /\ t \in Tickets \ requests /\ pc[c] = "Enqueue" /\ w \in Workers
      /\ \A v \in Workers : t \notin Held(v)
      /\ UNCHANGED <<requests, status, mapVars, progressing, workerVars, control, started,
                     forgotten>>
  BY WorkerOfType DEF EnqueueJobRequest, IInv, RequestsOK, ListsOK, RequestCalls
<1>1. CASE status[t] = "QUEUED" /\ HasQueues(c)
  <2>0. /\ Goto(c, "Idle") /\ UNCHANGED stranded
        /\ waiting' = [waiting EXCEPT ![w] = @ \cup {t}]
        /\ control # "Down" /\ arg[c].group = started
    BY <1>1 DEF EnqueueJobRequest, HasQueues
  <2>1. TypeInv'
    BY <1>0, <2>0, UnchangedMap, GotoStep DEF IInv, TypeInv, TypeOK, MapOK, MapTypeOK, Calls
  <2>2. RequestsOK'
    BY <1>0, <2>0, SoloAssumption
    DEF Goto, NoArg, IInv, TypeInv, TypeOK, RequestsOK, RequestCalls, EarlyCalls, TargetCalls
  <2>3. \A v \in Workers : Held(v)' = IF v = w THEN Held(v) \cup {t} ELSE Held(v)
    BY <1>0, <2>0 DEF Held, IInv, TypeInv, TypeOK
  <2>4. \A v \in Workers : /\ waiting'[v] \cap progressing'[v] = {}
                           /\ IsFiniteSet(waiting'[v])
    BY <1>0, <2>0, FS_AddElement DEF Held, IInv, TypeInv, TypeOK, ListsOK
  <2>5. ListsOK'
    <3>1. ASSUME NEW v \in Workers, NEW u \in Held(v)'
          PROVE  /\ status'[u] = "QUEUED" /\ WorkerOf(u) = v
                 /\ \A d \in Callers : pc'[d] \in RequestCalls => arg'[d].request # u
      <4>1. CASE u = t
        BY <1>0, <1>1, <2>0, <2>3, <3>1, <4>1
        DEF Goto, NoArg, IInv, TypeInv, TypeOK, ListsOK, RequestsOK, RequestCalls
      <4>2. CASE u # t
        BY <1>0, <2>0, <2>3, <3>1, <4>2
        DEF Goto, NoArg, IInv, TypeInv, TypeOK, ListsOK, RequestCalls
      <4> QED BY <4>1, <4>2
    <3>2. \A v \in Workers : progressing'[v] = progressing[v] /\ control' = control
      BY <1>0
    <3>3. \A v \in Workers : control' # "Down"
      BY <1>0, <2>0
    <3> QED BY <2>4, <3>1, <3>2, <3>3 DEF IInv, ListsOK
  <2>6. \A u \in Tickets : Live(u)' => Live(u)
    BY <1>0, <2>0, <2>3 DEF Goto, NoArg, IInv, TypeInv, TypeOK, Live
  <2>7. \A d \in Callers : pc'[d] = "EraseCancelled" =>
          pc[d] = "EraseCancelled" /\ arg'[d] = arg[d] /\ arg[d].target \in Tickets
    BY <1>0, <2>0 DEF Goto, IInv, TypeInv, TypeOK, RequestsOK, TargetCalls
  <2>8. LiveOK'
    BY <1>0, <2>6, <2>7 DEF IInv, LiveOK
  <2>9. MatchesOK' /\ QueuedIsListed'
    BY <1>0, <2>0 DEF Goto, NoArg, IInv, TypeInv, TypeOK, MatchesOK, QueuedIsListed, Held
  <2> QED BY <2>1, <2>2, <2>5, <2>8, <2>9 DEF IInv
<1>2. ASSUME NEW call \in {"Idle", "EraseRefused"}, Goto(c, call), UNCHANGED waiting,
             \/ status[t] # "QUEUED" /\ call = "EraseRefused" /\ UNCHANGED stranded
             \/ call = "Idle" /\ stranded' = stranded \cup {t}
      PROVE  IInv'
  <2>1. TypeInv'
    BY <1>0, <1>2, UnchangedMap, GotoStep DEF IInv, TypeInv, TypeOK, MapOK, MapTypeOK, Calls
  <2>2. RequestsOK'
    BY <1>0, <1>2, SoloAssumption
    DEF Goto, NoArg, IInv, TypeInv, TypeOK, RequestsOK, RequestCalls, EarlyCalls, TargetCalls
  <2>3. ListsOK'
    BY <1>0, <1>2 DEF Goto, NoArg, IInv, TypeInv, TypeOK, ListsOK, Held, RequestCalls
  <2>4. LiveOK'
    BY <1>0, <1>2
    DEF Goto, NoArg, IInv, TypeInv, TypeOK, RequestsOK, LiveOK, Live, Held, TargetCalls
  <2>5. MatchesOK' /\ QueuedIsListed'
    BY <1>0, <1>2 DEF Goto, NoArg, IInv, TypeInv, TypeOK, MatchesOK, QueuedIsListed
  <2> QED BY <2>1, <2>2, <2>3, <2>4, <2>5 DEF IInv
<1>3. CASE status[t] = "QUEUED" /\ ~HasQueues(c)
  <2>1. Goto(c, "Idle") /\ stranded' = stranded \cup {t}
    BY <1>3 DEF EnqueueJobRequest
  <2>2. waiting' = waiting
    BY <1>0, <1>3 DEF EnqueueJobRequest, IInv, TypeInv, TypeOK
  <2> QED BY <1>2, <2>1, <2>2
<1>4. CASE status[t] # "QUEUED"
  BY <1>2, <1>4 DEF EnqueueJobRequest
<1> QED BY <1>1, <1>3, <1>4

LEMMA EraseRefusedOK ==
  ASSUME IInv, NEW c \in Callers, EraseRefused(c)
  PROVE  IInv'
<1> USE DEF EraseRefused, mapVars, listVars, workerVars, groupVars
<1>0. arg[c].request \in Tickets
  BY DEF IInv, RequestsOK, RequestCalls
<1>1. TypeInv'
  BY <1>0, EraseKeepsMap, UnchangedMap, GotoStep
  DEF IInv, TypeInv, TypeOK, MapOK, MapTypeOK, Calls, Statuses
<1>2. RequestsOK'
  BY <1>0, EraseKeepsMap, Changes
  DEF Goto, NoArg, IInv, TypeInv, TypeOK, RequestsOK, RequestCalls, EarlyCalls, TargetCalls
<1>3. ListsOK'
  BY <1>0, EraseKeepsMap, Changes
  DEF Goto, NoArg, IInv, TypeInv, TypeOK, RequestsOK, ListsOK, Held, RequestCalls
<1>4. LiveOK'
  BY <1>0, EraseKeepsMap, Changes
  DEF Goto, NoArg, IInv, TypeInv, TypeOK, RequestsOK, ListsOK, LiveOK, Live, Held, RequestCalls,
      EarlyCalls, TargetCalls
<1>5. MatchesOK' /\ QueuedIsListed'
  BY <1>0, EraseKeepsMap, Changes
  DEF Goto, NoArg, IInv, TypeInv, TypeOK, RequestsOK, MatchesOK, QueuedIsListed, RequestCalls
<1> QED BY <1>1, <1>2, <1>3, <1>4, <1>5 DEF IInv

LEMMA FailRequestOK ==
  ASSUME IInv, NEW c \in Callers, FailRequest(c)
  PROVE  IInv'
<1> USE DEF FailRequest, mapVars, listVars, workerVars, groupVars
<1>0. arg[c].request \in Tickets
  BY DEF IInv, RequestsOK, RequestCalls
<1>1. TypeInv'
  BY <1>0, UnchangedMap, GotoStep
  DEF IInv, TypeInv, TypeOK, MapOK, MapTypeOK, Calls, Statuses
<1>2. RequestsOK'
  BY <1>0, Changes
  DEF Goto, NoArg, IInv, TypeInv, TypeOK, RequestsOK, RequestCalls, EarlyCalls, TargetCalls
<1>3. ListsOK'
  BY <1>0, Changes
  DEF Goto, NoArg, IInv, TypeInv, TypeOK, RequestsOK, ListsOK, Held, RequestCalls
<1>4. LiveOK'
  BY <1>0, Changes
  DEF Goto, NoArg, IInv, TypeInv, TypeOK, RequestsOK, ListsOK, LiveOK, Live, Held, RequestCalls,
      EarlyCalls, TargetCalls
<1>5. MatchesOK' /\ QueuedIsListed'
  BY <1>0, Changes
  DEF Goto, NoArg, IInv, TypeInv, TypeOK, RequestsOK, MatchesOK, QueuedIsListed, RequestCalls
<1> QED BY <1>1, <1>2, <1>3, <1>4, <1>5 DEF IInv

LEMMA StopMatchmakingOK ==
  ASSUME IInv, NEW c \in Callers, StopMatchmaking(c)
  PROVE  IInv'
<1> USE DEF mapVars, listVars, workerVars, groupVars
<1>0. /\ arg[c].target \in Tickets \ requests /\ pc[c] = "Stop"
      /\ UNCHANGED <<requests, status, mapVars, listVars, workerVars, groupVars>>
  BY DEF StopMatchmaking, IInv, RequestsOK, TargetCalls
<1>1. PICK call \in {"Idle", "GetCancelGroup"} : Goto(c, call)
  BY DEF StopMatchmaking
<1>2. TypeInv'
  BY <1>0, <1>1, UnchangedMap, GotoStep DEF IInv, TypeInv, TypeOK, MapOK, MapTypeOK, Calls
<1>3. RequestsOK'
  BY <1>0, <1>1, SoloAssumption
  DEF Goto, NoArg, IInv, TypeInv, TypeOK, RequestsOK, RequestCalls, EarlyCalls, TargetCalls
<1>4. ListsOK'
  BY <1>0, <1>1 DEF Goto, NoArg, IInv, TypeInv, TypeOK, ListsOK, Held, RequestCalls
<1>5. LiveOK'
  BY <1>0, <1>1 DEF Goto, NoArg, IInv, TypeInv, TypeOK, LiveOK, Live, Held
<1>6. MatchesOK' /\ QueuedIsListed'
  BY <1>0, <1>1 DEF Goto, NoArg, IInv, TypeInv, TypeOK, MatchesOK, QueuedIsListed
<1> QED BY <1>2, <1>3, <1>4, <1>5, <1>6 DEF IInv

LEMMA GetCancelGroupOK ==
  ASSUME IInv, NEW c \in Callers, GetCancelGroup(c)
  PROVE  IInv'
<1> USE DEF mapVars, listVars, workerVars, groupVars
<1>0. /\ arg[c].target \in Tickets \ requests /\ pc[c] = "GetCancelGroup"
      /\ UNCHANGED <<requests, status, mapVars, listVars, workerVars, groupVars>>
  BY DEF GetCancelGroup, IInv, RequestsOK, TargetCalls
<1>1. PICK call \in {"Cancel", "EraseCancelled"} :
        Goto(c, call) /\ (call = "EraseCancelled" => control # "Up")
  BY DEF GetCancelGroup, HasGroup
<1>2. TypeInv'
  BY <1>0, <1>1, UnchangedMap, GotoStep DEF IInv, TypeInv, TypeOK, MapOK, MapTypeOK, Calls
<1>3. RequestsOK'
  BY <1>0, <1>1, SoloAssumption
  DEF Goto, NoArg, IInv, TypeInv, TypeOK, RequestsOK, RequestCalls, EarlyCalls, TargetCalls
<1>4. ListsOK'
  BY <1>0, <1>1 DEF Goto, NoArg, IInv, TypeInv, TypeOK, ListsOK, Held, RequestCalls
<1>5. \A u \in Tickets : Live(u)' => Live(u) /\ control = "Up"
  BY <1>0, <1>1 DEF Goto, IInv, TypeInv, TypeOK, Live, Held
<1>6. \A d \in Callers : pc'[d] = "EraseCancelled" =>
        /\ pc[d] = "EraseCancelled" \/ control # "Up"
        /\ arg'[d] = arg[d] /\ arg[d].target \in Tickets
  BY <1>0, <1>1 DEF Goto, IInv, TypeInv, TypeOK, RequestsOK, TargetCalls
<1>7. LiveOK'
  BY <1>0, <1>5, <1>6 DEF IInv, LiveOK
<1>8. MatchesOK' /\ QueuedIsListed'
  BY <1>0, <1>1 DEF Goto, NoArg, IInv, TypeInv, TypeOK, MatchesOK, QueuedIsListed
<1> QED BY <1>2, <1>3, <1>4, <1>7, <1>8 DEF IInv

LEMMA CancelMatchTicketOK ==
  ASSUME IInv, NEW c \in Callers, CancelMatchTicket(c)
  PROVE  IInv'
<1> USE DEF mapVars, listVars, workerVars, groupVars
<1> DEFINE t == arg[c].target
           w == WorkerOf(t)
<1>0. /\ t \in Tickets \ requests /\ pc[c] = "Cancel" /\ w \in Workers
      /\ status[t] \in Statuses
      /\ UNCHANGED <<requests, mapVars, workerVars, groupVars>>
  BY WorkerOfType
  DEF CancelMatchTicket, IInv, TypeInv, TypeOK, RequestsOK, TargetCalls
<1>1. CASE CanChangeStatus(status[t], "CANCELLED")
  <2>0. /\ Goto(c, "EraseCancelled")
        /\ status[t] \in {"None", "QUEUED"}
        /\ status' = [status EXCEPT ![t] = "CANCELLED"]
        /\ waiting' = [waiting EXCEPT ![w] = @ \ {t}]
        /\ progressing' = [progressing EXCEPT ![w] = @ \ {t}]
    BY <1>0, <1>1, Changes DEF CancelMatchTicket
  <2>1. TypeInv'
    BY <1>0, <2>0, UnchangedMap, GotoStep
    DEF IInv, TypeInv, TypeOK, MapOK, MapTypeOK, Calls, Statuses
  <2>2. \A d \in Callers : pc[d] \in EarlyCalls => arg[d].request # t
    BY <1>0 DEF IInv, RequestsOK, TargetCalls
  <2>3. RequestsOK'
    BY <1>0, <2>0, <2>2
    DEF Goto, IInv, TypeInv, TypeOK, RequestsOK, RequestCalls, EarlyCalls, TargetCalls
  <2>4. \A v \in Workers : Held(v)' = Held(v) \ {t}
    BY <1>0, <2>0 DEF Held, IInv, TypeInv, TypeOK, ListsOK
  <2>5. \A v \in Workers : /\ waiting'[v] \cap progressing'[v] = {}
                           /\ IsFiniteSet(waiting'[v]) /\ IsFiniteSet(progressing'[v])
                           /\ Cardinality(progressing'[v]) < MatchPlayerCount
    <3> SUFFICES ASSUME NEW v \in Workers
                 PROVE  /\ waiting'[v] \cap progressing'[v] = {}
                        /\ IsFiniteSet(waiting'[v]) /\ IsFiniteSet(progressing'[v])
                        /\ Cardinality(progressing'[v]) < MatchPlayerCount
      OBVIOUS
    <3>1. /\ waiting'[v] \subseteq waiting[v] /\ progressing'[v] \subseteq progressing[v]
          /\ waiting[v] \cap progressing[v] = {}
          /\ IsFiniteSet(waiting[v]) /\ IsFiniteSet(progressing[v])
          /\ Cardinality(progressing[v]) < MatchPlayerCount
      BY <1>0, <2>0 DEF IInv, TypeInv, TypeOK, ListsOK
    <3>2. /\ Cardinality(progressing'[v]) <= Cardinality(progressing[v])
          /\ Cardinality(progressing'[v]) \in Nat /\ Cardinality(progressing[v]) \in Nat
          /\ IsFiniteSet(waiting'[v]) /\ IsFiniteSet(progressing'[v])
      BY <3>1, FS_Subset, FS_CardinalityType
    <3> QED BY <3>1, <3>2, SoloAssumption
  <2>6. ListsOK'
    <3>1. ASSUME NEW v \in Workers, NEW u \in Held(v)'
          PROVE  /\ status'[u] = "QUEUED" /\ WorkerOf(u) = v
                 /\ \A d \in Callers : pc'[d] \in RequestCalls => arg'[d].request # u
      BY <1>0, <2>0, <2>4, <3>1 DEF Goto, IInv, TypeInv, TypeOK, ListsOK, RequestCalls
    <3>2. \A v \in Workers : control' = "Down" => Held(v)' = {}
      BY <1>0, <2>4 DEF IInv, ListsOK
    <3> QED BY <2>5, <3>1, <3>2 DEF ListsOK
  <2>7. \A u \in Tickets : Live(u)' => Live(u)
    BY <1>0, <2>0, <2>4 DEF Goto, IInv, TypeInv, TypeOK, Live
  <2>8. \A d \in Callers : pc'[d] = "EraseCancelled" =>
          /\ pc[d] = "EraseCancelled" \/ arg[d].target = t
          /\ arg'[d] = arg[d] /\ arg[d].target \in Tickets
    BY <1>0, <2>0 DEF Goto, IInv, TypeInv, TypeOK, RequestsOK, TargetCalls
  <2>9. LiveOK'
    BY <1>0, <2>0, <2>7, <2>8 DEF IInv, TypeInv, TypeOK, LiveOK
  <2>10. MatchesOK' /\ QueuedIsListed'
    BY <1>0, <2>0 DEF Goto, IInv, TypeInv, TypeOK, MatchesOK, QueuedIsListed
  <2> QED BY <2>1, <2>3, <2>6, <2>9, <2>10 DEF IInv
<1>2. CASE Goto(c, "Idle") /\ UNCHANGED <<status, listVars>>
  <2>1. TypeInv'
    BY <1>0, <1>2, UnchangedMap, GotoStep DEF IInv, TypeInv, TypeOK, MapOK, MapTypeOK, Calls
  <2>2. RequestsOK'
    BY <1>0, <1>2, SoloAssumption
    DEF Goto, NoArg, IInv, TypeInv, TypeOK, RequestsOK, RequestCalls, EarlyCalls, TargetCalls
  <2>3. ListsOK'
    BY <1>0, <1>2 DEF Goto, NoArg, IInv, TypeInv, TypeOK, ListsOK, Held, RequestCalls
  <2>4. LiveOK'
    BY <1>0, <1>2 DEF Goto, NoArg, IInv, TypeInv, TypeOK, LiveOK, Live, Held
  <2>5. MatchesOK' /\ QueuedIsListed'
    BY <1>0, <1>2 DEF Goto, NoArg, IInv, TypeInv, TypeOK, MatchesOK, QueuedIsListed
  <2> QED BY <2>1, <2>2, <2>3, <2>4, <2>5 DEF IInv
<1> QED BY <1>1, <1>2 DEF CancelMatchTicket

LEMMA EraseCancelledOK ==
  ASSUME IInv, NEW c \in Callers, EraseCancelled(c)
  PROVE  IInv'
<1> USE DEF EraseCancelled, mapVars, listVars, workerVars, groupVars
<1>0. arg[c].target \in Tickets
  BY DEF IInv, RequestsOK, TargetCalls
<1>1. TypeInv'
  BY <1>0, EraseKeepsMap, UnchangedMap, GotoStep
  DEF IInv, TypeInv, TypeOK, MapOK, MapTypeOK, Calls, Statuses
<1>2. RequestsOK'
  BY <1>0, EraseKeepsMap, Changes
  DEF Goto, NoArg, IInv, TypeInv, TypeOK, RequestsOK, RequestCalls, EarlyCalls, TargetCalls
<1>3. ListsOK'
  BY <1>0, EraseKeepsMap, Changes
  DEF Goto, NoArg, IInv, TypeInv, TypeOK, RequestsOK, ListsOK, Held, RequestCalls
<1>4. LiveOK'
  BY <1>0, EraseKeepsMap, Changes
  DEF Goto, NoArg, IInv, TypeInv, TypeOK, RequestsOK, ListsOK, LiveOK, Live, Held, RequestCalls,
      EarlyCalls, TargetCalls
<1>5. MatchesOK' /\ QueuedIsListed'
  BY <1>0, EraseKeepsMap, Changes
  DEF Goto, NoArg, IInv, TypeInv, TypeOK, RequestsOK, MatchesOK, QueuedIsListed, RequestCalls
<1> QED BY <1>1, <1>2, <1>3, <1>4, <1>5 DEF IInv

-----------------------------------------------------------------------------
(* What a worker takes.                                                    *)

\* The progressing list with what a worker takes.
Collected(w) == progressing[w] \cup Taken(w)

LEMMA TakenOnes ==
  ASSUME IInv, NEW w \in Workers
  PROVE  /\ Taken(w) \subseteq waiting[w] /\ Collected(w) \subseteq Tickets
         /\ Cardinality(Collected(w)) \in Nat /\ Cardinality(Collected(w)) <= MatchPlayerCount
         /\ IsFiniteSet(Collected(w))
         /\ waiting[w] # {} => Collected(w) # {}
<1> DEFINE W == waiting[w]
           P == progressing[w]
           n == MatchPlayerCount - Cardinality(P)
           T == Taken(w)
<1>1. /\ W \subseteq Tickets /\ P \subseteq Tickets /\ W \subseteq Nat
      /\ IsFiniteSet(W) /\ IsFiniteSet(P) /\ W \cap P = {}
      /\ Cardinality(P) < MatchPlayerCount
  BY SoloAssumption DEF IInv, TypeInv, TypeOK, ListsOK
<1>2. Cardinality(P) \in Nat /\ n \in Nat /\ n > 0
  BY <1>1, FS_CardinalityType, SoloAssumption
<1>3. T = {t \in W : Cardinality(Before(W, t)) < n}
  BY DEF Taken, Before
<1> HIDE DEF W, P, T, n
<1>4. /\ T \subseteq W /\ IsFiniteSet(T) /\ Cardinality(T) \in Nat /\ Cardinality(T) <= n
      /\ W # {} => T # {}
  BY <1>1, <1>2, <1>3, FirstOnes
<1>5. P \cap T = {}
  BY <1>1, <1>4
<1>6. /\ Cardinality(P \cup T) = Cardinality(P) + Cardinality(T)
      /\ IsFiniteSet(P \cup T)
  <2>1. Cardinality(P \cap T) = 0
    BY <1>5, FS_EmptySet
  <2>2. Cardinality(P \cup T) = Cardinality(P) + Cardinality(T) - Cardinality(P \cap T)
    BY <1>1, <1>4, FS_Union
  <2>3. IsFiniteSet(P \cup T)
    BY <1>1, <1>4, FS_Union
  <2> QED BY <1>2, <1>4, <2>1, <2>2, <2>3
<1>7. Cardinality(P) + Cardinality(T) <= MatchPlayerCount
  BY <1>2, <1>4, SoloAssumption DEF n
<1>8. Collected(w) = P \cup T
  BY DEF P, T, Collected
<1> QED BY <1>1, <1>2, <1>4, <1>6, <1>7, <1>8 DEF W, P, T

\* What a worker takes makes a match, all of whose tickets can be SEARCHING, or
\* it stays in the progressing list: the status change never fails.
LEMMA CollectStep ==
  ASSUME IInv, NEW w \in Workers, Collect(w)
  PROVE  /\ waiting' = [waiting EXCEPT ![w] = @ \ Taken(w)]
         /\ progressing' = [progressing EXCEPT ![w] = Rest(Collected(w))]
         /\ UNCHANGED <<mapVars, callerVars, groupVars>>
         /\ \/ /\ IsFull(Collected(w)) /\ Collected(w) \in FullMatches /\ Rest(Collected(w)) = {}
               /\ \A t \in Collected(w) : status[t] = "QUEUED"
               /\ status' = [t \in Tickets |->
                               IF t \in Collected(w) THEN "SEARCHING" ELSE status[t]]
               /\ matches' = matches \cup {Collected(w)}
               /\ picked' = [picked EXCEPT ![w] = Collected(w)]
               /\ work' = [work EXCEPT ![w] = "Create"]
            \/ /\ ~ IsFull(Collected(w)) /\ Rest(Collected(w)) = Collected(w)
               /\ UNCHANGED <<status, matches, picked, work>>
<1> DEFINE list == Collected(w)
           Searching(t) == IsFull(list) /\ t \in list /\ CanChangeStatus(status[t], "SEARCHING")
           sound == \A t \in list : Searching(t)
<1>1. /\ work[w] = "Idle"
      /\ waiting[w] # {}
      /\ waiting' = [waiting EXCEPT ![w] = @ \ Taken(w)]
      /\ progressing' = [progressing EXCEPT ![w] = Rest(list)]
      /\ status' = [t \in Tickets |-> IF Searching(t) THEN "SEARCHING" ELSE status[t]]
      /\ matches' = IF sound THEN matches \cup {list} ELSE matches
      /\ IF IsFull(list)
         THEN /\ picked' = [picked EXCEPT ![w] = list]
              /\ work' = [work EXCEPT ![w] = IF sound THEN "Create" ELSE "OnFailed"]
         ELSE UNCHANGED <<work, picked>>
      /\ UNCHANGED <<mapVars, callerVars, groupVars>>
  BY DEF Collect, Collected
<1>2. /\ Taken(w) \subseteq waiting[w] /\ list \subseteq Tickets /\ list # {}
      /\ Cardinality(list) \in Nat /\ Cardinality(list) <= MatchPlayerCount
  BY <1>1, TakenOnes
<1>3. \A t \in list : status[t] = "QUEUED" /\ status[t] \in Statuses
  BY <1>2 DEF Collected, IInv, TypeInv, TypeOK, ListsOK, Held
<1>4. \A t \in list : Searching(t) <=> IsFull(list)
  BY <1>3, Changes
<1>5. CASE IsFull(list)
  <2>1. list \in FullMatches
    BY <1>2, <1>5, SoloAssumption DEF IsFull, FullMatches
  <2>2. sound /\ status' = [t \in Tickets |-> IF t \in list THEN "SEARCHING" ELSE status[t]]
    BY <1>1, <1>4, <1>5
  <2> QED BY <1>1, <1>3, <1>5, <2>1, <2>2 DEF Rest
<1>6. CASE ~ IsFull(list)
  <2>1. ~ sound
    BY <1>2, <1>6
  <2>2. status' = status
    BY <1>1, <1>6 DEF IInv, TypeInv, TypeOK
  <2> QED BY <1>1, <1>6, <2>1, <2>2 DEF Rest
<1> QED BY <1>5, <1>6

LEMMA CollectOK ==
  ASSUME IInv, NEW w \in Workers, Collect(w)
  PROVE  IInv'
<1> DEFINE list == Collected(w)
<1>0. list = progressing[w] \cup Taken(w)
  BY DEF Collected
<1>a. list = Collected(w)
  OBVIOUS
<1> HIDE DEF list
<1>1. /\ Taken(w) \subseteq waiting[w] /\ list \subseteq Tickets
      /\ Cardinality(list) \in Nat /\ Cardinality(list) <= MatchPlayerCount
      /\ IsFiniteSet(list)
  BY <1>a, TakenOnes
<1>2. /\ waiting' = [waiting EXCEPT ![w] = @ \ Taken(w)]
      /\ progressing' = [progressing EXCEPT ![w] = Rest(list)]
      /\ UNCHANGED <<mapVars, callerVars, groupVars>>
  BY <1>a, CollectStep
<1>3. \/ /\ Rest(list) = {}
         /\ status' = [t \in Tickets |-> IF t \in list THEN "SEARCHING" ELSE status[t]]
         /\ matches' = matches \cup {list}
         /\ picked' = [picked EXCEPT ![w] = list]
         /\ work' = [work EXCEPT ![w] = "Create"]
      \/ /\ ~ IsFull(list) /\ Rest(list) = list
         /\ UNCHANGED <<status, matches, picked, work>>
  <2>1. \/ /\ IsFull(list) /\ list \in FullMatches /\ Rest(list) = {}
           /\ \A t \in list : status[t] = "QUEUED"
           /\ status' = [t \in Tickets |-> IF t \in list THEN "SEARCHING" ELSE status[t]]
           /\ matches' = matches \cup {list}
           /\ picked' = [picked EXCEPT ![w] = list]
           /\ work' = [work EXCEPT ![w] = "Create"]
        \/ /\ ~ IsFull(list) /\ Rest(list) = list
           /\ UNCHANGED <<status, matches, picked, work>>
    BY <1>a, CollectStep
  <2> QED BY <2>1
<1> USE DEF mapVars, callerVars, groupVars
<1>4. \A v \in Workers : \A t \in Held(v)' :
        t \in Held(v) /\ status'[t] = "QUEUED"
  <2>1. ASSUME NEW v \in Workers, NEW t \in Held(v)'
        PROVE  t \in Held(v) /\ status'[t] = "QUEUED"
    <3>0. Rest(list) \subseteq list /\ Taken(w) \subseteq waiting[w]
      BY <1>1, <1>3
    <3>a. Held(v)' \subseteq Held(v) /\ Held(v) \subseteq Tickets
      BY <1>0, <1>2, <3>0 DEF IInv, TypeInv, TypeOK, Held
    <3>1. t \in Held(v) /\ status[t] = "QUEUED" /\ t \in Tickets
      BY <2>1, <3>a DEF IInv, ListsOK
    <3>2. v # w => t \notin list
      BY <1>0, <1>1, <3>1 DEF IInv, ListsOK, Held
    <3>3. v = w /\ Rest(list) = {} => t \notin list
      <4>1. waiting[w] \cap progressing[w] = {}
        BY DEF IInv, ListsOK
      <4>2. waiting'[w] = waiting[w] \ Taken(w) /\ progressing'[w] = Rest(list)
        BY <1>2 DEF IInv, TypeInv, TypeOK
      <4>3. v = w => t \in waiting'[w] \cup progressing'[w]
        BY <2>1 DEF Held
      <4> QED BY <1>0, <4>1, <4>2, <4>3
    <3> QED BY <1>1, <1>3, <3>1, <3>2, <3>3
  <2> QED BY <2>1
<1>5. TypeInv'
  BY <1>1, <1>2, <1>3, UnchangedMap
  DEF IInv, TypeInv, TypeOK, MapOK, MapTypeOK, Statuses, Works
<1>6. \A t \in Tickets :
        /\ \/ status'[t] = status[t]
           \/ status[t] = "QUEUED" /\ status'[t] = "SEARCHING" /\ t \in list
        /\ status'[t] = "QUEUED" => t \notin list \/ Rest(list) = list
  <2> SUFFICES ASSUME NEW t \in Tickets
               PROVE  /\ \/ status'[t] = status[t]
                         \/ status[t] = "QUEUED" /\ status'[t] = "SEARCHING" /\ t \in list
                      /\ status'[t] = "QUEUED" => t \notin list \/ Rest(list) = list
    OBVIOUS
  <2>1. t \in list => status[t] = "QUEUED"
    BY <1>0, <1>1 DEF IInv, ListsOK, Held
  <2>2. CASE Rest(list) = list /\ status' = status
    BY <2>2
  <2>3. CASE status' = [u \in Tickets |-> IF u \in list THEN "SEARCHING" ELSE status[u]]
    <3>1. status'[t] = IF t \in list THEN "SEARCHING" ELSE status[t]
      BY <2>3
    <3> QED BY <2>1, <3>1
  <2> QED BY <1>3, <2>2, <2>3
<1>7. RequestsOK'
  <2>1. \A c \in Callers : pc[c] \in RequestCalls => arg[c].request \notin list
    BY <1>0, <1>1 DEF IInv, ListsOK, Held
  <2>2. \A t \in requests : t \in Tickets
    BY DEF IInv, TypeInv, TypeOK
  <2>3. \A c \in Callers : pc[c] \in RequestCalls =>
          status'[arg[c].request] = status[arg[c].request]
    BY <1>6, <2>1 DEF IInv, RequestsOK
  <2> QED BY <1>2, <1>6, <2>2, <2>3 DEF IInv, RequestsOK, RequestCalls, EarlyCalls
<1>8. ListsOK'
  <2>1. ASSUME NEW v \in Workers
        PROVE  /\ waiting'[v] \cap progressing'[v] = {}
               /\ IsFiniteSet(waiting'[v]) /\ IsFiniteSet(progressing'[v])
               /\ Cardinality(progressing'[v]) < MatchPlayerCount
    <3>1. CASE v # w
      BY <1>2, <3>1 DEF IInv, TypeInv, TypeOK, ListsOK
    <3>2. CASE v = w
      <4>1. /\ waiting'[v] = waiting[w] \ Taken(w) /\ progressing'[v] = Rest(list)
            /\ waiting[w] \cap progressing[w] = {} /\ IsFiniteSet(waiting[w])
        BY <1>2, <3>2 DEF IInv, TypeInv, TypeOK, ListsOK
      <4>2. IsFiniteSet(waiting'[v])
        BY <4>1, FS_Subset
      <4>3. Rest(list) = {} \/ (Rest(list) = list /\ ~ IsFull(list))
        BY DEF Rest
      <4>4. waiting'[v] \cap progressing'[v] = {}
        BY <1>0, <4>1, <4>3
      <4>5. IsFiniteSet(Rest(list)) /\ Cardinality(Rest(list)) < MatchPlayerCount
        <5>1. IsFiniteSet({}) /\ Cardinality({}) = 0
          BY FS_EmptySet
        <5>2. CASE Rest(list) = {}
          BY <5>1, <5>2, SoloAssumption
        <5>3. CASE Rest(list) = list /\ ~ IsFull(list)
          BY <1>1, <5>3, SoloAssumption DEF IsFull
        <5> QED BY <4>3, <5>2, <5>3
      <4> QED BY <4>1, <4>2, <4>4, <4>5
    <3> QED BY <3>1, <3>2
  <2>2. \A v \in Workers : control' = "Down" => Held(v)' = {}
    BY <1>2, <1>4 DEF IInv, ListsOK
  <2>3. \A v \in Workers : \A t \in Held(v)' :
          /\ status'[t] = "QUEUED" /\ WorkerOf(t) = v
          /\ \A c \in Callers : pc'[c] \in RequestCalls => arg'[c].request # t
    BY <1>2, <1>4 DEF IInv, ListsOK
  <2> QED BY <2>1, <2>2, <2>3 DEF ListsOK
<1>9. LiveOK'
  <2>1. \A t \in Tickets : Live(t)' => Live(t)
    BY <1>2, <1>4 DEF Live
  <2>2. \A c \in Callers : pc[c] = "EraseCancelled" => arg[c].target \in Tickets
    BY DEF IInv, RequestsOK, TargetCalls
  <2> QED BY <1>2, <1>6, <2>1, <2>2 DEF IInv, LiveOK
<1>10. MatchesOK'
  <2>1. \A t \in UNION matches' : status'[t] \notin {"None", "QUEUED", "CANCELLED"}
    <3>1. \A t \in UNION matches : t \in Tickets /\ status[t] \notin {"None", "QUEUED", "CANCELLED"}
      BY DEF IInv, TypeInv, TypeOK, MatchesOK
    <3> QED BY <1>1, <1>3, <1>6, <3>1
  <2>2. \A v \in Workers : picked'[v] \subseteq UNION matches'
    BY <1>3 DEF IInv, TypeInv, TypeOK, MatchesOK
  <2> QED BY <2>1, <2>2 DEF MatchesOK
<1>11. QueuedIsListed'
  <2> SUFFICES ASSUME NEW t \in Tickets, status'[t] = "QUEUED"
               PROVE  \/ t \in waiting'[WorkerOf(t)] \cup progressing'[WorkerOf(t)]
                      \/ \E c \in Callers : pc'[c] = "Enqueue" /\ arg'[c].request = t
                      \/ t \in stranded'
    BY DEF QueuedIsListed
  <2>1. status[t] = "QUEUED" /\ (t \notin list \/ Rest(list) = list)
    BY <1>6
  <2>2. CASE t \in Held(WorkerOf(t))
    BY <1>0, <1>1, <1>2, <2>1, <2>2, WorkerOfType DEF Held, IInv, TypeInv, TypeOK
  <2> QED BY <1>2, <2>1, <2>2 DEF Held, IInv, QueuedIsListed
<1> QED BY <1>5, <1>7, <1>8, <1>9, <1>10, <1>11 DEF IInv

\* A step that only handles tickets of matches: it gives them another status that
\* is not one of a waiting ticket, and takes them out of the map.
LEMMA MatchedStep ==
  ASSUME IInv, UNCHANGED <<callerVars, listVars, matches, groupVars>>,
         status' \in [Tickets -> Statuses],
         \A t \in Tickets : status'[t] # status[t] =>
           t \in UNION matches /\ status'[t] \notin {"None", "QUEUED", "CANCELLED"},
         MapOK', ticketMap' \subseteq ticketMap, ticketMap \ ticketMap' \subseteq UNION matches,
         work' \in [Workers -> Works], picked' \in [Workers -> SUBSET Tickets],
         \A v \in Workers : picked'[v] \subseteq picked[v]
  PROVE  IInv'
<1> USE DEF callerVars, listVars, groupVars
<1>1. TypeInv'
  BY DEF IInv, TypeInv, TypeOK, MapOK
<1>2. /\ \A t \in UNION matches : t \in Tickets /\ status[t] \notin {"None", "QUEUED", "CANCELLED"}
      /\ requests \subseteq Tickets
      /\ \A w \in Workers : Held(w) \subseteq Tickets
  BY DEF IInv, TypeInv, TypeOK, MatchesOK, Held
<1>3. \A t \in Tickets :
        /\ status[t] \in {"None", "QUEUED", "CANCELLED"} => status'[t] = status[t]
        /\ status'[t] \in {"None", "QUEUED", "CANCELLED"} => status'[t] = status[t]
        /\ status[t] \in {"None", "QUEUED"} /\ t \in ticketMap => t \in ticketMap'
  BY <1>2
<1>4. \A c \in Callers : /\ pc[c] \in RequestCalls => arg[c].request \in Tickets
                         /\ pc[c] \in TargetCalls => arg[c].target \in Tickets
  BY DEF IInv, RequestsOK
<1>5. RequestsOK'
  BY <1>2, <1>3, <1>4 DEF IInv, RequestsOK, RequestCalls, EarlyCalls
<1>6. ListsOK'
  BY <1>2, <1>3 DEF IInv, ListsOK, Held
<1>7. \A t \in Tickets : Live(t)' <=> Live(t)
  BY DEF Live, Held
<1>8. LiveOK'
  BY <1>3, <1>4, <1>7 DEF IInv, LiveOK, TargetCalls
<1>9. MatchesOK' /\ QueuedIsListed'
  BY <1>2, <1>3 DEF IInv, MatchesOK, QueuedIsListed
<1> QED BY <1>1, <1>5, <1>6, <1>8, <1>9 DEF IInv

\* Done with a ticket, the worker has one less.
LEMMA DoneStep ==
  ASSUME IInv, NEW w \in Workers, NEW t \in Tickets, NEW next \in Works, Done(w, t, next)
  PROVE  /\ work' \in [Workers -> Works] /\ picked' \in [Workers -> SUBSET Tickets]
         /\ \A v \in Workers : picked'[v] \subseteq picked[v]
         /\ UNCHANGED <<callerVars, listVars, matches>>
BY DEF Done, IInv, TypeInv, TypeOK, Works

LEMMA PickedOnes ==
  ASSUME IInv, NEW w \in Workers
  PROVE  /\ picked[w] \subseteq UNION matches /\ picked[w] \subseteq Tickets
         /\ status \in [Tickets -> Statuses] /\ MapOK
         /\ ticketMap \subseteq Tickets
         /\ work \in [Workers -> Works] /\ picked \in [Workers -> SUBSET Tickets]
BY DEF IInv, MatchesOK, TypeInv, TypeOK, MapOK, MapTypeOK

LEMMA CreateMatchSessionOK ==
  ASSUME IInv, NEW w \in Workers, CreateMatchSession(w)
  PROVE  IInv'
<1>1. /\ UNCHANGED <<mapVars, callerVars, listVars, matches, picked, groupVars>>
      /\ \/ status' = [t \in Tickets |->
                         IF t \in picked[w] THEN "REQUIRES_ACCEPTANCE" ELSE status[t]]
         \/ UNCHANGED status
      /\ \/ work' = [work EXCEPT ![w] = "Expire"]
         \/ work' = [work EXCEPT ![w] = "OnFailed"]
  BY DEF CreateMatchSession
<1>2. work' \in [Workers -> Works]
  BY <1>1, PickedOnes DEF Works
<1>3. /\ status' \in [Tickets -> Statuses]
      /\ \A t \in Tickets : status'[t] # status[t] =>
           t \in UNION matches /\ status'[t] \notin {"None", "QUEUED", "CANCELLED"}
  BY <1>1, PickedOnes DEF Statuses
<1>4. MapOK' /\ ticketMap' = ticketMap
  BY <1>1, PickedOnes, UnchangedMap DEF mapVars
<1> QED BY <1>1, <1>2, <1>3, <1>4, PickedOnes, MatchedStep

\* Whichever manager a ticket is taken for, its map stays right.
LEMMA ForgetKeepsMap ==
  ASSUME MapOK, NEW t \in Tickets, Forget(t)
  PROVE  MapOK' /\ (ticketMap' = ticketMap \/ ticketMap' = ticketMap \ {t})
<1>1. CASE UNCHANGED mapVars
  BY <1>1, UnchangedMap DEF mapVars
<1>2. CASE EraseMatchTicket(t)
  BY <1>2, EraseKeepsMap
<1> QED BY <1>1, <1>2 DEF Forget

LEMMA OnExpireMatchmakingOK ==
  ASSUME IInv, NEW w \in Workers, NEW t \in Tickets, OnExpireMatchmaking(w, t)
  PROVE  IInv'
<1>1. /\ t \in picked[w] /\ Forget(t) /\ Done(w, t, "Expire")
      /\ UNCHANGED <<status, groupVars>>
  BY DEF OnExpireMatchmaking
<1>2. /\ MapOK' /\ ticketMap' \subseteq ticketMap /\ t \in UNION matches
      /\ ticketMap \ ticketMap' \subseteq {t}
  BY <1>1, PickedOnes, ForgetKeepsMap
<1>3. "Expire" \in Works
  BY DEF Works
<1>4. /\ work' \in [Workers -> Works] /\ picked' \in [Workers -> SUBSET Tickets]
      /\ \A v \in Workers : picked'[v] \subseteq picked[v]
      /\ UNCHANGED <<callerVars, listVars, matches>>
  BY <1>1, <1>3, DoneStep
<1> QED BY <1>1, <1>2, <1>4, PickedOnes, MatchedStep

LEMMA OnFailedMatchmakingOK ==
  ASSUME IInv, NEW w \in Workers, NEW t \in Tickets, OnFailedMatchmaking(w, t)
  PROVE  IInv'
<1>1. /\ t \in picked[w] /\ UNCHANGED <<mapVars, groupVars>>
      /\ \/ /\ status' = [status EXCEPT ![t] = "FAILED"]
            /\ work' = [work EXCEPT ![w] = "EraseFailed"]
            /\ UNCHANGED <<picked, callerVars, listVars, matches>>
         \/ UNCHANGED status /\ Done(w, t, "OnFailed")
  BY DEF OnFailedMatchmaking
<1>2. MapOK' /\ ticketMap' = ticketMap
  BY <1>1, PickedOnes, UnchangedMap DEF mapVars
<1>3. "OnFailed" \in Works /\ "EraseFailed" \in Works /\ "FAILED" \in Statuses
  BY DEF Works, Statuses
<1>4. /\ work' \in [Workers -> Works] /\ picked' \in [Workers -> SUBSET Tickets]
      /\ \A v \in Workers : picked'[v] \subseteq picked[v]
      /\ UNCHANGED <<callerVars, listVars, matches>>
  BY <1>1, <1>3, PickedOnes, DoneStep
<1>5. /\ status' \in [Tickets -> Statuses]
      /\ \A u \in Tickets : status'[u] # status[u] =>
           u \in UNION matches /\ status'[u] \notin {"None", "QUEUED", "CANCELLED"}
  BY <1>1, <1>3, PickedOnes
<1> QED BY <1>1, <1>2, <1>4, <1>5, PickedOnes, MatchedStep

LEMMA EraseFailedOK ==
  ASSUME IInv, NEW w \in Workers, NEW t \in Tickets, EraseFailed(w, t)
  PROVE  IInv'
<1>1. /\ t \in picked[w] /\ Forget(t) /\ Done(w, t, "OnFailed")
      /\ UNCHANGED <<status, groupVars>>
  BY DEF EraseFailed
<1>2. /\ MapOK' /\ ticketMap' \subseteq ticketMap /\ t \in UNION matches
      /\ ticketMap \ ticketMap' \subseteq {t}
  BY <1>1, PickedOnes, ForgetKeepsMap
<1>3. "OnFailed" \in Works
  BY DEF Works
<1>4. /\ work' \in [Workers -> Works] /\ picked' \in [Workers -> SUBSET Tickets]
      /\ \A v \in Workers : picked'[v] \subseteq picked[v]
      /\ UNCHANGED <<callerVars, listVars, matches>>
  BY <1>1, <1>3, DoneStep
<1> QED BY <1>1, <1>2, <1>4, PickedOnes, MatchedStep

-----------------------------------------------------------------------------
(* The life of the manager.                                                *)

\* No ticket is live at the start of a group: no queue holds one, and the callers
\* have the groups of earlier starts.
LEMMA StartOK == IInv /\ Start => IInv'
<1> SUFFICES ASSUME IInv, Start PROVE IInv'
  OBVIOUS
<1> USE DEF Start, mapVars, callerVars, listVars, workerVars
<1>1. TypeInv'
  BY UnchangedMap, SoloAssumption DEF IInv, TypeInv, TypeOK, MapOK, MapTypeOK
<1>2. RequestsOK'
  BY SoloAssumption
  DEF IInv, TypeInv, TypeOK, RequestsOK, RequestCalls, EarlyCalls, TargetCalls
<1>3. ListsOK'
  BY DEF IInv, ListsOK, Held
<1>4. \A t \in Tickets : ~ Live(t)'
  <2>1. \A w \in Workers : Held(w)' = {}
    BY DEF IInv, ListsOK, Held
  <2>2. ASSUME NEW c \in Callers PROVE arg'[c].group # started'
    <3>1. arg[c].group \in Nat /\ arg[c].group <= started /\ started \in Nat
      BY SoloAssumption DEF IInv, TypeInv, TypeOK, RequestsOK
    <3>2. arg'[c] = arg[c] /\ started' = started + 1
      OBVIOUS
    <3> QED BY <3>1, <3>2
  <2> QED BY <2>1, <2>2 DEF Live
<1>5. \A c \in Callers : pc'[c] = "EraseCancelled" => arg'[c].target \in Tickets
  BY DEF IInv, RequestsOK, TargetCalls
<1>6. LiveOK'
  BY <1>4, <1>5 DEF LiveOK
<1>7. MatchesOK' /\ QueuedIsListed'
  BY DEF IInv, MatchesOK, QueuedIsListed
<1> QED BY <1>1, <1>2, <1>3, <1>6, <1>7 DEF IInv

LEMMA TerminateOK == IInv /\ Terminate => IInv'
<1> SUFFICES ASSUME IInv, Terminate PROVE IInv'
  OBVIOUS
<1> USE DEF Terminate, mapVars, callerVars, listVars, workerVars
<1>1. TypeInv'
  BY UnchangedMap DEF IInv, TypeInv, TypeOK, MapOK, MapTypeOK
<1>2. RequestsOK'
  BY DEF IInv, TypeInv, TypeOK, RequestsOK, RequestCalls, EarlyCalls, TargetCalls
<1>3. ListsOK' /\ LiveOK'
  BY DEF IInv, ListsOK, LiveOK, Live, Held
<1>4. MatchesOK' /\ QueuedIsListed'
  BY DEF IInv, MatchesOK, QueuedIsListed
<1> QED BY <1>1, <1>2, <1>3, <1>4 DEF IInv

LEMMA JoinOK == IInv /\ Join => IInv'
<1> SUFFICES ASSUME IInv, Join PROVE IInv'
  OBVIOUS
<1> USE DEF Join, mapVars, callerVars, workerVars
<1>1. TypeInv'
  BY UnchangedMap DEF IInv, TypeInv, TypeOK, MapOK, MapTypeOK, Held
<1>2. RequestsOK'
  BY DEF IInv, TypeInv, TypeOK, RequestsOK, RequestCalls, EarlyCalls, TargetCalls
<1>3. \A w \in Workers : waiting'[w] = {} /\ progressing'[w] = {} /\ Held(w)' = {}
  BY DEF Held
<1>4. ListsOK'
  BY <1>3, FS_EmptySet, SoloAssumption DEF ListsOK
<1>5. LiveOK'
  BY DEF LiveOK, Live
<1>6. MatchesOK'
  BY DEF IInv, MatchesOK
<1>7. QueuedIsListed'
  BY WorkerOfType DEF IInv, QueuedIsListed, Held
<1> QED BY <1>1, <1>2, <1>4, <1>5, <1>6, <1>7 DEF IInv

LEMMA NextOK == IInv /\ [Next]_vars => IInv'
<1> SUFFICES ASSUME IInv, [Next]_vars PROVE IInv'
  OBVIOUS
<1>1. CASE UNCHANGED vars
  <2> USE <1>1 DEF vars, mapVars
  <2>1. TypeInv'
    BY UnchangedMap DEF IInv, TypeInv, TypeOK, MapOK, MapTypeOK
  <2>2. RequestsOK'
    BY DEF IInv, TypeInv, TypeOK, RequestsOK, RequestCalls, EarlyCalls, TargetCalls
  <2>3. ListsOK' /\ LiveOK'
    BY DEF IInv, ListsOK, LiveOK, Live, Held
  <2>4. MatchesOK' /\ QueuedIsListed'
    BY DEF IInv, MatchesOK, QueuedIsListed
  <2> QED BY <2>1, <2>2, <2>3, <2>4 DEF IInv
<1>2. ASSUME NEW c \in Callers, NEW t \in Tickets, CallStart(c, t) PROVE IInv'
  BY <1>2, CallStartOK
<1>3. ASSUME NEW c \in Callers, NEW p \in Players, CallStop(c, p) PROVE IInv'
  BY <1>3, CallStopOK
<1>4. ASSUME NEW c \in Callers, CallerStep(c) PROVE IInv'
  BY <1>4, CleanupOK, InsertTicketOK, ChangeQueuedOK, EnqueueJobRequestOK, EraseRefusedOK,
     FailRequestOK, GetWorkerGroupOK, StopMatchmakingOK, GetCancelGroupOK, CancelMatchTicketOK,
     EraseCancelledOK
  DEF CallerStep
<1>5. ASSUME NEW w \in Workers, WorkerStep(w) PROVE IInv'
  BY <1>5, CollectOK, CreateMatchSessionOK, OnExpireMatchmakingOK, OnFailedMatchmakingOK,
     EraseFailedOK
  DEF WorkerStep
<1>6. CASE Start \/ Terminate \/ Join
  BY <1>6, StartOK, TerminateOK, JoinOK
<1> QED BY <1>1, <1>2, <1>3, <1>4, <1>5, <1>6 DEF Next

\* The invariant holds in every state: what the theorems below rest on.
THEOREM Invariant == Spec => []IInv
<1>1. Init => IInv
  BY InitOK
<1>2. IInv /\ [Next]_vars => IInv'
  BY NextOK
<1> QED BY <1>1, <1>2, PTL DEF Spec

\* Every variable keeps its type.
THEOREM TypeCorrect == Spec => []TypeOK
<1>1. IInv => TypeOK
  BY DEF IInv, TypeInv
<1> QED BY <1>1, Invariant, PTL

\* What a worker has in its lists is QUEUED and, until Terminate, known to the
\* manager, whatever callers, cancels and restarts there were.
THEOREM ListsHoldQueuedTickets == Spec => []ListsHoldQueued
<1>1. IInv => ListsHoldQueued
  <2> SUFFICES ASSUME IInv, NEW w \in Workers
               PROVE  /\ waiting[w] \cap progressing[w] = {}
                      /\ \A t \in waiting[w] \cup progressing[w] :
                           /\ status[t] = "QUEUED" /\ WorkerOf(t) = w
                           /\ t \in ticketMap \/ control = "Stopping"
    BY DEF ListsHoldQueued
  <2>1. waiting[w] \cap progressing[w] = {}
    BY DEF IInv, ListsOK
  <2>2. ASSUME NEW t \in Held(w)
        PROVE  /\ status[t] = "QUEUED" /\ WorkerOf(t) = w
               /\ t \in ticketMap \/ control = "Stopping"
    <3>1. status[t] = "QUEUED" /\ WorkerOf(t) = w /\ control # "Down"
      BY <2>2 DEF IInv, ListsOK
    <3>2. t \in Tickets /\ control \in {"Down", "Up", "Stopping"}
      BY <2>2 DEF IInv, TypeInv, TypeOK, Held
    <3>3. control = "Up" => t \in ticketMap
      BY <2>2, <3>1, <3>2 DEF IInv, LiveOK, Live
    <3> QED BY <3>1, <3>2, <3>3
  <2> QED BY <2>1, <2>2 DEF Held
<1> QED BY <1>1, Invariant, PTL

\* A QUEUED ticket is in a list, about to be, or was dropped with its group.
THEOREM QueuedTicketIsListed == Spec => []QueuedIsListed
<1>1. IInv => QueuedIsListed
  BY DEF IInv
<1> QED BY <1>1, Invariant, PTL

-----------------------------------------------------------------------------
(* The queue implements MatchQueue.                                        *)

\* The state MatchQueue gives a ticket.
Mapped(t) == CASE status[t] = "None" -> "new"
               [] status[t] = "QUEUED" -> "waiting"
               [] status[t] = "CANCELLED" -> "cancelled"
               [] OTHER -> IF t \in UNION matches THEN "matched" ELSE "refused"

MappedState == [t \in Tickets |-> Mapped(t)]

LEMMA MappedTo ==
  ASSUME NEW t \in Tickets
  PROVE  /\ status[t] = "None" => Mapped(t) = "new"
         /\ status[t] = "QUEUED" => Mapped(t) = "waiting"
         /\ status[t] = "CANCELLED" => Mapped(t) = "cancelled"
         /\ status[t] \notin {"None", "QUEUED", "CANCELLED"} =>
              Mapped(t) = IF t \in UNION matches THEN "matched" ELSE "refused"
BY DEF Mapped

\* A step that changes the status of one ticket moves that ticket.
LEMMA MappedOne ==
  ASSUME NEW t \in Tickets, NEW s, status \in [Tickets -> Statuses],
         status' = [status EXCEPT ![t] = s], UNCHANGED matches
  PROVE  MappedState' = [MappedState EXCEPT ![t] = Mapped(t)']
<1>1. ASSUME NEW u \in Tickets, u # t PROVE Mapped(u)' = Mapped(u)
  <2>1. status'[u] = status[u]
    BY <1>1
  <2> QED BY <2>1 DEF Mapped
<1> QED BY <1>1 DEF MappedState

LEMMA InitMaps == Init => Queue!Init
BY DEF Init, Queue!Init

\* What a step that moves one ticket is in MatchQueue.
LEMMA MovesOne ==
  ASSUME NEW t \in Tickets, UNCHANGED matches,
         MappedState' = [MappedState EXCEPT ![t] = Mapped(t)'],
         \/ Mapped(t) = "new" /\ Mapped(t)' \in {"waiting", "cancelled", "refused"}
         \/ Mapped(t) = "waiting" /\ Mapped(t)' = "cancelled"
  PROVE  Queue!Next
<1>1. MappedState[t] = Mapped(t)
  BY DEF MappedState
<1>2. CASE Mapped(t)' = "waiting"
  <2>1. Queue!Queue(t)
    BY <1>1, <1>2 DEF Queue!Queue, Queue!Move, MappedState, Mapped
  <2> QED BY <2>1 DEF Queue!Next
<1>3. CASE Mapped(t)' = "cancelled"
  <2>1. Queue!Cancel(t)
    BY <1>1, <1>3 DEF Queue!Cancel, Queue!Move, MappedState, Mapped
  <2> QED BY <2>1 DEF Queue!Next
<1>4. CASE Mapped(t)' = "refused"
  <2>1. Queue!Refuse(t)
    BY <1>1, <1>4 DEF Queue!Refuse, Queue!Move, MappedState, Mapped
  <2> QED BY <2>1 DEF Queue!Next
<1> QED BY <1>2, <1>3, <1>4


\* A step that only gives the tickets of matches other statuses is a stutter.
LEMMA MatchedStutter ==
  ASSUME IInv, UNCHANGED matches,
         \A t \in Tickets : status'[t] # status[t] =>
           t \in UNION matches /\ status'[t] \notin {"None", "QUEUED", "CANCELLED"}
  PROVE  MappedState' = MappedState
<1>1. ASSUME NEW t \in Tickets PROVE Mapped(t)' = Mapped(t)
  <2>1. t \in UNION matches => status[t] \notin {"None", "QUEUED", "CANCELLED"}
    BY DEF IInv, MatchesOK
  <2> QED BY <2>1 DEF Mapped
<1> QED BY <1>1 DEF MappedState

LEMMA CallerMaps ==
  ASSUME IInv, NEW c \in Callers, CallerStep(c)
  PROVE  Queue!Next \/ UNCHANGED <<MappedState, matches>>
<1>0. UNCHANGED matches /\ status \in [Tickets -> Statuses]
  BY DEF CallerStep, Cleanup, GetWorkerGroup, InsertTicket, ChangeQueued, EnqueueJobRequest,
         EraseRefused, FailRequest, StopMatchmaking, GetCancelGroup, CancelMatchTicket,
         EraseCancelled, workerVars,
         IInv, TypeInv, TypeOK
<1>1. CASE UNCHANGED status
  BY <1>0, <1>1 DEF MappedState, Mapped
<1>2. CASE ChangeQueued(c) /\ ~ UNCHANGED status
  <2>0. PICK t \in Tickets : t = arg[c].request
    BY <1>0, <1>2 DEF ChangeQueued, IInv, RequestsOK, RequestCalls
  <2>1. t \in Tickets /\ status[t] \in Statuses
    BY <2>0, <1>0, <1>2 DEF ChangeQueued, IInv, RequestsOK, RequestCalls
  <2>2. status[t] = "None" /\ status' = [status EXCEPT ![t] = "QUEUED"]
    BY <2>0, <1>2, <2>1, Changes DEF ChangeQueued
  <2>3. Mapped(t) = "new" /\ Mapped(t)' = "waiting"
    BY <1>0, <2>1, <2>2 DEF Mapped
  <2>4. MappedState' = [MappedState EXCEPT ![t] = Mapped(t)']
    BY <1>0, <2>1, <2>2, MappedOne
  <2> QED BY <1>0, <2>1, <2>3, <2>4, MovesOne
<1>3. CASE FailRequest(c) /\ ~ UNCHANGED status
  <2>0. PICK t \in Tickets : t = arg[c].request
    BY <1>0, <1>3 DEF FailRequest, IInv, RequestsOK, RequestCalls
  <2>1. /\ t \in Tickets /\ status[t] \in {"None", "CANCELLED"}
        /\ status' = [status EXCEPT ![t] = IF CanChangeStatus(@, "FAILED") THEN "FAILED" ELSE @]
    BY <2>0, <1>0, <1>3 DEF FailRequest, IInv, RequestsOK, RequestCalls
  <2>2. status[t] = "None" /\ status' = [status EXCEPT ![t] = "FAILED"]
    <3>1. ~ CanChangeStatus("CANCELLED", "FAILED")
      BY DEF CanChangeStatus, NextStatuses
    <3>2. CASE status[t] = "CANCELLED" \/ ~ CanChangeStatus(status[t], "FAILED")
      BY <1>0, <1>3, <2>1, <3>1, <3>2
    <3> QED BY <2>1, <3>2
  <2>3. t \notin UNION matches
    BY <2>2 DEF IInv, MatchesOK
  <2>4. Mapped(t) = "new" /\ Mapped(t)' = "refused"
    BY <1>0, <2>1, <2>2, <2>3 DEF Mapped
  <2>5. MappedState' = [MappedState EXCEPT ![t] = Mapped(t)']
    BY <1>0, <2>1, <2>2, MappedOne
  <2> QED BY <1>0, <2>1, <2>4, <2>5, MovesOne
<1>4. CASE CancelMatchTicket(c) /\ ~ UNCHANGED status
  <2>0. PICK t \in Tickets : t = arg[c].target
    BY <1>0, <1>4 DEF CancelMatchTicket, IInv, RequestsOK, TargetCalls
  <2>1. t \in Tickets /\ status[t] \in Statuses
    BY <2>0, <1>0, <1>4 DEF CancelMatchTicket, IInv, RequestsOK, TargetCalls
  <2>2. status[t] \in {"None", "QUEUED"} /\ status' = [status EXCEPT ![t] = "CANCELLED"]
    BY <2>0, <1>4, <2>1, Changes DEF CancelMatchTicket
  <2>3. Mapped(t) \in {"new", "waiting"} /\ Mapped(t)' = "cancelled"
    BY <1>0, <2>1, <2>2 DEF Mapped
  <2>4. MappedState' = [MappedState EXCEPT ![t] = Mapped(t)']
    BY <1>0, <2>1, <2>2, MappedOne
  <2> QED BY <1>0, <2>1, <2>3, <2>4, MovesOne
<1> QED BY <1>1, <1>2, <1>3, <1>4
        DEF CallerStep, Cleanup, GetWorkerGroup, InsertTicket, EnqueueJobRequest, EraseRefused,
            StopMatchmaking, GetCancelGroup, EraseCancelled

\* What a worker collects is a match of MatchQueue, or is kept.
LEMMA CollectMaps ==
  ASSUME IInv, NEW w \in Workers, Collect(w)
  PROVE  Queue!Next \/ UNCHANGED <<MappedState, matches>>
<1>0. PICK list : list = Collected(w)
  OBVIOUS
<1>1. CASE UNCHANGED <<status, matches>>
  BY <1>1 DEF MappedState, Mapped
<1>2. CASE /\ list \in FullMatches
           /\ \A t \in list : status[t] = "QUEUED"
           /\ status' = [t \in Tickets |-> IF t \in list THEN "SEARCHING" ELSE status[t]]
           /\ matches' = matches \cup {list}
  <2>1. list \subseteq Tickets
    BY <1>2 DEF FullMatches
  <2>2. \A t \in list : MappedState[t] = "waiting"
    BY <1>2, <2>1, MappedTo DEF MappedState
  <2>3. ASSUME NEW t \in Tickets
        PROVE  Mapped(t)' = IF t \in list THEN "matched" ELSE Mapped(t)
    <3>1. CASE t \in list
      <4>1. status'[t] = "SEARCHING" /\ t \in UNION matches'
        BY <1>2, <2>3, <3>1
      <4> QED BY <3>1, <4>1 DEF Mapped
    <3>2. CASE t \notin list
      <4>1. status'[t] = status[t] /\ (t \in UNION matches' <=> t \in UNION matches)
        BY <1>2, <2>3, <3>2
      <4> QED BY <3>2, <4>1 DEF Mapped
    <3> QED BY <3>1, <3>2
  <2>4. MappedState' = [t \in Tickets |-> IF t \in list THEN "matched" ELSE MappedState[t]]
    BY <2>3 DEF MappedState
  <2>5. Queue!Match(list)
    BY <1>2, <2>2, <2>4 DEF Queue!Match, MappedState, Mapped
  <2> QED BY <1>2, <2>5 DEF Queue!Next
<1> QED BY <1>0, <1>1, <1>2, CollectStep

LEMMA WorkerMaps ==
  ASSUME IInv, NEW w \in Workers, WorkerStep(w)
  PROVE  Queue!Next \/ UNCHANGED <<MappedState, matches>>
<1>1. CASE Collect(w)
  BY <1>1, CollectMaps
<1>2. CASE CreateMatchSession(w)
  <2>1. UNCHANGED matches /\ \A t \in Tickets : status'[t] # status[t] =>
          t \in UNION matches /\ status'[t] \notin {"None", "QUEUED", "CANCELLED"}
    BY <1>2, PickedOnes DEF CreateMatchSession
  <2> QED BY <2>1, MatchedStutter
<1>3. ASSUME NEW t \in Tickets, OnExpireMatchmaking(w, t) \/ EraseFailed(w, t)
      PROVE  UNCHANGED <<MappedState, matches>>
  BY <1>3 DEF OnExpireMatchmaking, EraseFailed, Done, MappedState, Mapped
<1>4. ASSUME NEW t \in Tickets, OnFailedMatchmaking(w, t)
      PROVE  UNCHANGED <<MappedState, matches>>
  <2>1. UNCHANGED matches /\ \A u \in Tickets : status'[u] # status[u] =>
          u \in UNION matches /\ status'[u] \notin {"None", "QUEUED", "CANCELLED"}
    BY <1>4, PickedOnes DEF OnFailedMatchmaking, Done
  <2> QED BY <2>1, MatchedStutter
<1> QED BY <1>1, <1>2, <1>3, <1>4 DEF WorkerStep

LEMMA StepMaps == IInv /\ [Next]_vars => [Queue!Next]_Queue!queueVars
<1> SUFFICES ASSUME IInv, [Next]_vars
             PROVE  Queue!Next \/ UNCHANGED <<MappedState, matches>>
  BY DEF Queue!queueVars, MappedState, Mapped
<1>1. CASE UNCHANGED <<status, matches>>
  BY <1>1 DEF MappedState, Mapped
<1>2. ASSUME NEW c \in Callers, CallerStep(c)
      PROVE  Queue!Next \/ UNCHANGED <<MappedState, matches>>
  BY <1>2, CallerMaps
<1>3. ASSUME NEW w \in Workers, WorkerStep(w)
      PROVE  Queue!Next \/ UNCHANGED <<MappedState, matches>>
  BY <1>3, WorkerMaps
<1> QED BY <1>1, <1>2, <1>3
        DEF Next, CallStart, CallStop, Start, Terminate, Join, workerVars, vars

\* SoloQueue implements MatchQueue: whatever the order of callers, workers and
\* restarts, a ticket is in one match at most, a match has exactly the players of
\* the rule, and a cancelled ticket is never matched.
THEOREM SoloQueueImplementsQueue == Spec => ImplementsQueue
<1>1. Init => Queue!Init
  BY InitMaps
<1>2. IInv /\ [Next]_vars => [Queue!Next]_Queue!queueVars
  BY StepMaps
<1> QED BY <1>1, <1>2, Invariant, PTL DEF Spec, ImplementsQueue, Queue!Spec

\* What is proved of MatchQueue, for the state the refinement reads off this one.
Promise == INSTANCE MatchQueue_proofs WITH state <- MappedState

LEMMA SamePromise ==
  /\ Queue!Init <=> Promise!Init
  /\ [Queue!Next]_Queue!queueVars <=> [Promise!Next]_Promise!queueVars
BY DEF Queue!Init, Queue!Next, Queue!Move, Queue!Queue, Queue!Cancel, Queue!Refuse,
       Queue!Match, Queue!queueVars, Promise!Init, Promise!Next, Promise!Move, Promise!Queue,
       Promise!Cancel, Promise!Refuse, Promise!Match, Promise!queueVars, MappedState, Mapped

\* A ticket is in a match exactly if it is matched, in one match only, and every
\* match is full: by the refinement this holds here too.
THEOREM TicketsAreMatchedOnce == Spec => []Promise!MatchedOnce
<1>1. Init => Promise!Init
  BY InitMaps, SamePromise
<1>2. IInv /\ [Next]_vars => [Promise!Next]_Promise!queueVars
  BY StepMaps, SamePromise
<1>3. FullMatches \subseteq SUBSET Tickets
  BY DEF FullMatches
<1>4. Promise!Spec => []Promise!MatchedOnce
  BY <1>3, Promise!QueueMatchesOnce
<1> QED BY <1>1, <1>2, <1>4, Invariant, PTL DEF Spec, Promise!Spec

-----------------------------------------------------------------------------
(* No player is in a match twice.                                          *)

\* The ticket can still be matched by the group of this start.
Waits(t) ==
  /\ status[t] \in {"None", "QUEUED"}
  /\ \/ \E w \in Workers : t \in Held(w)
     \/ \E c \in Callers : /\ pc[c] \in {"ChangeQueued", "Enqueue"}
                           /\ arg[c].request = t /\ arg[c].group = started

\* Such a ticket is in the map, where no two have a common player, unless a stop has
\* erased it.
WaitsOK == \A t \in Tickets : Waits(t) => t \in ticketMap \cup forgotten

PlayersOK == WaitsOK /\ NoPlayerTwice

LEMMA InitPlayers == Init => PlayersOK
BY DEF Init, PlayersOK, WaitsOK, Waits, Held, NoPlayerTwice

\* No step makes a ticket wait, but the insert into the map.
LEMMA StepWaits ==
  ASSUME IInv, [Next]_vars
  PROVE  \A t \in Tickets : Waits(t)' => Waits(t) \/ t \in ticketMap'
<1>0. /\ status \in [Tickets -> Statuses] /\ waiting \in [Workers -> SUBSET Tickets]
      /\ progressing \in [Workers -> SUBSET Tickets] /\ started \in Nat
      /\ pc \in [Callers -> Calls] /\ arg \in [Callers -> [request : Tickets \cup {NoTicket},
                                      target : Tickets \cup {NoTicket}, group : 0 .. MaxStarts]]
  BY SoloAssumption DEF IInv, TypeInv, TypeOK
<1>1. ASSUME UNCHANGED started,
             \A t \in Tickets : status'[t] \in {"None", "QUEUED"} =>
               status[t] \in {"None", "QUEUED"},
             \A w \in Workers : Held(w)' \subseteq Held(w),
             \A c \in Callers : pc'[c] \in {"ChangeQueued", "Enqueue"} =>
               pc[c] \in {"ChangeQueued", "Enqueue"} /\ arg'[c] = arg[c]
      PROVE  \A t \in Tickets : Waits(t)' => Waits(t)
  BY <1>1, Zenon DEF Waits
<1>2. ASSUME NEW c \in Callers, NEW d, pc' = [pc EXCEPT ![c] = d],
             UNCHANGED <<status, listVars, started>>,
             d \in {"ChangeQueued", "Enqueue"} =>
               pc[c] \in {"ChangeQueued", "Enqueue"} /\ UNCHANGED arg,
             \A b \in Callers \ {c} : arg'[b] = arg[b]
      PROVE  \A t \in Tickets : Waits(t)' => Waits(t)
  BY <1>0, <1>1, <1>2 DEF Held, listVars
<1>3. ASSUME NEW c \in Callers, CallerStep(c)
      PROVE  \A t \in Tickets : Waits(t)' => Waits(t) \/ t \in ticketMap'
  <2>0. UNCHANGED started
    BY <1>3 DEF CallerStep, Cleanup, GetWorkerGroup, InsertTicket, ChangeQueued,
                EnqueueJobRequest, EraseRefused, FailRequest, StopMatchmaking, GetCancelGroup,
                CancelMatchTicket, EraseCancelled, groupVars
  <2>1. CASE InsertTicket(c)
    <3>1. PICK r \in Tickets : r = arg[c].request
      BY <2>1 DEF InsertTicket, IInv, RequestsOK, RequestCalls
    <3>2. CASE InsertMatchTicket(r) /\ Goto(c, "ChangeQueued")
      <4>1. r \in ticketMap' /\ UNCHANGED <<status, listVars, arg>>
        BY <2>1, <3>2 DEF InsertMatchTicket, InsertTicket, Goto
      <4>2. \A b \in Callers \ {c} : pc'[b] = pc[b]
        BY <1>0, <3>2 DEF Goto
      <4>3. ASSUME NEW u \in Tickets, u # r, Waits(u)' PROVE Waits(u)
        <5>1. \A w \in Workers : Held(w)' = Held(w)
          BY <4>1 DEF Held, listVars
        <5>2. arg'[c].request # u
          BY <3>1, <4>1, <4>3
        <5> QED BY <2>0, <4>1, <4>2, <4>3, <5>1, <5>2 DEF Waits
      <4> QED BY <4>1, <4>3
    <3>3. CASE Goto(c, "Fail")
      BY <1>0, <1>2, <2>0, <2>1, <3>3 DEF Goto, InsertTicket
    <3> QED BY <2>1, <3>1, <3>2, <3>3 DEF InsertTicket
  <2>2. CASE \/ Cleanup(c) \/ GetWorkerGroup(c) \/ EraseRefused(c) \/ StopMatchmaking(c)
             \/ GetCancelGroup(c) \/ EraseCancelled(c)
    <3>1. PICK d \in Calls \ {"ChangeQueued", "Enqueue"} : pc' = [pc EXCEPT ![c] = d]
      BY <2>2 DEF Cleanup, GetWorkerGroup, EraseRefused, StopMatchmaking, GetCancelGroup,
                  EraseCancelled, Goto, Calls
    <3>2. UNCHANGED <<status, listVars>> /\ \A b \in Callers \ {c} : arg'[b] = arg[b]
      BY <1>0, <2>2 DEF Cleanup, GetWorkerGroup, EraseRefused, StopMatchmaking,
                        GetCancelGroup, EraseCancelled, Goto
    <3> QED BY <1>2, <2>0, <3>1, <3>2
  <2>3. CASE ChangeQueued(c)
    <3>1. PICK t \in Tickets : t = arg[c].request
      BY <2>3 DEF ChangeQueued, IInv, RequestsOK, RequestCalls
    <3>2. /\ UNCHANGED listVars /\ pc[c] = "ChangeQueued"
          /\ \/ /\ status' = [status EXCEPT ![t] = "QUEUED"] /\ status[t] = "None"
                /\ Goto(c, "Enqueue")
             \/ UNCHANGED status /\ Goto(c, "EraseRefused")
      BY <1>0, <2>3, <3>1, Changes DEF ChangeQueued
    <3>3. \A u \in Tickets : status'[u] \in {"None", "QUEUED"} =>
            status[u] \in {"None", "QUEUED"}
      BY <1>0, <3>2
    <3>4. \A b \in Callers : pc'[b] \in {"ChangeQueued", "Enqueue"} =>
            pc[b] \in {"ChangeQueued", "Enqueue"} /\ arg'[b] = arg[b]
      BY <1>0, <3>2 DEF Goto
    <3> QED BY <1>1, <2>0, <3>2, <3>3, <3>4 DEF Held, listVars
  <2>4. CASE FailRequest(c)
    <3>1. PICK t \in Tickets : t = arg[c].request
      BY <2>4 DEF FailRequest, IInv, RequestsOK, RequestCalls
    <3>2. /\ UNCHANGED listVars /\ Goto(c, "Idle")
          /\ \A u \in Tickets : status'[u] \in {"None", "QUEUED"} =>
               status[u] \in {"None", "QUEUED"}
      BY <1>0, <2>4, <3>1 DEF FailRequest
    <3>3. \A b \in Callers : pc'[b] \in {"ChangeQueued", "Enqueue"} =>
            pc[b] \in {"ChangeQueued", "Enqueue"} /\ arg'[b] = arg[b]
      BY <1>0, <3>2 DEF Goto
    <3> QED BY <1>1, <2>0, <3>2, <3>3 DEF Held, listVars
  <2>5. CASE CancelMatchTicket(c)
    <3>1. PICK t \in Tickets : t = arg[c].target
      BY <2>5 DEF CancelMatchTicket, IInv, RequestsOK, TargetCalls
    <3>2. \A u \in Tickets : status'[u] \in {"None", "QUEUED"} =>
            status[u] \in {"None", "QUEUED"}
      BY <1>0, <2>5, <3>1 DEF CancelMatchTicket
    <3>3. \A w \in Workers : Held(w)' \subseteq Held(w)
      BY <1>0, <2>5, <3>1 DEF CancelMatchTicket, Held, listVars
    <3>4. Goto(c, "EraseCancelled") \/ Goto(c, "Idle")
      BY <2>5 DEF CancelMatchTicket
    <3>5. \A b \in Callers : pc'[b] \in {"ChangeQueued", "Enqueue"} =>
            pc[b] \in {"ChangeQueued", "Enqueue"} /\ arg'[b] = arg[b]
      BY <1>0, <3>4 DEF Goto
    <3> QED BY <1>1, <2>0, <3>2, <3>3, <3>5
  <2>6. CASE EnqueueJobRequest(c)
    <3>1. PICK t \in Tickets : t = arg[c].request
      BY <2>6 DEF EnqueueJobRequest, IInv, RequestsOK, RequestCalls
    <3>2. pc[c] = "Enqueue" /\ UNCHANGED <<status, progressing>>
      BY <2>6 DEF EnqueueJobRequest
    <3>3. \A b \in Callers : pc'[b] \in {"ChangeQueued", "Enqueue"} =>
            pc[b] \in {"ChangeQueued", "Enqueue"} /\ arg'[b] = arg[b]
      BY <1>0, <2>6 DEF EnqueueJobRequest, Goto
    <3>4. \/ UNCHANGED waiting
          \/ /\ arg[c].group = started /\ status[t] = "QUEUED"
             /\ waiting' = [waiting EXCEPT ![WorkerOf(t)] = @ \cup {t}]
      BY <1>0, <2>6, <3>1, WorkerOfType DEF EnqueueJobRequest, HasQueues, listVars
    <3>5. CASE UNCHANGED waiting
      BY <1>1, <2>0, <3>2, <3>3, <3>5 DEF Held
    <3>6. CASE /\ arg[c].group = started /\ status[t] = "QUEUED"
               /\ waiting' = [waiting EXCEPT ![WorkerOf(t)] = @ \cup {t}]
      <4>1. Waits(t)
        BY <3>1, <3>2, <3>6 DEF Waits
      <4>2. ASSUME NEW u \in Tickets, u # t, Waits(u)' PROVE Waits(u)
        <5>1. \A w \in Workers : u \in Held(w)' => u \in Held(w)
          BY <1>0, <3>2, <3>6, <4>2 DEF Held
        <5> QED BY <2>0, <3>2, <3>3, <4>2, <5>1 DEF Waits
      <4> QED BY <4>1, <4>2
    <3> QED BY <3>4, <3>5, <3>6
  <2> QED BY <1>3, <2>1, <2>2, <2>3, <2>4, <2>5, <2>6 DEF CallerStep
<1>4. ASSUME NEW w \in Workers, Collect(w)
      PROVE  \A t \in Tickets : Waits(t)' => Waits(t)
  <2>1. PICK list : list = Collected(w)
    OBVIOUS
  <2>2. Taken(w) \subseteq waiting[w] /\ list = progressing[w] \cup Taken(w)
    BY <1>4, <2>1, TakenOnes DEF Collect, Collected
  <2>3. /\ waiting' = [waiting EXCEPT ![w] = @ \ Taken(w)]
        /\ progressing' = [progressing EXCEPT ![w] = Rest(list)]
        /\ UNCHANGED <<pc, arg, started>> /\ Rest(list) \subseteq list
        /\ \/ UNCHANGED status
           \/ status' = [t \in Tickets |-> IF t \in list THEN "SEARCHING" ELSE status[t]]
    BY <1>4, <2>1, CollectStep DEF callerVars, groupVars, Rest
  <2>4. \A v \in Workers : Held(v)' \subseteq Held(v)
    BY <1>0, <2>2, <2>3 DEF Held
  <2>5. \A t \in Tickets : status'[t] \in {"None", "QUEUED"} =>
          status[t] \in {"None", "QUEUED"}
    BY <2>3
  <2> QED BY <1>1, <2>3, <2>4, <2>5
<1>5. ASSUME NEW w \in Workers, WorkerStep(w), ~ Collect(w)
      PROVE  \A t \in Tickets : Waits(t)' => Waits(t)
  <2>1. /\ UNCHANGED <<listVars, callerVars, started>>
        /\ \A t \in Tickets : status'[t] \in {"None", "QUEUED"} =>
             status[t] \in {"None", "QUEUED"}
    BY <1>0, <1>5 DEF WorkerStep, CreateMatchSession, OnExpireMatchmaking,
                      OnFailedMatchmaking, EraseFailed, Done, groupVars
  <2> QED BY <1>1, <2>1 DEF Held, listVars, callerVars
<1>6. ASSUME NEW c \in Callers, NEW t \in Tickets, CallStart(c, t)
      PROVE  \A u \in Tickets : Waits(u)' => Waits(u)
  BY <1>0, <1>2, <1>6 DEF CallStart, groupVars
<1>7. ASSUME NEW c \in Callers, NEW p \in Players, CallStop(c, p)
      PROVE  \A u \in Tickets : Waits(u)' => Waits(u)
  BY <1>0, <1>2, <1>7 DEF CallStop, groupVars
<1>8. CASE Start
  <2>1. /\ UNCHANGED <<pc, arg>> /\ started' = started + 1
        /\ \A w \in Workers : Held(w)' = {}
    BY <1>8 DEF Start, callerVars, listVars, Held, IInv, ListsOK
  <2>2. \A c \in Callers : arg[c].group # started + 1
    <3> SUFFICES ASSUME NEW c \in Callers PROVE arg[c].group # started + 1
      OBVIOUS
    <3>1. arg[c].group <= started /\ arg[c].group \in Nat
      BY <1>0, SoloAssumption DEF IInv, RequestsOK
    <3> QED BY <1>0, <3>1
  <2> QED BY <2>1, <2>2 DEF Waits
<1>9. CASE Terminate \/ Join \/ UNCHANGED vars
  <2>1. UNCHANGED <<status, pc, arg, started>> /\ \A w \in Workers : Held(w)' \subseteq Held(w)
    BY <1>9 DEF Terminate, Join, callerVars, listVars, vars, Held
  <2> QED BY <1>1, <2>1
<1> QED BY <1>3, <1>4, <1>5, <1>6, <1>7, <1>8, <1>9 DEF Next

\* A ticket that is erased does not wait any more, but one a stop could not cancel.
LEMMA ErasedOnes ==
  ASSUME IInv, [Next]_vars
  PROVE  /\ forgotten \subseteq forgotten'
         /\ \A t \in ticketMap \ ticketMap' :
              status'[t] \in {"None", "QUEUED"} => t \in forgotten'
<1>1. CASE UNCHANGED <<ticketMap, forgotten>>
  BY <1>1
<1>2. ASSUME NEW c \in Callers, InsertTicket(c)
      PROVE  ticketMap \subseteq ticketMap' /\ UNCHANGED forgotten
  BY <1>2 DEF InsertTicket, InsertMatchTicket, mapVars, groupVars
<1>3. ASSUME NEW c \in Callers, EraseRefused(c)
      PROVE  /\ UNCHANGED forgotten
             /\ \A t \in ticketMap \ ticketMap' : status'[t] = "CANCELLED"
  BY <1>3 DEF EraseRefused, EraseMatchTicket, groupVars, IInv, RequestsOK
<1>4. ASSUME NEW c \in Callers, EraseCancelled(c)
      PROVE  /\ forgotten \subseteq forgotten'
             /\ \A t \in ticketMap \ ticketMap' : status'[t] = "CANCELLED" \/ t \in forgotten'
  BY <1>4 DEF EraseCancelled, EraseMatchTicket
<1>5. ASSUME NEW w \in Workers, NEW t \in Tickets,
             OnExpireMatchmaking(w, t) \/ EraseFailed(w, t)
      PROVE  /\ UNCHANGED forgotten
             /\ \A u \in ticketMap \ ticketMap' : status'[u] \notin {"None", "QUEUED"}
  <2>1. UNCHANGED <<status, forgotten>> /\ ticketMap \ ticketMap' \subseteq {t}
    BY <1>5 DEF OnExpireMatchmaking, EraseFailed, Forget, EraseMatchTicket, mapVars, groupVars
  <2>2. t \in picked[w] /\ status[t] \notin {"None", "QUEUED"}
    BY <1>5 DEF OnExpireMatchmaking, EraseFailed, IInv, MatchesOK
  <2> QED BY <2>1, <2>2
<1>6. CASE UNCHANGED vars
  BY <1>1, <1>6 DEF vars
<1>7. CASE Start \/ Terminate \/ Join
  BY <1>1, <1>7 DEF Start, Terminate, Join, mapVars
<1>8. ASSUME NEW c \in Callers, CallerStep(c),
             ~ InsertTicket(c), ~ EraseRefused(c), ~ EraseCancelled(c)
      PROVE  UNCHANGED <<ticketMap, forgotten>>
  BY <1>8 DEF CallerStep, Cleanup, GetWorkerGroup, ChangeQueued, EnqueueJobRequest, FailRequest,
              StopMatchmaking, GetCancelGroup, CancelMatchTicket, mapVars, groupVars
<1>9. ASSUME NEW w \in Workers, Collect(w) \/ CreateMatchSession(w)
      PROVE  UNCHANGED <<ticketMap, forgotten>>
  BY <1>9 DEF Collect, CreateMatchSession, mapVars, groupVars
<1>10. ASSUME NEW w \in Workers, NEW t \in Tickets, OnFailedMatchmaking(w, t)
       PROVE  UNCHANGED <<ticketMap, forgotten>>
  BY <1>10 DEF OnFailedMatchmaking, mapVars, groupVars
<1>11. ASSUME NEW c \in Callers, NEW t \in Tickets, CallStart(c, t)
       PROVE  UNCHANGED <<ticketMap, forgotten>>
  BY <1>11 DEF CallStart, mapVars, groupVars
<1>12. ASSUME NEW c \in Callers, NEW p \in Players, CallStop(c, p)
       PROVE  UNCHANGED <<ticketMap, forgotten>>
  BY <1>12 DEF CallStop, mapVars, groupVars
<1>13. ASSUME NEW c \in Callers, CallerStep(c)
       PROVE  /\ forgotten \subseteq forgotten'
              /\ \A t \in ticketMap \ ticketMap' :
                   status'[t] \in {"None", "QUEUED"} => t \in forgotten'
  BY <1>2, <1>3, <1>4, <1>8, <1>13
<1>14. ASSUME NEW w \in Workers, WorkerStep(w)
       PROVE  /\ forgotten \subseteq forgotten'
              /\ \A t \in ticketMap \ ticketMap' :
                   status'[t] \in {"None", "QUEUED"} => t \in forgotten'
  BY <1>5, <1>9, <1>10, <1>14 DEF WorkerStep
<1> QED BY <1>1, <1>6, <1>7, <1>11, <1>12, <1>13, <1>14 DEF Next

LEMMA NextPlayers == IInv /\ PlayersOK /\ [Next]_vars => PlayersOK'
<1> SUFFICES ASSUME IInv, PlayersOK, [Next]_vars PROVE PlayersOK'
  OBVIOUS
<1>1. WaitsOK'
  <2>1. \A t \in Tickets : Waits(t)' => t \in ticketMap' \/ t \in ticketMap \cup forgotten
    BY StepWaits DEF PlayersOK, WaitsOK
  <2>2. \A t \in Tickets : Waits(t)' => status'[t] \in {"None", "QUEUED"}
    BY DEF Waits
  <2> QED BY <2>1, <2>2, ErasedOnes DEF WaitsOK
<1>2. NoPlayerTwice'
  <2>0. forgotten \subseteq forgotten'
    BY ErasedOnes
  <2>1. CASE UNCHANGED matches
    BY <2>0, <2>1 DEF PlayersOK, NoPlayerTwice
  <2>2. ASSUME NEW w \in Workers, Collect(w), matches' = matches \cup {Collected(w)}
        PROVE  NoPlayerTwice'
    <3>1. /\ waiting[w] # {} /\ Taken(w) \subseteq waiting[w]
          /\ Collected(w) \subseteq Held(w) /\ Held(w) \subseteq Tickets
      BY <2>2, TakenOnes DEF Collect, Collected, Held, IInv, TypeInv, TypeOK
    <3>2. \A t \in Collected(w) : t \in Tickets /\ t \in ticketMap \cup forgotten
      BY <3>1 DEF Waits, IInv, ListsOK, PlayersOK, WaitsOK
    <3>3. ASSUME NEW t \in Collected(w), NEW u \in Collected(w), t # u,
                 t \notin forgotten, u \notin forgotten
          PROVE  PlayersOf[t] \cap PlayersOf[u] = {}
      <4>1. t \in ticketMap /\ u \in ticketMap /\ t \in Tickets /\ u \in Tickets
        BY <3>2, <3>3
      <4> QED BY <3>3, <4>1, TicketsAssumption
              DEF IInv, TypeInv, MapOK, MapTypeOK, IndexMatchesTickets
    <3> QED BY <2>0, <2>2, <3>3 DEF PlayersOK, NoPlayerTwice
  <2>3. ASSUME NEW w \in Workers, Collect(w) PROVE NoPlayerTwice'
    BY <2>1, <2>2, <2>3, CollectStep
  <2>4. \/ UNCHANGED matches \/ \E w \in Workers : Collect(w)
    BY DEF Next, CallStart, CallStop, CallerStep, Cleanup, GetWorkerGroup, InsertTicket,
           ChangeQueued, EnqueueJobRequest, EraseRefused, FailRequest, StopMatchmaking,
           GetCancelGroup, CancelMatchTicket, EraseCancelled, WorkerStep, CreateMatchSession,
           OnExpireMatchmaking, OnFailedMatchmaking, EraseFailed, Done, Start, Terminate, Join,
           workerVars, vars
  <2> QED BY <2>1, <2>3, <2>4
<1> QED BY <1>1, <1>2 DEF PlayersOK

\* No player is in a match twice, over any number of starts and stops of the manager,
\* but with a ticket that a stop erased while its worker kept it: what still waits
\* and was not erased that way is in the map, and the map has a player once.
THEOREM NoPlayerIsMatchedTwice == Spec => []NoPlayerTwice
<1>1. Init => PlayersOK
  BY InitPlayers
<1>2. IInv /\ PlayersOK /\ [Next]_vars => PlayersOK'
  BY NextPlayers
<1>3. PlayersOK => NoPlayerTwice
  BY DEF PlayersOK
<1> QED BY <1>1, <1>2, <1>3, Invariant, PTL DEF Spec

-----------------------------------------------------------------------------
(* The statuses of the tickets a worker handles.                           *)

\* The tickets of worker w are its own, and have the status of how far w has come.
HandsOut(w) ==
  /\ \A t \in picked[w] : WorkerOf(t) = w
  /\ work[w] \in {"Create", "OnFailed"} => \A t \in picked[w] : status[t] = "SEARCHING"
  /\ work[w] = "Expire" => \A t \in picked[w] : status[t] = "REQUIRES_ACCEPTANCE"
  /\ work[w] = "EraseFailed" =>
       \E t \in picked[w] :
         /\ status[t] = "FAILED"
         /\ \A u \in picked[w] \ {t} : status[u] = "SEARCHING"

HandledOK == \A w \in Workers : HandsOut(w)

Allowed == \A t \in Tickets : status'[t] # status[t] => CanChangeStatus(status[t], status'[t])

LEMMA AllowedChanges ==
  /\ CanChangeStatus("QUEUED", "SEARCHING") /\ CanChangeStatus("SEARCHING", "FAILED")
  /\ CanChangeStatus("SEARCHING", "REQUIRES_ACCEPTANCE")
BY DEF CanChangeStatus, NextStatuses

\* A step of the others: it changes no ticket of a match.
LEMMA OthersKeepHandled ==
  ASSUME IInv, HandledOK, UNCHANGED <<work, picked>>,
         \A t \in UNION matches : status'[t] = status[t]
  PROVE  HandledOK'
<1> SUFFICES ASSUME NEW w \in Workers PROVE HandsOut(w)'
  BY DEF HandledOK
<1>1. HandsOut(w) /\ \A t \in picked[w] : status'[t] = status[t]
  BY PickedOnes DEF HandledOK
<1> QED BY <1>1 DEF HandsOut

LEMMA CallerKeepsHandled ==
  ASSUME IInv, HandledOK, NEW c \in Callers, CallerStep(c)
  PROVE  HandledOK' /\ Allowed
<1>0. /\ status \in [Tickets -> Statuses] /\ UNCHANGED <<work, picked>>
      /\ \A t \in UNION matches : status[t] \notin {"None", "QUEUED", "CANCELLED"}
  BY DEF IInv, TypeInv, TypeOK, MatchesOK, CallerStep, Cleanup, GetWorkerGroup, InsertTicket,
         ChangeQueued, EnqueueJobRequest, EraseRefused, FailRequest, StopMatchmaking,
         GetCancelGroup, CancelMatchTicket,
         EraseCancelled, workerVars
<1>1. CASE UNCHANGED status
  BY <1>0, <1>1, OthersKeepHandled DEF Allowed
<1>2. ASSUME NEW t \in Tickets, NEW s \in Statuses, status[t] \in {"None", "QUEUED"},
             status' = [status EXCEPT ![t] = s], CanChangeStatus(status[t], s)
      PROVE  HandledOK' /\ Allowed
  <2>1. \A u \in UNION matches : status'[u] = status[u]
    BY <1>0, <1>2
  <2>2. Allowed
    BY <1>0, <1>2 DEF Allowed
  <2> QED BY <1>0, <2>1, <2>2, OthersKeepHandled
<1>3. CASE ChangeQueued(c) /\ ~ UNCHANGED status
  <2>1. PICK t \in Tickets : t = arg[c].request
    BY <1>3 DEF ChangeQueued, IInv, RequestsOK, RequestCalls
  <2>2. /\ status' = [status EXCEPT ![t] = "QUEUED"] /\ CanChangeStatus(status[t], "QUEUED")
        /\ status[t] = "None"
    BY <1>0, <1>3, <2>1, Changes DEF ChangeQueued
  <2> QED BY <1>2, <2>2 DEF Statuses
<1>4. CASE FailRequest(c) /\ ~ UNCHANGED status
  <2>1. PICK t \in Tickets : t = arg[c].request /\ status[t] \in {"None", "CANCELLED"}
    BY <1>4 DEF FailRequest, IInv, RequestsOK, RequestCalls
  <2>2. /\ status' = [status EXCEPT ![t] = "FAILED"] /\ CanChangeStatus(status[t], "FAILED")
    <3>1. status' = [status EXCEPT ![t] = IF CanChangeStatus(status[t], "FAILED")
                                          THEN "FAILED" ELSE status[t]]
      BY <1>4, <2>1 DEF FailRequest
    <3>2. CanChangeStatus(status[t], "FAILED")
      BY <1>0, <1>4, <3>1
    <3> QED BY <3>1, <3>2
  <2>3. status[t] = "None"
    <3>1. ~ CanChangeStatus("CANCELLED", "FAILED")
      BY DEF CanChangeStatus, NextStatuses
    <3> QED BY <2>1, <2>2, <3>1
  <2> QED BY <1>2, <2>2, <2>3 DEF Statuses
<1>5. CASE CancelMatchTicket(c) /\ ~ UNCHANGED status
  <2>1. PICK t \in Tickets : t = arg[c].target
    BY <1>5 DEF CancelMatchTicket, IInv, RequestsOK, TargetCalls
  <2>2. /\ status' = [status EXCEPT ![t] = "CANCELLED"]
        /\ CanChangeStatus(status[t], "CANCELLED") /\ status[t] \in {"None", "QUEUED"}
    BY <1>0, <1>5, <2>1, Changes DEF CancelMatchTicket
  <2> QED BY <1>2, <2>2 DEF Statuses
<1> QED BY <1>1, <1>3, <1>4, <1>5
        DEF CallerStep, Cleanup, GetWorkerGroup, InsertTicket, EnqueueJobRequest, EraseRefused,
            StopMatchmaking, GetCancelGroup, EraseCancelled

\* A step of worker w that changes tickets of w only.
LEMMA OwnKeepsHandled ==
  ASSUME IInv, HandledOK, NEW w \in Workers, HandsOut(w)',
         \A t \in Tickets : WorkerOf(t) # w => status'[t] = status[t],
         \A v \in Workers \ {w} : work'[v] = work[v] /\ picked'[v] = picked[v]
  PROVE  HandledOK'
<1> SUFFICES ASSUME NEW v \in Workers, v # w PROVE HandsOut(v)'
  BY DEF HandledOK
<1>1. HandsOut(v) /\ work'[v] = work[v] /\ picked'[v] = picked[v]
  BY DEF HandledOK
<1>2. \A t \in picked[v] : status'[t] = status[t]
  BY <1>1, PickedOnes DEF HandsOut
<1> QED BY <1>1, <1>2 DEF HandsOut

LEMMA WorkerKeepsHandled ==
  ASSUME IInv, HandledOK, NEW w \in Workers, WorkerStep(w)
  PROVE  HandledOK' /\ Allowed
<1>0. /\ work \in [Workers -> Works] /\ picked \in [Workers -> SUBSET Tickets]
      /\ status \in [Tickets -> Statuses] /\ HandsOut(w)
  BY DEF IInv, TypeInv, TypeOK, HandledOK
<1>1. CASE Collect(w)
  <2>1. PICK list : list = Collected(w)
    OBVIOUS
  <2>2. list \subseteq Held(w) /\ list \subseteq Tickets
    BY <1>1, <2>1, TakenOnes DEF Collect, Collected, Held
  <2>3. CASE UNCHANGED <<status, picked, work>>
    BY <2>3 DEF HandledOK, HandsOut, Allowed
  <2>4. CASE /\ \A t \in list : status[t] = "QUEUED"
             /\ status' = [t \in Tickets |-> IF t \in list THEN "SEARCHING" ELSE status[t]]
             /\ picked' = [picked EXCEPT ![w] = list]
             /\ work' = [work EXCEPT ![w] = "Create"]
    <3>1. Allowed
      BY <1>0, <2>4, AllowedChanges DEF Allowed
    <3>2. \A t \in list : WorkerOf(t) = w
      BY <2>2 DEF IInv, ListsOK
    <3>3. HandsOut(w)'
      BY <1>0, <2>2, <2>4, <3>2 DEF HandsOut
    <3>4. /\ \A t \in Tickets : WorkerOf(t) # w => status'[t] = status[t]
          /\ \A v \in Workers \ {w} : work'[v] = work[v] /\ picked'[v] = picked[v]
      BY <1>0, <2>4, <3>2
    <3> QED BY <3>1, <3>3, <3>4, OwnKeepsHandled
  <2> QED BY <1>1, <2>1, <2>3, <2>4, CollectStep
<1>2. CASE CreateMatchSession(w)
  <2>1. /\ UNCHANGED picked /\ \A t \in picked[w] : status[t] = "SEARCHING" /\ WorkerOf(t) = w
        /\ \/ /\ status' = [t \in Tickets |->
                              IF t \in picked[w] THEN "REQUIRES_ACCEPTANCE" ELSE status[t]]
              /\ work' = [work EXCEPT ![w] = "Expire"]
           \/ UNCHANGED status /\ work' = [work EXCEPT ![w] = "OnFailed"]
    BY <1>0, <1>2 DEF CreateMatchSession, HandsOut
  <2>2. HandsOut(w)' /\ Allowed
    BY <1>0, <2>1, AllowedChanges DEF HandsOut, Allowed
  <2>3. /\ \A t \in Tickets : WorkerOf(t) # w => status'[t] = status[t]
        /\ \A v \in Workers \ {w} : work'[v] = work[v] /\ picked'[v] = picked[v]
    BY <1>0, <2>1
  <2> QED BY <2>2, <2>3, OwnKeepsHandled
<1>3. ASSUME NEW t \in Tickets, OnFailedMatchmaking(w, t) PROVE HandledOK' /\ Allowed
  <2>1. /\ t \in picked[w] /\ WorkerOf(t) = w
        /\ \A u \in picked[w] : status[u] = "SEARCHING" /\ WorkerOf(u) = w
    BY <1>0, <1>3 DEF OnFailedMatchmaking, HandsOut
  <2>2. /\ status' = [status EXCEPT ![t] = "FAILED"]
        /\ work' = [work EXCEPT ![w] = "EraseFailed"] /\ UNCHANGED picked
    BY <1>3, <2>1, AllowedChanges DEF OnFailedMatchmaking
  <2>3. HandsOut(w)' /\ Allowed
    BY <1>0, <2>1, <2>2, AllowedChanges DEF HandsOut, Allowed
  <2>4. /\ \A u \in Tickets : WorkerOf(u) # w => status'[u] = status[u]
        /\ \A v \in Workers \ {w} : work'[v] = work[v] /\ picked'[v] = picked[v]
    BY <1>0, <2>1, <2>2
  <2> QED BY <2>3, <2>4, OwnKeepsHandled
<1>4. ASSUME NEW t \in Tickets, OnExpireMatchmaking(w, t) \/ EraseFailed(w, t)
      PROVE  HandledOK' /\ Allowed
  <2>1. /\ UNCHANGED status /\ t \in picked[w]
        /\ picked' = [picked EXCEPT ![w] = picked[w] \ {t}]
        /\ \A u \in picked[w] : WorkerOf(u) = w
    BY <1>0, <1>4 DEF OnExpireMatchmaking, EraseFailed, Done, HandsOut
  <2>2. \/ /\ \A u \in picked[w] : status[u] = "REQUIRES_ACCEPTANCE"
           /\ work' = [work EXCEPT ![w] = IF picked[w] = {t} THEN "Idle" ELSE "Expire"]
        \/ /\ \A u \in picked[w] \ {t} : status[u] = "SEARCHING"
           /\ work' = [work EXCEPT ![w] = IF picked[w] = {t} THEN "Idle" ELSE "OnFailed"]
    <3>1. CASE OnExpireMatchmaking(w, t)
      BY <1>0, <3>1 DEF OnExpireMatchmaking, Done, HandsOut
    <3>2. CASE EraseFailed(w, t)
      <4>1. /\ work[w] = "EraseFailed" /\ status[t] = "FAILED"
            /\ work' = [work EXCEPT ![w] = IF picked[w] = {t} THEN "Idle" ELSE "OnFailed"]
        BY <3>2 DEF EraseFailed, Done
      <4>2. PICK f \in picked[w] : \A u \in picked[w] \ {f} : status[u] = "SEARCHING"
        BY <1>0, <4>1 DEF HandsOut
      <4>3. f = t
        BY <2>1, <4>1, <4>2
      <4> QED BY <4>1, <4>2, <4>3
    <3> QED BY <1>4, <3>1, <3>2
  <2>3. HandsOut(w)'
    BY <1>0, <2>1, <2>2 DEF HandsOut
  <2>4. \A v \in Workers \ {w} : work'[v] = work[v] /\ picked'[v] = picked[v]
    BY <1>0, <2>1, <2>2
  <2>5. Allowed /\ \A u \in Tickets : WorkerOf(u) # w => status'[u] = status[u]
    BY <2>1 DEF Allowed
  <2> QED BY <2>3, <2>4, <2>5, OwnKeepsHandled
<1> QED BY <1>1, <1>2, <1>3, <1>4 DEF WorkerStep

LEMMA NextHandled == IInv /\ HandledOK /\ [Next]_vars => HandledOK' /\ Allowed
<1> SUFFICES ASSUME IInv, HandledOK, [Next]_vars PROVE HandledOK' /\ Allowed
  OBVIOUS
<1>1. CASE UNCHANGED <<status, work, picked>>
  BY <1>1, OthersKeepHandled DEF Allowed
<1>2. ASSUME NEW c \in Callers, CallerStep(c) PROVE HandledOK' /\ Allowed
  BY <1>2, CallerKeepsHandled
<1>3. ASSUME NEW w \in Workers, WorkerStep(w) PROVE HandledOK' /\ Allowed
  BY <1>3, WorkerKeepsHandled
<1> QED BY <1>1, <1>2, <1>3
        DEF Next, CallStart, CallStop, Start, Terminate, Join, vars, workerVars

\* The status of a solo ticket changes as the table allows, also where a worker
\* changes it for its session: no such change is refused, and no final status left.
THEOREM TicketsFollowTable ==
  Spec => [][\A t \in Tickets :
               status'[t] # status[t] => CanChangeStatus(status[t], status'[t])]_vars
<1>1. Init => HandledOK
  BY DEF Init, HandledOK, HandsOut
<1>2. IInv /\ HandledOK /\ [Next]_vars => HandledOK'
  BY NextHandled
<1>3. IInv /\ HandledOK /\ [Next]_vars =>
        [\A t \in Tickets :
           status'[t] # status[t] => CanChangeStatus(status[t], status'[t])]_vars
  BY NextHandled DEF Allowed
<1> QED BY <1>1, <1>2, <1>3, Invariant, PTL DEF Spec

=============================================================================
