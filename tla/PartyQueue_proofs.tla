------------------------- MODULE PartyQueue_proofs -------------------------
(***************************************************************************)
(* Proofs about PartyQueue for every set of players, parties and callers,  *)
(* every rule and any number of workers: its types, its ticket map, where  *)
(* a queued ticket is, and that a player has one place.                    *)
(***************************************************************************)
EXTENDS PartyQueue, QueueLemmas

-----------------------------------------------------------------------------
(* The inductive invariant.                                                *)

RequestCalls == {"Cleanup", "Insert", "Enqueue", "EraseRefused", "Fail"}
CancelCalls == {"Cancel", "EraseCancelled"}

\* The caller has a request, also while it cancels for its cleanup; one that it
\* has not inserted yet.
Asks(c) == pc[c] \in RequestCalls \cup CancelCalls /\ arg[c].request # NoTicket
AsksEarly(c) == Asks(c) /\ pc[c] \in {"Cleanup", "Insert"} \cup CancelCalls

\* The ticket has not been in a queue.
Fresh(t) ==
  /\ level[t] = 0 /\ t \notin toExpand
  /\ \A w \in Workers : t \notin waiting[w]
  /\ status[t] \in {"None", "CANCELLED"}

\* A ticket is asked for by one caller, and what is cancelled is in the map or
\* was there before.
RequestsOK ==
  /\ \A t \in requests : Fresh(t) /\ status[t] = "None" /\ t \notin ticketMap
  /\ \A c \in Callers :
       /\ pc[c] = "Idle" => arg[c].request = NoTicket
       /\ pc[c] \in RequestCalls => arg[c].request # NoTicket
       /\ Asks(c) => arg[c].request \in Tickets \ requests /\ Fresh(arg[c].request)
       /\ AsksEarly(c) => status[arg[c].request] = "None" /\ arg[c].request \notin ticketMap
       /\ pc[c] = "Enqueue" /\ status[arg[c].request] = "None" => arg[c].request \in ticketMap
       /\ pc[c] \in CancelCalls => arg[c].target \in Tickets \ requests
       /\ pc[c] = "EraseCancelled" => status[arg[c].target] = "CANCELLED"
  /\ \A c, d \in Callers :
       /\ Asks(c) /\ Asks(d) /\ c # d => arg[c].request # arg[d].request
       /\ AsksEarly(c) /\ pc[d] \in CancelCalls => arg[c].request # arg[d].target

\* A ticket is in queues of its slots only, a queued one in all of them, and a
\* committed one in none.
QueuesOK ==
  /\ \A w \in Workers : \A t \in waiting[w] : w \in Slots(t, level[t])
  /\ \A t \in toExpand : Slots(t, level[t]) # Workers
  /\ \A t \in Tickets : status[t] = "QUEUED" =>
       \A w \in Slots(t, level[t]) : t \in waiting[w]
  /\ \A t \in Tickets : status[t] = "SEARCHING" =>
       \A w \in Workers : t \notin waiting[w]

\* Until its session exists or is given up, the manager can find the ticket.
FoundOK == \A t \in Tickets : status[t] \in {"QUEUED", "SEARCHING"} => t \in ticketMap

\* A worker that handles its match has no ticket that waits, and erases none that
\* is still searching.
MatchesOK ==
  \A w \in Workers : \A t \in picked[w] :
    /\ work[w] \in {"Create", "Expire", "OnFailed", "EraseFailed"} =>
         status[t] \notin {"None", "QUEUED", "CANCELLED"}
    /\ work[w] = "Expire" => status[t] # "SEARCHING"

TypeInv == TypeOK /\ MapOK

IInv == TypeInv /\ RequestsOK /\ QueuesOK /\ FoundOK /\ MatchesOK

LEMMA Changes ==
  ASSUME NEW s \in Statuses
  PROVE  /\ CanChangeStatus(s, "QUEUED") <=> s = "None"
         /\ CanChangeStatus(s, "CANCELLED") <=> s \in {"None", "QUEUED"}
         /\ CanChangeStatus("None", "FAILED") /\ ~ CanChangeStatus("CANCELLED", "FAILED")
BY DEF CanChangeStatus, NextStatuses, Statuses

LEMMA ClampType ==
  ASSUME NEW i \in Int
  PROVE  Clamp(i) \in Workers
BY RuleAssumption DEF Clamp, Workers

LEMMA BaseType ==
  ASSUME NEW t \in Tickets
  PROVE  BaseWorker(t) \in Workers
BY RuleAssumption DEF BaseWorker, Workers

\* One expansion adds the workers at both ends; before the first a request is in
\* the slot of one worker, and at the last level in those of all.
LEMMA SlotsStep ==
  ASSUME NEW t \in Tickets, NEW n \in Workers
  PROVE  /\ Slots(t, n) \subseteq Workers
         /\ Slots(t, n + 1) = Slots(t, n) \cup {Clamp(BaseWorker(t) - (n + 1)),
                                                Clamp(BaseWorker(t) + (n + 1))}
         /\ Slots(t, 0) = {BaseWorker(t)}
         /\ n = WorkerCount - 1 => Slots(t, n) = Workers
<1> DEFINE b == BaseWorker(t)
<1>1. b \in Nat /\ n \in Nat /\ b < WorkerCount /\ n < WorkerCount /\ WorkerCount \in Nat
  BY BaseType, RuleAssumption DEF Workers
<1> HIDE DEF b
<1>2. \A i \in Int : Clamp(i) \in Int /\ 0 <= Clamp(i) /\ Clamp(i) < WorkerCount
  BY <1>1 DEF Clamp
<1>3. Clamp(b - n) .. Clamp(b + n) \subseteq Workers
  BY <1>1, <1>2 DEF Workers
<1>4. Clamp(b - (n + 1)) .. Clamp(b + (n + 1)) =
        (Clamp(b - n) .. Clamp(b + n)) \cup {Clamp(b - (n + 1)), Clamp(b + (n + 1))}
  BY <1>1 DEF Clamp
<1>5. Clamp(b - 0) .. Clamp(b + 0) = {b}
  BY <1>1 DEF Clamp
<1>6. n = WorkerCount - 1 => Clamp(b - n) .. Clamp(b + n) = 0 .. WorkerCount - 1
  BY <1>1 DEF Clamp
<1> QED BY <1>3, <1>4, <1>5, <1>6 DEF Slots, Workers, b

LEMMA InitOK == Init => IInv
<1> SUFFICES ASSUME Init PROVE IInv
  OBVIOUS
<1>0. 0 \in Workers
  BY RuleAssumption DEF Workers
<1>1. TypeInv
  BY <1>0, EmptyMapOK
  DEF Init, TypeInv, MapOK, TypeOK, NoArg, Statuses, Calls, Works
<1>2. RequestsOK
  BY DEF Init, RequestsOK, EmptyMap, NoArg, RequestCalls, CancelCalls, Asks, AsksEarly, Fresh
<1>3. QueuesOK /\ FoundOK /\ MatchesOK
  BY DEF Init, QueuesOK, FoundOK, MatchesOK
<1> QED BY <1>1, <1>2, <1>3 DEF IInv

-----------------------------------------------------------------------------
(* Callers.                                                                *)

ArgType == [request : Tickets \cup {NoTicket}, todo : SUBSET Players,
            cleaned : BOOLEAN, target : Tickets \cup {NoTicket}]

\* Goto and Enter move one caller.
LEMMA CallType ==
  ASSUME TypeInv, NEW c \in Callers, NEW call \in Calls,
         Goto(c, call) \/ (\E a \in ArgType : Enter(c, call, a))
  PROVE  /\ pc' \in [Callers -> Calls] /\ pc' = [pc EXCEPT ![c] = call]
         /\ arg' \in [Callers -> ArgType]
         /\ \A d \in Callers \ {c} : pc'[d] = pc[d] /\ arg'[d] = arg[d]
<1>1. NoArg \in ArgType /\ arg \in [Callers -> ArgType] /\ pc \in [Callers -> Calls]
  BY DEF TypeInv, TypeOK, NoArg, ArgType
<1>2. CASE Goto(c, call)
  BY <1>1, <1>2 DEF Goto
<1>3. CASE \E a \in ArgType : Enter(c, call, a)
  BY <1>1, <1>3 DEF Enter
<1> QED BY <1>2, <1>3

LEMMA GotoArg ==
  ASSUME TypeInv, NEW c \in Callers, NEW call \in Calls, Goto(c, call)
  PROVE  pc'[c] = call /\ arg'[c] = IF call = "Idle" THEN NoArg ELSE arg[c]
BY DEF Goto, TypeInv, TypeOK

LEMMA EnterArg ==
  ASSUME TypeInv, NEW c \in Callers, NEW call \in Calls, NEW a \in ArgType, Enter(c, call, a)
  PROVE  /\ pc' \in [Callers -> Calls] /\ arg' \in [Callers -> ArgType]
         /\ pc'[c] = call /\ arg'[c] = a
         /\ \A d \in Callers \ {c} : pc'[d] = pc[d] /\ arg'[d] = arg[d]
<1>1. arg \in [Callers -> ArgType] /\ pc \in [Callers -> Calls]
  BY DEF TypeInv, TypeOK, ArgType
<1> QED BY <1>1 DEF Enter

\* A step of a caller that leaves statuses and queues alone and erases no ticket
\* that waits or is searching.
LEMMA CallsOnly ==
  ASSUME IInv, UNCHANGED <<status, queueVars, workerVars>>,
         \A t \in ticketMap \ ticketMap' : status[t] \notin {"QUEUED", "SEARCHING"}
  PROVE  QueuesOK' /\ FoundOK' /\ MatchesOK'
BY DEF IInv, QueuesOK, FoundOK, MatchesOK, queueVars, workerVars

LEMMA CallStartOK ==
  ASSUME IInv, NEW c \in Callers, NEW t \in Tickets, NEW backfill \in BOOLEAN,
         CallStart(c, t, backfill)
  PROVE  IInv'
<1>1. PICK a \in ArgType : a = [NoArg EXCEPT !.request = t, !.todo = PlayersOf[t]]
  BY TicketsAssumption DEF ArgType, NoArg
<1>2. a.request = t
  BY <1>1 DEF NoArg
<1>3. PICK call \in {"Insert", "Cleanup"} : Enter(c, call, a)
  BY <1>1 DEF CallStart
<1>4. /\ pc[c] = "Idle" /\ t \in requests /\ requests' = requests \ {t}
      /\ UNCHANGED <<status, mapVars, queueVars, workerVars>>
  BY DEF CallStart
<1>5. /\ pc' \in [Callers -> Calls] /\ arg' \in [Callers -> ArgType]
      /\ pc'[c] = call /\ arg'[c] = a
      /\ \A d \in Callers \ {c} : pc'[d] = pc[d] /\ arg'[d] = arg[d]
  BY <1>3, EnterArg DEF Calls, IInv
<1>6. TypeInv'
  BY <1>4, <1>5, UnchangedMap
  DEF IInv, TypeInv, TypeOK, MapOK, MapTypeOK, ArgType, queueVars, workerVars, mapVars
<1>7. RequestsOK'
  BY <1>2, <1>4, <1>5, TicketsAssumption
  DEF IInv, RequestsOK, Asks, AsksEarly, Fresh, RequestCalls, CancelCalls, queueVars,
      mapVars
<1> QED BY <1>4, <1>6, <1>7, CallsOnly DEF IInv, mapVars

LEMMA CallStopOK ==
  ASSUME IInv, NEW c \in Callers, NEW t \in Tickets, CallStop(c, t)
  PROVE  IInv'
<1>1. PICK a \in ArgType : a = [NoArg EXCEPT !.target = t]
  BY DEF ArgType, NoArg
<1>2. a.request = NoTicket /\ a.target = t
  BY <1>1 DEF NoArg
<1>4. /\ pc[c] = "Idle" /\ t \in ticketMap /\ Enter(c, "Cancel", a)
      /\ UNCHANGED <<requests, status, mapVars, queueVars, workerVars>>
  BY <1>1 DEF CallStop
<1>5. /\ pc' \in [Callers -> Calls] /\ arg' \in [Callers -> ArgType]
      /\ pc'[c] = "Cancel" /\ arg'[c] = a
      /\ \A d \in Callers \ {c} : pc'[d] = pc[d] /\ arg'[d] = arg[d]
  BY <1>4, EnterArg DEF Calls, IInv
<1>6. TypeInv'
  BY <1>4, <1>5, UnchangedMap
  DEF IInv, TypeInv, TypeOK, MapOK, MapTypeOK, ArgType, queueVars, workerVars, mapVars
<1>7. RequestsOK'
  BY <1>2, <1>4, <1>5, TicketsAssumption
  DEF IInv, RequestsOK, Asks, AsksEarly, Fresh, RequestCalls, CancelCalls, queueVars,
      mapVars
<1> QED BY <1>4, <1>6, <1>7, CallsOnly DEF IInv, mapVars

LEMMA CleanupPlayerOK ==
  ASSUME IInv, NEW c \in Callers, NEW p \in Players, CleanupPlayer(c, p)
  PROVE  IInv'
<1>0. /\ pc[c] = "Cleanup" /\ arg[c] \in ArgType
      /\ UNCHANGED <<requests, status, mapVars, queueVars, workerVars>>
  BY DEF CleanupPlayer, IInv, TypeInv, TypeOK, ArgType
<1>1. PICK a \in ArgType, call \in {"Cleanup", "Cancel"} :
        /\ Enter(c, call, a) /\ a.request = arg[c].request
        /\ call = "Cancel" => a.target \in ticketMap /\ a.target \in Tickets
  <2>1. CASE FindByPlayerKey(p) # NoTicket
    <3> DEFINE a == [arg[c] EXCEPT !.todo = @ \ {p}, !.cleaned = TRUE,
                                   !.target = FindByPlayerKey(p)]
    <3>1. FindByPlayerKey(p) \in ticketMap /\ FindByPlayerKey(p) \in Tickets
      BY <2>1, FoundTicket DEF IInv, TypeInv, TypeOK, MapTypeOK
    <3>2. /\ a \in ArgType /\ Enter(c, "Cancel", a) /\ a.request = arg[c].request
          /\ a.target = FindByPlayerKey(p)
      BY <1>0, <2>1, <3>1 DEF CleanupPlayer, ArgType
    <3> QED BY <3>1, <3>2
  <2>2. CASE FindByPlayerKey(p) = NoTicket
    <3> DEFINE a == [arg[c] EXCEPT !.todo = @ \ {p}]
    <3>1. a \in ArgType /\ Enter(c, "Cleanup", a) /\ a.request = arg[c].request
      BY <1>0, <2>2 DEF CleanupPlayer, ArgType
    <3> QED BY <3>1
  <2> QED BY <2>1, <2>2
<1>5. /\ pc' \in [Callers -> Calls] /\ arg' \in [Callers -> ArgType]
      /\ pc'[c] = call /\ arg'[c] = a
      /\ \A d \in Callers \ {c} : pc'[d] = pc[d] /\ arg'[d] = arg[d]
  BY <1>1, EnterArg DEF Calls, IInv
<1>6. TypeInv'
  BY <1>0, <1>5, UnchangedMap
  DEF IInv, TypeInv, TypeOK, MapOK, MapTypeOK, ArgType, queueVars, workerVars, mapVars
<1>7. RequestsOK'
  BY <1>0, <1>1, <1>5, TicketsAssumption
  DEF IInv, RequestsOK, Asks, AsksEarly, Fresh, RequestCalls, CancelCalls, queueVars,
      mapVars
<1> QED BY <1>0, <1>6, <1>7, CallsOnly DEF IInv, mapVars

LEMMA EndCleanupOK ==
  ASSUME IInv, NEW c \in Callers, EndCleanup(c)
  PROVE  IInv'
<1>0. /\ pc[c] = "Cleanup"
      /\ UNCHANGED <<requests, status, mapVars, queueVars, workerVars>>
  BY DEF EndCleanup
<1>1. PICK call \in {"Insert", "Idle"} : Goto(c, call)
  BY DEF EndCleanup
<1>5. /\ pc' \in [Callers -> Calls] /\ arg' \in [Callers -> ArgType]
      /\ pc'[c] = call /\ arg'[c] = IF call = "Idle" THEN NoArg ELSE arg[c]
      /\ \A d \in Callers \ {c} : pc'[d] = pc[d] /\ arg'[d] = arg[d]
  BY <1>1, CallType, GotoArg DEF Calls, IInv
<1>6. TypeInv'
  BY <1>0, <1>5, UnchangedMap
  DEF IInv, TypeInv, TypeOK, MapOK, MapTypeOK, ArgType, queueVars, workerVars, mapVars
<1>7. RequestsOK'
  BY <1>0, <1>5, TicketsAssumption
  DEF IInv, RequestsOK, Asks, AsksEarly, Fresh, RequestCalls, CancelCalls, queueVars,
      mapVars, NoArg
<1> QED BY <1>0, <1>6, <1>7, CallsOnly DEF IInv, mapVars

LEMMA InsertTicketOK ==
  ASSUME IInv, NEW c \in Callers, InsertTicket(c)
  PROVE  IInv'
<1>0. PICK t \in Tickets : t = arg[c].request
  BY DEF InsertTicket, IInv, RequestsOK, Asks, RequestCalls
<1>1. /\ pc[c] = "Insert" /\ t \notin ticketMap /\ status[t] = "None"
      /\ UNCHANGED <<requests, status, queueVars, workerVars>>
  BY <1>0, TicketsAssumption DEF InsertTicket, IInv, RequestsOK, Asks, AsksEarly, RequestCalls
<1>2. PICK call \in {"Enqueue", "Fail"} :
        /\ Goto(c, call)
        /\ call = "Enqueue" => CanInsert(t) /\ InsertMatchTicket(t)
        /\ call = "Fail" => UNCHANGED mapVars
  BY <1>0 DEF InsertTicket
<1>3. /\ MapOK'
      /\ ticketMap' = IF call = "Enqueue" THEN ticketMap \cup {t} ELSE ticketMap
  BY <1>2, InsertKeepsMap, UnchangedMap DEF InsertMatchTicket, IInv, TypeInv, mapVars
<1>5. /\ pc' \in [Callers -> Calls] /\ arg' \in [Callers -> ArgType]
      /\ pc'[c] = call /\ arg'[c] = arg[c]
      /\ \A d \in Callers \ {c} : pc'[d] = pc[d] /\ arg'[d] = arg[d]
  BY <1>2, CallType, GotoArg DEF Calls, IInv
<1>6. TypeInv'
  BY <1>1, <1>3, <1>5
  DEF IInv, TypeInv, TypeOK, MapOK, ArgType, queueVars, workerVars
<1>7. \A u \in Tickets : Fresh(u)' <=> Fresh(u)
  BY <1>1 DEF Fresh, queueVars
<1>8. \A u \in requests : u \in Tickets /\ u # t
  BY <1>0, <1>1 DEF IInv, TypeInv, TypeOK, RequestsOK, Asks, RequestCalls
<1>9. \A d \in Callers : Asks(d)' => Asks(d) /\ arg'[d] = arg[d]
  BY <1>0, <1>1, <1>5, TicketsAssumption DEF Asks, RequestCalls, CancelCalls
<1>10. \A d \in Callers : AsksEarly(d)' => AsksEarly(d) /\ d # c
  BY <1>2, <1>5, <1>9 DEF AsksEarly, CancelCalls
<1>11. Asks(c)
  BY <1>0, <1>1, TicketsAssumption DEF Asks, RequestCalls
<1>12. RequestsOK'
  <2>1. \A d \in Callers : Asks(d)' => arg'[d].request \in Tickets
    BY <1>9 DEF IInv, RequestsOK
  <2>2. \A d \in Callers :
          /\ pc'[d] \in CancelCalls => pc[d] = pc'[d] /\ arg'[d] = arg[d]
          /\ pc'[d] = "Enqueue" => (d = c /\ call = "Enqueue") \/ pc[d] = "Enqueue"
          /\ pc'[d] = "Idle" => pc[d] = "Idle"
          /\ arg'[d] = arg[d]
    BY <1>2, <1>5 DEF CancelCalls
  <2>3. \A d \in Callers : AsksEarly(d)' => arg'[d].request \notin ticketMap'
    BY <1>0, <1>3, <1>9, <1>10, <1>11 DEF IInv, RequestsOK, AsksEarly
  <2>4. \A d \in Callers : /\ pc'[d] \in RequestCalls => arg'[d].request # NoTicket
                           /\ pc'[d] = "Idle" => arg'[d].request = NoTicket
    BY <1>0, <1>5, <2>2, TicketsAssumption DEF IInv, RequestsOK
  <2>5. \A d \in Callers : pc'[d] = "Enqueue" /\ status'[arg'[d].request] = "None" =>
          arg'[d].request \in ticketMap'
    BY <1>0, <1>1, <1>3, <2>2 DEF IInv, RequestsOK
  <2> QED BY <1>1, <1>3, <1>7, <1>8, <1>9, <1>10, <2>1, <2>2, <2>3, <2>4, <2>5
          DEF IInv, RequestsOK, CancelCalls
<1> QED BY <1>1, <1>3, <1>6, <1>12, CallsOnly DEF IInv

\* The first worker of the slots of a request gets it; the ticket is QUEUED if it
\* was not cancelled, and is in the map then.
LEMMA EnqueueJobRequestOK ==
  ASSUME IInv, NEW c \in Callers, EnqueueJobRequest(c)
  PROVE  IInv'
<1>0. PICK t \in Tickets : t = arg[c].request
  BY DEF EnqueueJobRequest, IInv, RequestsOK, Asks, RequestCalls
<1>1. /\ pc[c] = "Enqueue" /\ Asks(c) /\ ~ AsksEarly(c) /\ Fresh(t) /\ t \notin requests
      /\ status[t] = "None" => t \in ticketMap
      /\ UNCHANGED <<requests, mapVars, level, workerVars>>
  BY <1>0, TicketsAssumption
  DEF EnqueueJobRequest, IInv, RequestsOK, Asks, AsksEarly, RequestCalls, CancelCalls
<1>2. PICK call \in {"Idle", "EraseRefused"} :
        /\ Goto(c, call)
        /\ call = "EraseRefused" => UNCHANGED <<toExpand, waiting, status>>
        /\ call = "Idle" =>
             /\ toExpand' = IF WorkerCount > 1 THEN toExpand \cup {t} ELSE toExpand
             /\ waiting' = [waiting EXCEPT ![BaseWorker(t)] = @ \cup {t}]
             /\ status' = [status EXCEPT ![t] =
                             IF CanChangeStatus(@, "QUEUED") THEN "QUEUED" ELSE @]
  BY <1>0 DEF EnqueueJobRequest, Enqueued
<1>3. BaseWorker(t) \in Workers /\ level[t] = 0 /\ Slots(t, 0) = {BaseWorker(t)} /\ 0 \in Workers
  BY <1>1, BaseType, SlotsStep, RuleAssumption DEF Fresh, Workers
<1>4. /\ status' \in [Tickets -> Statuses]
      /\ \A u \in Tickets : status'[u] = status[u]
           \/ (call = "Idle" /\ u = t /\ status[t] = "None" /\ status'[t] = "QUEUED")
      /\ call = "Idle" => status'[t] \in {"QUEUED", "CANCELLED"}
  <2>1. status[t] \in {"None", "CANCELLED"} /\ status \in [Tickets -> Statuses]
    BY <1>1 DEF Fresh, IInv, TypeInv, TypeOK
  <2>2. CASE call = "Idle"
    <3>1. "QUEUED" \in Statuses /\ CanChangeStatus("None", "QUEUED")
            /\ ~ CanChangeStatus("CANCELLED", "QUEUED")
      BY DEF Statuses, CanChangeStatus, NextStatuses
    <3> QED BY <1>2, <2>1, <2>2, <3>1
  <2> QED BY <1>2, <2>1, <2>2
<1>5. /\ pc' \in [Callers -> Calls] /\ arg' \in [Callers -> ArgType]
      /\ pc'[c] = call /\ arg'[c] = IF call = "Idle" THEN NoArg ELSE arg[c]
      /\ \A d \in Callers \ {c} : pc'[d] = pc[d] /\ arg'[d] = arg[d]
  BY <1>2, CallType, GotoArg DEF Calls, IInv
<1>6. /\ waiting' \in [Workers -> SUBSET Tickets] /\ toExpand' \subseteq Tickets
      /\ \A w \in Workers : waiting'[w] = IF call = "Idle" /\ w = BaseWorker(t)
                                          THEN waiting[w] \cup {t} ELSE waiting[w]
      /\ toExpand' \subseteq toExpand \cup {t}
      /\ call # "Idle" \/ WorkerCount = 1 => toExpand' = toExpand
  <2>1. waiting \in [Workers -> SUBSET Tickets] /\ toExpand \subseteq Tickets
    BY DEF IInv, TypeInv, TypeOK
  <2>2. CASE call = "Idle"
    <3>1. waiting' = [waiting EXCEPT ![BaseWorker(t)] = @ \cup {t}]
      BY <1>2, <2>2
    <3>2. toExpand' = IF WorkerCount > 1 THEN toExpand \cup {t} ELSE toExpand
      BY <1>2, <2>2
    <3>3. WorkerCount = 1 => toExpand' = toExpand
      BY <3>2
    <3> QED BY <1>3, <2>1, <2>2, <3>1, <3>2, <3>3
  <2>3. CASE call # "Idle"
    BY <1>2, <2>1, <2>3
  <2> QED BY <2>2, <2>3
<1>7. TypeInv'
  <2>1. MapOK'
    BY <1>1, UnchangedMap DEF IInv, TypeInv
  <2>2. arg' \in [Callers -> [request : Tickets \cup {NoTicket}, todo : SUBSET Players,
                              cleaned : BOOLEAN, target : Tickets \cup {NoTicket}]]
    BY <1>5 DEF ArgType
  <2> QED BY <1>1, <1>4, <1>5, <1>6, <2>1, <2>2
          DEF IInv, TypeInv, TypeOK, MapOK, workerVars
<1>8. \A u \in Tickets : u # t \/ call # "Idle" =>
        (Fresh(u) => Fresh(u)') /\ status'[u] = status[u]
  BY <1>1, <1>4, <1>6 DEF Fresh
<1>9. \A d \in Callers : Asks(d)' =>
        /\ Asks(d) /\ arg'[d] = arg[d] /\ arg[d].request \in Tickets
        /\ arg[d].request # t \/ call # "Idle"
  <2>1. ASSUME NEW d \in Callers, d # c
        PROVE  Asks(d)' => /\ Asks(d) /\ arg'[d] = arg[d] /\ arg[d].request \in Tickets
                           /\ arg[d].request # t
    BY <1>0, <1>1, <1>5, <2>1 DEF Asks, IInv, RequestsOK
  <2>2. Asks(c)' => call # "Idle" /\ arg'[c] = arg[c]
    BY <1>5 DEF Asks, RequestCalls, CancelCalls
  <2> QED BY <1>0, <1>1, <2>1, <2>2
<1>10. RequestsOK'
  <2>1. \A d \in Callers :
          /\ pc'[d] \in CancelCalls => pc[d] = pc'[d] /\ arg'[d] = arg[d]
          /\ pc'[d] = "Enqueue" => pc[d] = "Enqueue" /\ arg'[d] = arg[d]
          /\ pc'[d] = "Idle" => arg'[d].request = NoTicket
          /\ pc'[d] \in RequestCalls => arg'[d].request # NoTicket
    BY <1>0, <1>1, <1>2, <1>5, TicketsAssumption
    DEF CancelCalls, NoArg, IInv, RequestsOK, RequestCalls
  <2>2. \A d \in Callers : AsksEarly(d)' => AsksEarly(d)
    BY <1>1, <1>2, <1>5, <1>9 DEF AsksEarly, CancelCalls
  <2>3. \A d \in Callers : pc[d] = "EraseCancelled" => status'[arg[d].target] = "CANCELLED"
    BY <1>4 DEF IInv, RequestsOK, CancelCalls
  <2>4. \A u \in requests : u \in Tickets /\ u # t
    BY <1>1 DEF IInv, TypeInv, TypeOK
  <2>5. \A d \in Callers : pc'[d] = "Enqueue" => Asks(d)'
    BY <2>1 DEF Asks, RequestCalls
  <2>6. \A u \in requests' : Fresh(u)' /\ status'[u] = "None" /\ u \notin ticketMap'
    BY <1>1, <1>8, <2>4 DEF IInv, RequestsOK, mapVars
  <2>7. \A d \in Callers :
          /\ Asks(d)' => arg'[d].request \in Tickets \ requests' /\ Fresh(arg[d].request)'
          /\ AsksEarly(d)' =>
               status'[arg'[d].request] = "None" /\ arg'[d].request \notin ticketMap'
          /\ pc'[d] = "Enqueue" /\ status'[arg'[d].request] = "None" =>
               arg'[d].request \in ticketMap'
    <3> SUFFICES ASSUME NEW d \in Callers, Asks(d)'
                 PROVE  /\ arg'[d].request \in Tickets \ requests' /\ Fresh(arg[d].request)'
                        /\ AsksEarly(d)' =>
                             status'[arg'[d].request] = "None" /\ arg'[d].request \notin ticketMap'
                        /\ pc'[d] = "Enqueue" /\ status'[arg'[d].request] = "None" =>
                             arg'[d].request \in ticketMap'
      BY <2>5 DEF AsksEarly
    <3>1. PICK u \in Tickets : u = arg[d].request
      BY <1>9
    <3>2. /\ arg'[d] = arg[d] /\ u \notin requests /\ Fresh(u) /\ Fresh(u)'
          /\ status'[u] = status[u]
      BY <1>8, <1>9, <3>1 DEF IInv, RequestsOK
    <3>3. Fresh(arg[d].request)'
      BY <3>1, <3>2 DEF Fresh
    <3>4. AsksEarly(d)' => status[u] = "None" /\ u \notin ticketMap
      BY <2>2, <3>1 DEF IInv, RequestsOK
    <3>5. pc'[d] = "Enqueue" /\ status[u] = "None" => u \in ticketMap
      BY <2>1, <3>1 DEF IInv, RequestsOK
    <3> QED BY <1>1, <3>1, <3>2, <3>3, <3>4, <3>5 DEF mapVars
  <2>9. \A d, e \in Callers :
          Asks(d)' /\ Asks(e)' /\ d # e => arg'[d].request # arg'[e].request
    BY <1>9 DEF IInv, RequestsOK
  <2>10. \A d, e \in Callers :
           AsksEarly(d)' /\ pc'[e] \in CancelCalls => arg'[d].request # arg'[e].target
    <3>1. \A d \in Callers : AsksEarly(d)' => AsksEarly(d) /\ arg'[d] = arg[d]
      BY <1>9, <2>2 DEF AsksEarly
    <3> QED BY <2>1, <3>1 DEF IInv, RequestsOK
  <2>8. \A d \in Callers :
          /\ pc'[d] \in CancelCalls => arg'[d].target \in Tickets \ requests'
          /\ pc'[d] = "EraseCancelled" => status'[arg'[d].target] = "CANCELLED"
    BY <1>1, <2>1, <2>3 DEF IInv, RequestsOK, CancelCalls
  <2> QED BY <2>1, <2>6, <2>7, <2>8, <2>9, <2>10 DEF RequestsOK
<1>11. QueuesOK'
  <2>0. /\ level' = level
        /\ \A w \in Workers, u \in Tickets : u # t => (u \in waiting'[w] <=> u \in waiting[w])
    BY <1>1, <1>6
  <2>1. ASSUME NEW w \in Workers, NEW u \in waiting'[w]
        PROVE  w \in Slots(u, level'[u])
    BY <1>3, <1>6, <2>0, <2>1 DEF IInv, QueuesOK
  <2>2. ASSUME NEW u \in toExpand'
        PROVE  Slots(u, level'[u]) # Workers
    <3>1. CASE u \in toExpand
      BY <2>0, <3>1 DEF IInv, QueuesOK
    <3>2. CASE u \notin toExpand
      <4>1. u = t /\ WorkerCount > 1
        BY <1>6, <2>2, <3>2, RuleAssumption
      <4>2. 0 \in Workers /\ 1 \in Workers
        BY <4>1, RuleAssumption DEF Workers
      <4> QED BY <1>3, <2>0, <4>1, <4>2
    <3> QED BY <3>1, <3>2
  <2>3. ASSUME NEW u \in Tickets, status'[u] = "QUEUED", NEW w \in Slots(u, level'[u])
        PROVE  u \in waiting'[w]
    <3>1. CASE u = t
      <4>1. call = "Idle" /\ w = BaseWorker(t)
        BY <1>1, <1>3, <1>4, <2>0, <2>3, <3>1 DEF Fresh
      <4> QED BY <1>3, <1>6, <3>1, <4>1
    <3>2. CASE u # t
      <4>1. status[u] = "QUEUED" /\ level'[u] = level[u]
        BY <1>4, <2>0, <2>3, <3>2
      <4>2. w \in Workers /\ u \in waiting[w]
        BY <2>3, <4>1, SlotsStep DEF IInv, QueuesOK, TypeInv, TypeOK
      <4> QED BY <2>0, <3>2, <4>2
    <3> QED BY <3>1, <3>2
  <2>4. ASSUME NEW u \in Tickets, status'[u] = "SEARCHING", NEW w \in Workers
        PROVE  u \notin waiting'[w]
    <3>1. u # t /\ status[u] = "SEARCHING"
      BY <1>1, <1>4, <2>4 DEF Fresh
    <3> QED BY <2>0, <3>1 DEF IInv, QueuesOK
  <2> QED BY <2>1, <2>2, <2>3, <2>4 DEF QueuesOK
<1>12. FoundOK' /\ MatchesOK'
  BY <1>1, <1>4 DEF IInv, FoundOK, MatchesOK, TypeInv, TypeOK, workerVars, mapVars
<1> QED BY <1>7, <1>10, <1>11, <1>12 DEF IInv

\* A step of caller c that leaves the queues alone, and at most ends a ticket it
\* has asked for itself or cancelled.
LEMMA EraseRefusedOK ==
  ASSUME IInv, NEW c \in Callers, EraseRefused(c)
  PROVE  IInv'
<1>0. PICK t \in Tickets : t = arg[c].request
  BY DEF EraseRefused, IInv, RequestsOK, Asks, RequestCalls
<1>1. /\ pc[c] = "EraseRefused" /\ Fresh(t) /\ Asks(c) /\ ~ AsksEarly(c)
      /\ Goto(c, "Fail") /\ EraseMatchTicket(t)
      /\ UNCHANGED <<requests, status, queueVars, workerVars>>
  BY <1>0, TicketsAssumption
  DEF EraseRefused, IInv, RequestsOK, Asks, AsksEarly, RequestCalls, CancelCalls
<1>2. MapOK' /\ ticketMap' = ticketMap \ {t}
  BY <1>1, EraseKeepsMap DEF IInv, TypeInv
<1>5. /\ pc' \in [Callers -> Calls] /\ arg' \in [Callers -> ArgType]
      /\ pc'[c] = "Fail" /\ arg'[c] = arg[c]
      /\ \A d \in Callers \ {c} : pc'[d] = pc[d] /\ arg'[d] = arg[d]
  BY <1>1, CallType, GotoArg DEF Calls, IInv
<1>6. TypeInv'
  BY <1>1, <1>2, <1>5
  DEF IInv, TypeInv, TypeOK, MapOK, ArgType, queueVars, workerVars
<1>7. RequestsOK'
  <2>1. \A d \in Callers :
          /\ arg'[d] = arg[d] /\ (Asks(d)' <=> Asks(d)) /\ (AsksEarly(d)' <=> AsksEarly(d))
          /\ d # c => pc'[d] = pc[d]
    BY <1>1, <1>5 DEF Asks, AsksEarly, RequestCalls, CancelCalls
  <2>2. \A u \in Tickets : Fresh(u)' <=> Fresh(u)
    BY <1>1 DEF Fresh, queueVars
  <2>3. \A d \in Callers : d # c /\ Asks(d) => arg[d].request # t
    BY <1>0, <1>1 DEF IInv, RequestsOK
  <2>4. \A d \in Callers : pc'[d] = "Enqueue" => pc[d] = "Enqueue" /\ d # c /\ Asks(d)
    BY <1>1, <1>5 DEF Asks, IInv, RequestsOK, RequestCalls
  <2>5. requests \subseteq Tickets
    BY DEF IInv, TypeInv, TypeOK
  <2>6. \A u \in requests' : Fresh(u)' /\ status'[u] = "None" /\ u \notin ticketMap'
    BY <1>1, <1>2, <2>2, <2>5 DEF IInv, RequestsOK
  <2>7. ASSUME NEW d \in Callers
        PROVE  /\ pc'[d] = "Idle" => arg'[d].request = NoTicket
               /\ pc'[d] \in RequestCalls => arg'[d].request # NoTicket
               /\ pc'[d] \in CancelCalls => arg'[d].target \in Tickets \ requests'
               /\ pc'[d] = "EraseCancelled" => status'[arg'[d].target] = "CANCELLED"
               /\ AsksEarly(d)' =>
                    status'[arg'[d].request] = "None" /\ arg'[d].request \notin ticketMap'
               /\ pc'[d] = "Enqueue" /\ status'[arg'[d].request] = "None" =>
                    arg'[d].request \in ticketMap'
    BY <1>0, <1>1, <1>2, <1>5, <2>1, <2>3, <2>4, TicketsAssumption
    DEF IInv, RequestsOK, CancelCalls, RequestCalls
  <2>8. ASSUME NEW d \in Callers, Asks(d)'
        PROVE  arg'[d].request \in Tickets \ requests' /\ Fresh(arg[d].request)'
    <3>1. PICK u \in Tickets \ requests : u = arg[d].request /\ Fresh(u)
      BY <2>1, <2>8 DEF IInv, RequestsOK
    <3> QED BY <1>1, <2>1, <2>2, <3>1 DEF Fresh
  <2>9. \A d, e \in Callers :
          /\ Asks(d)' /\ Asks(e)' /\ d # e => arg'[d].request # arg'[e].request
          /\ AsksEarly(d)' /\ pc'[e] \in CancelCalls => arg'[d].request # arg'[e].target
    BY <1>5, <2>1 DEF IInv, RequestsOK, CancelCalls
  <2> QED BY <2>6, <2>7, <2>8, <2>9 DEF RequestsOK
<1> QED BY <1>1, <1>2, <1>6, <1>7, CallsOnly DEF IInv, Fresh

LEMMA FailRequestOK ==
  ASSUME IInv, NEW c \in Callers, FailRequest(c)
  PROVE  IInv'
<1>0. PICK t \in Tickets : t = arg[c].request
  BY DEF FailRequest, IInv, RequestsOK, Asks, RequestCalls
<1>1. /\ pc[c] = "Fail" /\ Fresh(t) /\ Asks(c) /\ t \notin requests
      /\ Goto(c, "Idle")
      /\ status' = [status EXCEPT ![t] = IF CanChangeStatus(@, "FAILED") THEN "FAILED" ELSE @]
      /\ UNCHANGED <<requests, mapVars, queueVars, workerVars>>
  BY <1>0, TicketsAssumption
  DEF FailRequest, IInv, RequestsOK, Asks, RequestCalls
<1>2. /\ status' \in [Tickets -> Statuses]
      /\ \A u \in Tickets : status'[u] = status[u] \/ (u = t /\ status'[u] = "FAILED")
      /\ status[t] = "CANCELLED" => status'[t] = "CANCELLED"
  <2>1. /\ status \in [Tickets -> Statuses] /\ "FAILED" \in Statuses
        /\ ~ CanChangeStatus("CANCELLED", "FAILED")
    BY DEF IInv, TypeInv, TypeOK, Statuses, CanChangeStatus, NextStatuses
  <2> QED BY <1>1, <2>1
<1>5. /\ pc' \in [Callers -> Calls] /\ arg' \in [Callers -> ArgType]
      /\ pc'[c] = "Idle" /\ arg'[c] = NoArg
      /\ \A d \in Callers \ {c} : pc'[d] = pc[d] /\ arg'[d] = arg[d]
  BY <1>1, CallType, GotoArg DEF Calls, IInv
<1>6. TypeInv'
  BY <1>1, <1>2, <1>5, UnchangedMap
  DEF IInv, TypeInv, TypeOK, MapOK, MapTypeOK, ArgType, queueVars, workerVars, mapVars
<1>7. RequestsOK'
  <2>1. \A d \in Callers :
          /\ pc'[d] \in RequestCalls \cup CancelCalls =>
               d # c /\ pc'[d] = pc[d] /\ arg'[d] = arg[d]
          /\ Asks(d)' => Asks(d) /\ d # c /\ arg[d].request # t
          /\ AsksEarly(d)' => AsksEarly(d)
          /\ pc'[d] = "Idle" => arg'[d].request = NoTicket
    BY <1>0, <1>1, <1>5
    DEF Asks, AsksEarly, RequestCalls, CancelCalls, NoArg, IInv, RequestsOK
  <2>2. \A u \in Tickets : u # t => (Fresh(u) => Fresh(u)') /\ status'[u] = status[u]
    BY <1>1, <1>2 DEF Fresh, queueVars
  <2>3. \A u \in requests : u \in Tickets /\ u # t
    BY <1>1 DEF IInv, TypeInv, TypeOK
  <2>4. \A u \in requests' : Fresh(u)' /\ status'[u] = "None" /\ u \notin ticketMap'
    BY <1>1, <2>2, <2>3 DEF IInv, RequestsOK, mapVars
  <2>5. ASSUME NEW d \in Callers, Asks(d)'
        PROVE  /\ arg'[d].request \in Tickets \ requests' /\ Fresh(arg[d].request)'
               /\ AsksEarly(d)' =>
                    status'[arg'[d].request] = "None" /\ arg'[d].request \notin ticketMap'
               /\ pc'[d] = "Enqueue" /\ status'[arg'[d].request] = "None" =>
                    arg'[d].request \in ticketMap'
    <3>1. PICK u \in Tickets \ requests : u = arg[d].request /\ Fresh(u) /\ u # t
      BY <2>1, <2>5 DEF IInv, RequestsOK
    <3>2. Fresh(u)' /\ status'[u] = status[u] /\ arg'[d] = arg[d] /\ pc'[d] = pc[d]
      BY <2>1, <2>2, <2>5, <3>1 DEF Asks
    <3>3. AsksEarly(d)' => status[u] = "None" /\ u \notin ticketMap
      BY <2>1, <3>1 DEF IInv, RequestsOK
    <3>4. pc[d] = "Enqueue" /\ status[u] = "None" => u \in ticketMap
      BY <3>1 DEF IInv, RequestsOK
    <3>5. Fresh(arg[d].request)'
      BY <3>1, <3>2 DEF Fresh
    <3> QED BY <1>1, <3>1, <3>2, <3>3, <3>4, <3>5 DEF mapVars
  <2>6. ASSUME NEW d \in Callers
        PROVE  /\ pc'[d] \in RequestCalls => arg'[d].request # NoTicket
               /\ pc'[d] = "Enqueue" => Asks(d)'
               /\ pc'[d] \in CancelCalls => arg'[d].target \in Tickets \ requests'
               /\ pc'[d] = "EraseCancelled" => status'[arg'[d].target] = "CANCELLED"
    <3>1. /\ pc'[d] \in RequestCalls => arg'[d].request # NoTicket
          /\ pc'[d] = "Enqueue" => Asks(d)'
          /\ pc'[d] \in CancelCalls => arg'[d].target \in Tickets \ requests'
      BY <1>1, <2>1 DEF IInv, RequestsOK, RequestCalls, Asks
    <3>2. pc'[d] = "EraseCancelled" =>
            /\ arg'[d] = arg[d] /\ arg[d].target \in Tickets /\ status[arg[d].target] = "CANCELLED"
      BY <2>1 DEF IInv, RequestsOK, CancelCalls
    <3> QED BY <1>2, <3>1, <3>2
  <2>7. \A d, e \in Callers :
          /\ Asks(d)' /\ Asks(e)' /\ d # e => arg'[d].request # arg'[e].request
          /\ AsksEarly(d)' /\ pc'[e] \in CancelCalls => arg'[d].request # arg'[e].target
    BY <2>1 DEF IInv, RequestsOK, Asks, AsksEarly
  <2> QED BY <2>1, <2>4, <2>5, <2>6, <2>7 DEF RequestsOK, AsksEarly
<1>8. QueuesOK' /\ FoundOK'
  BY <1>1, <1>2 DEF IInv, QueuesOK, FoundOK, queueVars, mapVars
<1>9. MatchesOK'
  BY <1>1, <1>2 DEF IInv, TypeInv, TypeOK, MatchesOK, workerVars
<1> QED BY <1>6, <1>7, <1>8, <1>9 DEF IInv

\* Return ends the call or goes back to the cleanup.
LEMMA ReturnType ==
  ASSUME IInv, NEW c \in Callers, pc[c] \in CancelCalls, Return(c)
  PROVE  /\ pc' \in [Callers -> Calls] /\ arg' \in [Callers -> ArgType]
         /\ \/ pc'[c] = "Idle" /\ arg'[c] = NoArg
            \/ pc'[c] = "Cleanup" /\ arg'[c] = arg[c] /\ arg[c].request # NoTicket
         /\ \A d \in Callers \ {c} : pc'[d] = pc[d] /\ arg'[d] = arg[d]
<1>1. PICK call \in {"Idle", "Cleanup"} :
        Goto(c, call) /\ (call = "Cleanup" => arg[c].request # NoTicket)
  BY DEF Return
<1> QED BY <1>1, CallType, GotoArg DEF Calls, IInv

\* A caller that is through with a cancel has a request exactly if it had one.
LEMMA AfterCancel ==
  ASSUME IInv, NEW c \in Callers, pc[c] \in CancelCalls,
         \/ pc'[c] = "Idle" /\ arg'[c] = NoArg
         \/ pc'[c] = "Cleanup" /\ arg'[c] = arg[c] /\ arg[c].request # NoTicket
         \/ pc'[c] = "EraseCancelled" /\ arg'[c] = arg[c],
         \A d \in Callers \ {c} : pc'[d] = pc[d] /\ arg'[d] = arg[d]
  PROVE  \A d \in Callers :
           /\ Asks(d)' => Asks(d) /\ arg'[d] = arg[d]
           /\ AsksEarly(d)' => AsksEarly(d)
           /\ pc'[d] = "Enqueue" => pc[d] = "Enqueue" /\ arg'[d] = arg[d] /\ Asks(d)
           /\ pc'[d] = "Idle" => arg'[d].request = NoTicket
           /\ pc'[d] \in RequestCalls => arg'[d].request # NoTicket
           /\ pc'[d] \in CancelCalls => pc[d] \in CancelCalls /\ arg'[d] = arg[d]
           /\ pc'[d] = "EraseCancelled" => pc[d] = "EraseCancelled" \/ d = c
<1>1. ASSUME NEW d \in Callers, d # c
      PROVE  /\ Asks(d)' => Asks(d) /\ arg'[d] = arg[d]
             /\ AsksEarly(d)' => AsksEarly(d)
             /\ pc'[d] = "Enqueue" => pc[d] = "Enqueue" /\ arg'[d] = arg[d] /\ Asks(d)
             /\ pc'[d] = "Idle" => arg'[d].request = NoTicket
             /\ pc'[d] \in RequestCalls => arg'[d].request # NoTicket
             /\ pc'[d] \in CancelCalls => pc[d] \in CancelCalls /\ arg'[d] = arg[d]
             /\ pc'[d] = "EraseCancelled" => pc[d] = "EraseCancelled"
  BY <1>1 DEF Asks, AsksEarly, RequestCalls, IInv, RequestsOK
<1>2. /\ Asks(c)' => Asks(c) /\ arg'[c] = arg[c]
      /\ AsksEarly(c)' => AsksEarly(c)
      /\ pc'[c] # "Enqueue"
      /\ pc'[c] = "Idle" => arg'[c].request = NoTicket
      /\ pc'[c] \in RequestCalls => arg'[c].request # NoTicket
      /\ pc'[c] \in CancelCalls => arg'[c] = arg[c]
  BY DEF Asks, AsksEarly, RequestCalls, CancelCalls, NoArg
<1> QED BY <1>1, <1>2

\* What a step of a cancel leaves of RequestsOK.
LEMMA CancelKeepsRequests ==
  ASSUME IInv, NEW c \in Callers, pc[c] \in CancelCalls, NEW t \in Tickets, t = arg[c].target,
         \/ pc'[c] = "Idle" /\ arg'[c] = NoArg
         \/ pc'[c] = "Cleanup" /\ arg'[c] = arg[c] /\ arg[c].request # NoTicket
         \/ pc'[c] = "EraseCancelled" /\ arg'[c] = arg[c] /\ status'[t] = "CANCELLED",
         \A d \in Callers \ {c} : pc'[d] = pc[d] /\ arg'[d] = arg[d],
         UNCHANGED <<requests, level, toExpand>>,
         \A u \in Tickets \ {t} : status'[u] = status[u] /\ (u \in ticketMap' <=> u \in ticketMap),
         \/ status'[t] = "CANCELLED"
         \/ status'[t] = status[t] /\ (t \in ticketMap' <=> t \in ticketMap),
         \A w \in Workers : waiting'[w] \subseteq waiting[w]
  PROVE  RequestsOK'
<1>1. \A d \in Callers :
        /\ Asks(d)' => Asks(d) /\ arg'[d] = arg[d]
        /\ AsksEarly(d)' => AsksEarly(d)
        /\ pc'[d] = "Enqueue" => pc[d] = "Enqueue" /\ arg'[d] = arg[d] /\ Asks(d)
        /\ pc'[d] = "Idle" => arg'[d].request = NoTicket
        /\ pc'[d] \in RequestCalls => arg'[d].request # NoTicket
        /\ pc'[d] \in CancelCalls => pc[d] \in CancelCalls /\ arg'[d] = arg[d]
        /\ pc'[d] = "EraseCancelled" => pc[d] = "EraseCancelled" \/ d = c
  BY AfterCancel
<1>2. /\ t \notin requests /\ requests \subseteq Tickets
      /\ \A d \in Callers : AsksEarly(d) => arg[d].request # t
  BY DEF IInv, RequestsOK, TypeInv, TypeOK
<1>3. \A u \in Tickets : Fresh(u) => Fresh(u)'
  BY DEF Fresh
<1>4. \A u \in requests' : Fresh(u)' /\ status'[u] = "None" /\ u \notin ticketMap'
  BY <1>2, <1>3 DEF IInv, RequestsOK
<1>5. ASSUME NEW d \in Callers, Asks(d)'
      PROVE  /\ arg'[d].request \in Tickets \ requests' /\ Fresh(arg[d].request)'
             /\ AsksEarly(d)' =>
                  status'[arg'[d].request] = "None" /\ arg'[d].request \notin ticketMap'
             /\ pc'[d] = "Enqueue" /\ status'[arg'[d].request] = "None" =>
                  arg'[d].request \in ticketMap'
  <2>1. PICK u \in Tickets \ requests : u = arg[d].request /\ Fresh(u)
    BY <1>1, <1>5 DEF IInv, RequestsOK
  <2>2. Fresh(u)' /\ arg'[d] = arg[d]
    BY <1>1, <1>3, <1>5, <2>1
  <2>3. AsksEarly(d)' => status[u] = "None" /\ u \notin ticketMap /\ u # t
    BY <1>1, <1>2, <2>1 DEF IInv, RequestsOK
  <2>4. pc'[d] = "Enqueue" /\ status[u] = "None" => u \in ticketMap
    BY <1>1, <2>1 DEF IInv, RequestsOK
  <2>5. Fresh(arg[d].request)'
    BY <2>1, <2>2 DEF Fresh
  <2> QED BY <2>1, <2>2, <2>3, <2>4, <2>5
<1>6. ASSUME NEW d \in Callers
      PROVE  /\ pc'[d] \in CancelCalls => arg'[d].target \in Tickets \ requests'
             /\ pc'[d] = "EraseCancelled" => status'[arg'[d].target] = "CANCELLED"
  <2>1. pc'[d] \in CancelCalls => arg'[d] = arg[d] /\ arg[d].target \in Tickets \ requests
    BY <1>1 DEF IInv, RequestsOK
  <2>2. pc[d] = "EraseCancelled" => status[arg[d].target] = "CANCELLED"
    BY DEF IInv, RequestsOK
  <2> QED BY <1>1, <2>1, <2>2 DEF CancelCalls
<1>7. \A d, e \in Callers :
        /\ Asks(d)' /\ Asks(e)' /\ d # e => arg'[d].request # arg'[e].request
        /\ AsksEarly(d)' /\ pc'[e] \in CancelCalls => arg'[d].request # arg'[e].target
  <2>1. \A d \in Callers : AsksEarly(d)' => AsksEarly(d) /\ arg'[d] = arg[d]
    BY <1>1 DEF AsksEarly
  <2> QED BY <1>1, <2>1 DEF IInv, RequestsOK
<1>8. \A d \in Callers : pc'[d] = "Enqueue" => Asks(d)'
  BY <1>1 DEF Asks, RequestCalls
<1> QED BY <1>1, <1>4, <1>5, <1>6, <1>7, <1>8 DEF RequestsOK, AsksEarly

LEMMA CancelMatchTicketOK ==
  ASSUME IInv, NEW c \in Callers, CancelMatchTicket(c)
  PROVE  IInv'
<1>0. PICK t \in Tickets : t = arg[c].target
  BY DEF CancelMatchTicket, IInv, RequestsOK, CancelCalls
<1>1. /\ pc[c] = "Cancel" /\ pc[c] \in CancelCalls /\ status[t] \in Statuses
      /\ UNCHANGED <<requests, mapVars, level, toExpand, workerVars>>
      /\ ticketMap' = ticketMap
  BY DEF CancelMatchTicket, CancelCalls, IInv, TypeInv, TypeOK, mapVars
<1>2. CASE CanChangeStatus(status[t], "CANCELLED")
  <2>1. /\ Goto(c, "EraseCancelled")
        /\ status[t] \in {"None", "QUEUED"}
        /\ status' = [status EXCEPT ![t] = "CANCELLED"]
        /\ waiting' = [w \in Workers |-> waiting[w] \ {t}]
    BY <1>0, <1>1, <1>2, Changes DEF CancelMatchTicket, Erased
  <2>2. /\ pc' \in [Callers -> Calls] /\ arg' \in [Callers -> ArgType]
        /\ pc'[c] = "EraseCancelled" /\ arg'[c] = arg[c]
        /\ \A d \in Callers \ {c} : pc'[d] = pc[d] /\ arg'[d] = arg[d]
    BY <2>1, CallType, GotoArg DEF Calls, IInv
  <2>3. /\ status' \in [Tickets -> Statuses] /\ status'[t] = "CANCELLED"
        /\ \A u \in Tickets \ {t} : status'[u] = status[u]
        /\ waiting' \in [Workers -> SUBSET Tickets]
        /\ \A w \in Workers : waiting'[w] = waiting[w] \ {t}
    BY <2>1 DEF IInv, TypeInv, TypeOK, Statuses
  <2>4. TypeInv'
    BY <1>1, <2>2, <2>3, UnchangedMap
    DEF IInv, TypeInv, TypeOK, MapOK, MapTypeOK, ArgType, workerVars, mapVars
  <2>5. RequestsOK'
    BY <1>0, <1>1, <2>2, <2>3, CancelKeepsRequests
  <2>6. QueuesOK'
    <3>1. \A w \in Workers : \A u \in waiting'[w] : w \in Slots(u, level'[u])
      BY <1>1, <2>3 DEF IInv, QueuesOK
    <3>2. \A u \in toExpand' : Slots(u, level'[u]) # Workers
      BY <1>1 DEF IInv, QueuesOK
    <3>3. ASSUME NEW u \in Tickets, status'[u] = "QUEUED", NEW w \in Slots(u, level'[u])
          PROVE  u \in waiting'[w]
      <4>1. u # t /\ status[u] = "QUEUED" /\ level'[u] = level[u]
        BY <1>1, <2>3, <3>3
      <4>2. w \in Workers /\ u \in waiting[w]
        BY <3>3, <4>1, SlotsStep DEF IInv, QueuesOK, TypeInv, TypeOK
      <4> QED BY <2>3, <4>1, <4>2
    <3>4. \A u \in Tickets : status'[u] = "SEARCHING" => \A w \in Workers : u \notin waiting'[w]
      BY <2>3 DEF IInv, QueuesOK
    <3> QED BY <3>1, <3>2, <3>3, <3>4 DEF QueuesOK
  <2>7. FoundOK' /\ MatchesOK'
    BY <1>1, <2>1, <2>3 DEF IInv, TypeInv, TypeOK, FoundOK, MatchesOK, workerVars
  <2> QED BY <2>4, <2>5, <2>6, <2>7 DEF IInv
<1>3. CASE ~ CanChangeStatus(status[t], "CANCELLED")
  <2>1. Return(c) /\ UNCHANGED <<status, waiting>>
    BY <1>0, <1>3 DEF CancelMatchTicket
  <2>2. /\ pc' \in [Callers -> Calls] /\ arg' \in [Callers -> ArgType]
        /\ \/ pc'[c] = "Idle" /\ arg'[c] = NoArg
           \/ pc'[c] = "Cleanup" /\ arg'[c] = arg[c] /\ arg[c].request # NoTicket
        /\ \A d \in Callers \ {c} : pc'[d] = pc[d] /\ arg'[d] = arg[d]
    BY <1>1, <2>1, ReturnType
  <2>3. TypeInv'
    BY <1>1, <2>1, <2>2, UnchangedMap
    DEF IInv, TypeInv, TypeOK, MapOK, MapTypeOK, ArgType, workerVars, mapVars
  <2>4. RequestsOK'
    BY <1>0, <1>1, <2>1, <2>2, CancelKeepsRequests
  <2>5. UNCHANGED <<status, queueVars, workerVars>>
    BY <1>1, <2>1 DEF queueVars
  <2> QED BY <1>1, <2>3, <2>4, <2>5, CallsOnly DEF IInv
<1> QED BY <1>2, <1>3

LEMMA EraseCancelledOK ==
  ASSUME IInv, NEW c \in Callers, EraseCancelled(c)
  PROVE  IInv'
<1>0. PICK t \in Tickets : t = arg[c].target
  BY DEF EraseCancelled, IInv, RequestsOK, CancelCalls
<1>1. /\ pc[c] \in CancelCalls /\ status[t] = "CANCELLED"
      /\ EraseMatchTicket(t) /\ Return(c)
      /\ UNCHANGED <<requests, status, queueVars, workerVars>>
  BY <1>0 DEF EraseCancelled, CancelCalls, IInv, RequestsOK
<1>2. MapOK' /\ ticketMap' = ticketMap \ {t}
  BY <1>1, EraseKeepsMap DEF IInv, TypeInv
<1>3. /\ pc' \in [Callers -> Calls] /\ arg' \in [Callers -> ArgType]
      /\ \/ pc'[c] = "Idle" /\ arg'[c] = NoArg
         \/ pc'[c] = "Cleanup" /\ arg'[c] = arg[c] /\ arg[c].request # NoTicket
      /\ \A d \in Callers \ {c} : pc'[d] = pc[d] /\ arg'[d] = arg[d]
  BY <1>1, ReturnType
<1>4. TypeInv'
  BY <1>1, <1>2, <1>3
  DEF IInv, TypeInv, TypeOK, MapOK, ArgType, queueVars, workerVars
<1>5. RequestsOK'
  BY <1>0, <1>1, <1>2, <1>3, CancelKeepsRequests DEF queueVars
<1> QED BY <1>1, <1>2, <1>4, <1>5, CallsOnly DEF IInv

-----------------------------------------------------------------------------
(* Workers.                                                                *)

\* A step of the group leaves the requests of the callers alone: it only handles
\* tickets that have been in a queue.
LEMMA GroupKeepsRequests ==
  ASSUME IInv, UNCHANGED callerVars,
         \A t \in Tickets : Fresh(t) => /\ Fresh(t)' /\ status'[t] = status[t]
                                        /\ t \in ticketMap' <=> t \in ticketMap,
         \A t \in Tickets : status[t] = "CANCELLED" => status'[t] = "CANCELLED"
  PROVE  RequestsOK'
<1>1. \A d \in Callers : /\ pc'[d] = pc[d] /\ arg'[d] = arg[d]
                         /\ Asks(d)' <=> Asks(d)
                         /\ AsksEarly(d)' <=> AsksEarly(d)
  BY DEF callerVars, Asks, AsksEarly
<1>2. \A u \in requests' : Fresh(u)' /\ status'[u] = "None" /\ u \notin ticketMap'
  BY DEF IInv, TypeInv, TypeOK, RequestsOK, callerVars
<1>3. ASSUME NEW d \in Callers, Asks(d)'
      PROVE  /\ arg'[d].request \in Tickets \ requests' /\ Fresh(arg[d].request)'
             /\ AsksEarly(d)' =>
                  status'[arg'[d].request] = "None" /\ arg'[d].request \notin ticketMap'
             /\ pc'[d] = "Enqueue" /\ status'[arg'[d].request] = "None" =>
                  arg'[d].request \in ticketMap'
  <2>1. PICK u \in Tickets \ requests : u = arg[d].request /\ Fresh(u)
    BY <1>1, <1>3 DEF IInv, RequestsOK
  <2>2. Fresh(u)' /\ status'[u] = status[u] /\ (u \in ticketMap' <=> u \in ticketMap)
    BY <2>1
  <2>3. AsksEarly(d)' => status[u] = "None" /\ u \notin ticketMap
    BY <1>1, <2>1 DEF IInv, RequestsOK
  <2>4. pc'[d] = "Enqueue" /\ status[u] = "None" => u \in ticketMap
    BY <1>1, <2>1 DEF IInv, RequestsOK
  <2>5. Fresh(arg[d].request)'
    BY <1>1, <2>1, <2>2 DEF Fresh
  <2> QED BY <1>1, <2>1, <2>2, <2>3, <2>4, <2>5 DEF callerVars
<1>4. \A d \in Callers : pc'[d] = "Enqueue" => Asks(d)'
  BY <1>1 DEF IInv, RequestsOK, Asks, RequestCalls
<1>5. ASSUME NEW d \in Callers
      PROVE  /\ pc'[d] = "Idle" => arg'[d].request = NoTicket
             /\ pc'[d] \in RequestCalls => arg'[d].request # NoTicket
             /\ pc'[d] \in CancelCalls => arg'[d].target \in Tickets \ requests'
             /\ pc'[d] = "EraseCancelled" => status'[arg'[d].target] = "CANCELLED"
  BY <1>1 DEF IInv, RequestsOK, CancelCalls, callerVars
<1>6. \A d, e \in Callers :
        /\ Asks(d)' /\ Asks(e)' /\ d # e => arg'[d].request # arg'[e].request
        /\ AsksEarly(d)' /\ pc'[e] \in CancelCalls => arg'[d].request # arg'[e].target
  BY <1>1 DEF IInv, RequestsOK
<1> QED BY <1>2, <1>3, <1>4, <1>5, <1>6 DEF RequestsOK, AsksEarly

\* The oldest tickets of a queue are picked, whatever the rule.
LEMMA MakeMatchmakingOK ==
  ASSUME IInv, NEW w \in Workers, MakeMatchmaking(w)
  PROVE  IInv'
<1>1. PICK S \in BestCandidates(w) : picked' = [picked EXCEPT ![w] = S]
  BY DEF MakeMatchmaking
<1>2. S \subseteq Tickets
  BY <1>1 DEF BestCandidates, Candidates, IInv, TypeInv, TypeOK
<1>3. /\ work' = [work EXCEPT ![w] = "Commit"]
      /\ UNCHANGED <<status, mapVars, callerVars, queueVars, matches>>
  BY DEF MakeMatchmaking
<1>4. TypeInv'
  BY <1>1, <1>2, <1>3, UnchangedMap
  DEF IInv, TypeInv, TypeOK, MapOK, MapTypeOK, Works, callerVars, queueVars, mapVars
<1>5. RequestsOK'
  BY <1>3, GroupKeepsRequests DEF Fresh, queueVars, mapVars
<1>6. QueuesOK' /\ FoundOK'
  BY <1>3 DEF IInv, QueuesOK, FoundOK, queueVars, mapVars
<1>7. MatchesOK'
  BY <1>1, <1>3 DEF IInv, TypeInv, TypeOK, MatchesOK
<1> QED BY <1>4, <1>5, <1>6, <1>7 DEF IInv

\* What is committed was queued, so it is in the map and in queues of its slots
\* only, from which it is erased.
LEMMA TryCommitOK ==
  ASSUME IInv, NEW w \in Workers, TryCommit(w)
  PROVE  IInv'
<1>0. /\ UNCHANGED <<mapVars, callerVars, level, toExpand>> /\ UNCHANGED ticketMap
      /\ picked[w] \subseteq Tickets /\ status \in [Tickets -> Statuses]
  BY DEF TryCommit, mapVars, IInv, TypeInv, TypeOK
<1>1. CASE \A t \in picked[w] : status[t] = "QUEUED"
  <2>1. /\ \A t \in Tickets : status'[t] = IF t \in picked[w] THEN "SEARCHING" ELSE status[t]
        /\ status' \in [Tickets -> Statuses]
        /\ waiting' = [v \in Workers |->
                         waiting[v] \ {t \in picked[w] : v \in Slots(t, level[t])}]
        /\ matches' = matches \cup {picked[w]}
        /\ work' = [work EXCEPT ![w] = "Create"]
        /\ UNCHANGED picked
    BY <1>0, <1>1 DEF TryCommit, Erased, Statuses
  <2>2. \A v \in Workers : waiting'[v] = waiting[v] \ picked[w]
    BY <2>1 DEF IInv, QueuesOK
  <2>3. TypeInv'
    BY <1>0, <2>1, <2>2, UnchangedMap
    DEF IInv, TypeInv, TypeOK, MapOK, MapTypeOK, Works, callerVars, mapVars
  <2>4. RequestsOK'
    BY <1>0, <1>1, <2>1, <2>2, GroupKeepsRequests DEF Fresh
  <2>5. QueuesOK'
    <3>1. \A v \in Workers : \A t \in waiting'[v] : v \in Slots(t, level'[t])
      BY <1>0, <2>2 DEF IInv, QueuesOK
    <3>2. \A t \in toExpand' : Slots(t, level'[t]) # Workers
      BY <1>0 DEF IInv, QueuesOK
    <3>3. ASSUME NEW t \in Tickets, status'[t] = "QUEUED", NEW v \in Slots(t, level'[t])
          PROVE  t \in waiting'[v]
      <4>1. t \notin picked[w] /\ status[t] = "QUEUED" /\ level'[t] = level[t]
        BY <1>0, <2>1, <3>3
      <4>2. v \in Workers /\ t \in waiting[v]
        BY <3>3, <4>1, SlotsStep DEF IInv, QueuesOK, TypeInv, TypeOK
      <4> QED BY <2>2, <4>1, <4>2
    <3>4. \A t \in Tickets : status'[t] = "SEARCHING" => \A v \in Workers : t \notin waiting'[v]
      BY <2>1, <2>2 DEF IInv, QueuesOK
    <3> QED BY <3>1, <3>2, <3>3, <3>4 DEF QueuesOK
  <2>6. FoundOK'
    BY <1>0, <1>1, <2>1 DEF IInv, FoundOK
  <2>7. MatchesOK'
    <3> SUFFICES ASSUME NEW v \in Workers, NEW t \in picked'[v]
                 PROVE  /\ work'[v] \in {"Create", "Expire", "OnFailed", "EraseFailed"} =>
                             status'[t] \notin {"None", "QUEUED", "CANCELLED"}
                        /\ work'[v] = "Expire" => status'[t] # "SEARCHING"
      BY DEF MatchesOK
    <3>1. t \in picked[v] /\ t \in Tickets
      BY <2>1 DEF IInv, TypeInv, TypeOK
    <3>2. CASE v = w
      BY <2>1, <3>1, <3>2 DEF IInv, TypeInv, TypeOK
    <3>3. CASE v # w
      <4>1. work'[v] = work[v]
        BY <2>1, <3>3
      <4> QED BY <1>1, <2>1, <3>1, <4>1 DEF IInv, MatchesOK
    <3> QED BY <3>2, <3>3
  <2> QED BY <2>3, <2>4, <2>5, <2>6, <2>7 DEF IInv
<1>2. CASE ~ \A t \in picked[w] : status[t] = "QUEUED"
  <2>1. /\ UNCHANGED <<status, waiting, matches>>
        /\ picked' = [picked EXCEPT ![w] = {}]
        /\ work' = [work EXCEPT ![w] = "Idle"]
    BY <1>2 DEF TryCommit
  <2>2. TypeInv'
    BY <1>0, <2>1, UnchangedMap
    DEF IInv, TypeInv, TypeOK, MapOK, MapTypeOK, Works, callerVars, mapVars
  <2>3. RequestsOK'
    BY <1>0, <2>1, GroupKeepsRequests DEF Fresh
  <2>4. QueuesOK' /\ FoundOK'
    BY <1>0, <2>1 DEF IInv, QueuesOK, FoundOK
  <2>5. MatchesOK'
    BY <2>1 DEF IInv, TypeInv, TypeOK, MatchesOK
  <2> QED BY <2>2, <2>3, <2>4, <2>5 DEF IInv
<1> QED BY <1>1, <1>2

Handling == {"Create", "Expire", "OnFailed", "EraseFailed"}

\* A step of a worker that handles its match: no ticket comes back to the queue or
\* is searching again, and none that is searching is erased.
LEMMA MatchedStep ==
  ASSUME IInv, UNCHANGED <<callerVars, queueVars, matches>>,
         status' \in [Tickets -> Statuses],
         \A t \in Tickets : status'[t] # status[t] =>
           /\ status[t] \notin {"None", "QUEUED", "CANCELLED"}
           /\ status'[t] \notin {"None", "QUEUED", "CANCELLED", "SEARCHING"},
         MapOK', ticketMap' \subseteq ticketMap,
         \A t \in ticketMap \ ticketMap' :
           status[t] \notin {"None", "QUEUED", "CANCELLED", "SEARCHING"},
         work' \in [Workers -> Works], picked' \in [Workers -> SUBSET Tickets],
         \A v \in Workers :
           /\ picked'[v] \subseteq picked[v]
           /\ work'[v] \in Handling /\ picked'[v] # {} => work[v] \in Handling
           /\ work'[v] = "Expire" =>
                work[v] = "Expire" \/ \A t \in picked'[v] : status'[t] # "SEARCHING"
  PROVE  IInv'
<1>1. TypeInv'
  BY DEF IInv, TypeInv, TypeOK, MapOK, callerVars, queueVars
<1>2. RequestsOK'
  <2>1. \A t \in Tickets : Fresh(t) => /\ Fresh(t)' /\ status'[t] = status[t]
                                       /\ t \in ticketMap' <=> t \in ticketMap
    BY DEF Fresh, queueVars
  <2> QED BY <2>1, GroupKeepsRequests
<1>3. QueuesOK' /\ FoundOK'
  BY DEF IInv, QueuesOK, FoundOK, queueVars
<1>4. MatchesOK'
  <2> SUFFICES ASSUME NEW v \in Workers, NEW t \in picked'[v]
               PROVE  /\ work'[v] \in Handling =>
                           status'[t] \notin {"None", "QUEUED", "CANCELLED"}
                      /\ work'[v] = "Expire" => status'[t] # "SEARCHING"
    BY DEF MatchesOK, Handling
  <2>1. t \in picked[v] /\ t \in Tickets
    OBVIOUS
  <2>2. /\ work[v] \in Handling => status[t] \notin {"None", "QUEUED", "CANCELLED"}
        /\ work[v] = "Expire" => status[t] # "SEARCHING"
    BY <2>1 DEF IInv, MatchesOK, Handling
  <2> QED BY <2>1, <2>2
<1> QED BY <1>1, <1>2, <1>3, <1>4 DEF IInv

LEMMA PickedOnes ==
  ASSUME IInv, NEW w \in Workers, work[w] \in Handling
  PROVE  /\ \A t \in picked[w] : t \in Tickets /\ status[t] \notin {"None", "QUEUED", "CANCELLED"}
         /\ work[w] = "Expire" => \A t \in picked[w] : status[t] # "SEARCHING"
BY DEF IInv, MatchesOK, TypeInv, TypeOK, Handling

LEMMA CreateMatchSessionOK ==
  ASSUME IInv, NEW w \in Workers, CreateMatchSession(w)
  PROVE  IInv'
<1>0. /\ work \in [Workers -> Works] /\ picked \in [Workers -> SUBSET Tickets]
      /\ status \in [Tickets -> Statuses] /\ MapOK
  BY DEF IInv, TypeInv, TypeOK
<1>1. /\ UNCHANGED <<mapVars, callerVars, queueVars, matches, picked>>
      /\ work[w] = "Create" /\ work[w] \in Handling
      /\ \/ /\ status' = [t \in Tickets |->
                            IF t \in picked[w] THEN "REQUIRES_ACCEPTANCE" ELSE status[t]]
            /\ work' = [work EXCEPT ![w] = "Expire"]
         \/ UNCHANGED status /\ work' = [work EXCEPT ![w] = "OnFailed"]
  BY DEF CreateMatchSession, Handling
<1>2. /\ work' \in [Workers -> Works]
      /\ \A v \in Workers : v # w => work'[v] = work[v]
      /\ work'[w] = "Expire" => \A t \in picked[w] : status'[t] # "SEARCHING"
  BY <1>0, <1>1 DEF Works
<1>3. /\ status' \in [Tickets -> Statuses]
      /\ \A t \in Tickets : status'[t] # status[t] =>
           /\ status[t] \notin {"None", "QUEUED", "CANCELLED"}
           /\ status'[t] \notin {"None", "QUEUED", "CANCELLED", "SEARCHING"}
  BY <1>0, <1>1, PickedOnes DEF Statuses
<1>4. MapOK' /\ ticketMap' = ticketMap
  BY <1>0, <1>1, UnchangedMap DEF mapVars
<1> QED BY <1>0, <1>1, <1>2, <1>3, <1>4, MatchedStep

\* Whichever manager a ticket is taken for, the map of this one stays right.
LEMMA ForgetKeepsMap ==
  ASSUME MapOK, NEW t \in Tickets, Forget(t)
  PROVE  MapOK' /\ ticketMap' \subseteq ticketMap /\ ticketMap \ ticketMap' \subseteq {t}
<1>1. CASE UNCHANGED mapVars
  BY <1>1, UnchangedMap DEF mapVars
<1>2. CASE EraseMatchTicket(t)
  BY <1>2, EraseKeepsMap
<1> QED BY <1>1, <1>2 DEF Forget

\* Done with a ticket, the worker has one less; at most this one leaves the map.
LEMMA DoneStep ==
  ASSUME IInv, NEW w \in Workers, NEW t \in picked[w], NEW next \in Works \cap Handling,
         Done(w, t, next), work[w] \in Handling, UNCHANGED status,
         status[t] # "SEARCHING", next = "Expire" => work[w] = "Expire"
  PROVE  IInv'
<1>0. /\ work \in [Workers -> Works] /\ picked \in [Workers -> SUBSET Tickets]
      /\ status \in [Tickets -> Statuses] /\ MapOK /\ t \in Tickets
  BY DEF IInv, TypeInv, TypeOK
<1>1. /\ Forget(t)
      /\ picked' = [picked EXCEPT ![w] = @ \ {t}]
      /\ work' = [work EXCEPT ![w] = IF picked[w] = {t} THEN "Idle" ELSE next]
      /\ UNCHANGED <<callerVars, queueVars, matches>>
  BY DEF Done
<1>2. MapOK' /\ ticketMap' \subseteq ticketMap /\ ticketMap \ ticketMap' \subseteq {t}
  BY <1>0, <1>1, ForgetKeepsMap
<1>3. status[t] \notin {"None", "QUEUED", "CANCELLED", "SEARCHING"}
  BY PickedOnes
<1>4. /\ work' \in [Workers -> Works] /\ picked' \in [Workers -> SUBSET Tickets]
      /\ \A v \in Workers :
           /\ picked'[v] \subseteq picked[v]
           /\ work'[v] \in Handling /\ picked'[v] # {} => work[v] \in Handling
           /\ work'[v] = "Expire" => work[v] = "Expire"
  BY <1>0, <1>1 DEF Works, Handling
<1> QED BY <1>0, <1>1, <1>2, <1>3, <1>4, MatchedStep

LEMMA OnExpireMatchmakingOK ==
  ASSUME IInv, NEW w \in Workers, NEW t \in Tickets, OnExpireMatchmaking(w, t)
  PROVE  IInv'
<1>1. /\ work[w] = "Expire" /\ work[w] \in Handling /\ t \in picked[w]
      /\ Done(w, t, "Expire") /\ UNCHANGED status /\ "Expire" \in Works \cap Handling
  BY DEF OnExpireMatchmaking, Works, Handling
<1> QED BY <1>1, PickedOnes, DoneStep

LEMMA OnFailedMatchmakingOK ==
  ASSUME IInv, NEW w \in Workers, NEW t \in Tickets, OnFailedMatchmaking(w, t)
  PROVE  IInv'
<1>0. /\ work \in [Workers -> Works] /\ picked \in [Workers -> SUBSET Tickets]
      /\ status \in [Tickets -> Statuses] /\ MapOK
  BY DEF IInv, TypeInv, TypeOK
<1>1. /\ work[w] \in Handling /\ t \in picked[w]
      /\ status' = [status EXCEPT ![t] = "FAILED"]
      /\ work' = [work EXCEPT ![w] = "EraseFailed"]
      /\ UNCHANGED <<mapVars, callerVars, queueVars, matches, picked>>
  BY DEF OnFailedMatchmaking, Handling
<1>2. /\ work' \in [Workers -> Works] /\ work'[w] = "EraseFailed"
      /\ \A v \in Workers : v # w => work'[v] = work[v]
  BY <1>0, <1>1 DEF Works
<1>3. /\ status' \in [Tickets -> Statuses]
      /\ \A u \in Tickets : status'[u] # status[u] =>
           /\ status[u] \notin {"None", "QUEUED", "CANCELLED"}
           /\ status'[u] \notin {"None", "QUEUED", "CANCELLED", "SEARCHING"}
  BY <1>0, <1>1, PickedOnes DEF Statuses
<1>4. MapOK' /\ ticketMap' = ticketMap
  BY <1>0, <1>1, UnchangedMap DEF mapVars
<1> QED BY <1>0, <1>1, <1>2, <1>3, <1>4, MatchedStep

LEMMA EraseFailedOK ==
  ASSUME IInv, NEW w \in Workers, NEW t \in Tickets, EraseFailed(w, t)
  PROVE  IInv'
<1>1. /\ work[w] \in Handling /\ t \in picked[w] /\ status[t] = "FAILED"
      /\ Done(w, t, "OnFailed") /\ UNCHANGED status /\ "OnFailed" \in Works \cap Handling
  BY DEF EraseFailed, Works, Handling
<1> QED BY <1>1, DoneStep

-----------------------------------------------------------------------------
(* The group thread, and the theorems.                                     *)

\* A queued request reaches one worker further to each side and is in the queues
\* of all workers between; once those are all workers it is not expanded again,
\* so its level stays the number of a worker.
LEMMA ExpandOK ==
  ASSUME IInv, NEW due \in SUBSET toExpand, Expand(due)
  PROVE  IInv'
<1> DEFINE Q == {t \in due : status[t] = "QUEUED"}
           New(t) == {Clamp(BaseWorker(t) - (level[t] + 1)),
                      Clamp(BaseWorker(t) + (level[t] + 1))}
<1>0. /\ due \subseteq toExpand /\ toExpand \subseteq Tickets
      /\ level \in [Tickets -> Workers] /\ waiting \in [Workers -> SUBSET Tickets]
      /\ Workers \subseteq Nat
      /\ UNCHANGED <<status, mapVars, callerVars, workerVars>>
  BY RuleAssumption DEF Expand, IInv, TypeInv, TypeOK, Workers
<1>1. /\ waiting' = [w \in Workers |-> waiting[w] \cup {t \in Q : w \in New(t)}]
      /\ level' = [t \in Tickets |-> IF t \in Q THEN level[t] + 1 ELSE level[t]]
      /\ toExpand' = (toExpand \ due) \cup {t \in Q : Slots(t, level[t] + 1) # Workers}
  BY DEF Expand, Enqueued
<1>2. \A t \in Q : t \in Tickets /\ t \in toExpand /\ status[t] = "QUEUED"
  BY <1>0
<1> HIDE DEF Q
<1>3. \A t \in Tickets : Slots(t, level[t]) \subseteq Workers
  BY <1>0, SlotsStep
<1>4. \A t \in Q : /\ level[t] + 1 \in Workers
                   /\ Slots(t, level[t] + 1) = Slots(t, level[t]) \cup New(t)
                   /\ Slots(t, level[t] + 1) \subseteq Workers
  <2> SUFFICES ASSUME NEW t \in Q
               PROVE  /\ level[t] + 1 \in Workers
                      /\ Slots(t, level[t] + 1) = Slots(t, level[t]) \cup New(t)
                      /\ Slots(t, level[t] + 1) \subseteq Workers
    OBVIOUS
  <2>1. t \in Tickets /\ level[t] \in Workers /\ Slots(t, level[t]) # Workers
    BY <1>0, <1>2 DEF IInv, QueuesOK
  <2>2. level[t] # WorkerCount - 1
    BY <2>1, SlotsStep
  <2>3. level[t] + 1 \in Workers
    BY <2>1, <2>2, RuleAssumption DEF Workers
  <2> QED BY <2>1, <2>3, SlotsStep
<1>5. level' \in [Tickets -> Workers]
  BY <1>0, <1>1, <1>4
<1>6. toExpand' \subseteq toExpand
  BY <1>1, <1>2
<1>7. /\ waiting' \in [Workers -> SUBSET Tickets]
      /\ \A w \in Workers : waiting'[w] = waiting[w] \cup {t \in Q : w \in New(t)}
      /\ \A t \in Tickets : level'[t] = IF t \in Q THEN level[t] + 1 ELSE level[t]
  BY <1>0, <1>1, <1>2
<1>8. TypeInv'
  BY <1>0, <1>5, <1>6, <1>7, UnchangedMap
  DEF IInv, TypeInv, TypeOK, MapOK, MapTypeOK, callerVars, workerVars, mapVars
<1>9. RequestsOK'
  <2>1. \A t \in Tickets : Fresh(t) => Fresh(t)'
    BY <1>0, <1>2, <1>6, <1>7 DEF Fresh
  <2> QED BY <1>0, <2>1, GroupKeepsRequests DEF mapVars
<1>10. QueuesOK'
  <2>1. \A w \in Workers : \A t \in waiting'[w] : w \in Slots(t, level'[t])
    <3> SUFFICES ASSUME NEW w \in Workers, NEW t \in waiting'[w]
                 PROVE  w \in Slots(t, level'[t])
      OBVIOUS
    <3>1. t \in Tickets /\ (t \in waiting[w] => w \in Slots(t, level[t]))
      BY <1>7 DEF IInv, QueuesOK
    <3> QED BY <1>4, <1>7, <3>1
  <2>2. \A t \in toExpand' : Slots(t, level'[t]) # Workers
    <3> SUFFICES ASSUME NEW t \in toExpand'
                 PROVE  Slots(t, level'[t]) # Workers
      OBVIOUS
    <3>1. t \in toExpand /\ t \in Tickets /\ Slots(t, level[t]) # Workers
      BY <1>0, <1>6 DEF IInv, QueuesOK
    <3>2. t \in Q => Slots(t, level[t] + 1) # Workers
      BY <1>1 DEF Q
    <3> QED BY <1>7, <3>1, <3>2
  <2>3. ASSUME NEW t \in Tickets, status'[t] = "QUEUED", NEW w \in Slots(t, level'[t])
        PROVE  t \in waiting'[w]
    <3>1. status[t] = "QUEUED"
      BY <1>0, <2>3
    <3>2. CASE t \in Q
      <4>1. w \in Slots(t, level[t]) \cup New(t) /\ w \in Workers
        BY <1>4, <1>7, <2>3, <3>2
      <4>2. w \in Slots(t, level[t]) => t \in waiting[w]
        BY <3>1 DEF IInv, QueuesOK
      <4> QED BY <1>7, <3>2, <4>1, <4>2
    <3>3. CASE t \notin Q
      <4>1. w \in Slots(t, level[t]) /\ w \in Workers
        BY <1>3, <1>7, <2>3, <3>3
      <4> QED BY <1>7, <3>1, <4>1 DEF IInv, QueuesOK
    <3> QED BY <3>2, <3>3
  <2>4. \A t \in Tickets : status'[t] = "SEARCHING" => \A w \in Workers : t \notin waiting'[w]
    BY <1>0, <1>2, <1>7 DEF IInv, QueuesOK
  <2> QED BY <2>1, <2>2, <2>3, <2>4 DEF QueuesOK
<1>11. FoundOK' /\ MatchesOK'
  BY <1>0 DEF IInv, FoundOK, MatchesOK, mapVars, workerVars
<1> QED BY <1>8, <1>9, <1>10, <1>11 DEF IInv

LEMMA NextOK == IInv /\ [Next]_vars => IInv'
<1> SUFFICES ASSUME IInv, [Next]_vars PROVE IInv'
  OBVIOUS
<1>1. CASE UNCHANGED vars
  <2>1. TypeInv'
    BY <1>1, UnchangedMap DEF IInv, TypeInv, TypeOK, MapOK, MapTypeOK, vars, mapVars
  <2>2. RequestsOK'
    BY <1>1, GroupKeepsRequests DEF vars, Fresh, callerVars
  <2>3. QueuesOK' /\ FoundOK' /\ MatchesOK'
    BY <1>1 DEF IInv, QueuesOK, FoundOK, MatchesOK, vars
  <2> QED BY <2>1, <2>2, <2>3 DEF IInv
<1>2. ASSUME NEW c \in Callers, NEW t \in Tickets, NEW backfill \in BOOLEAN,
             CallStart(c, t, backfill)
      PROVE  IInv'
  BY <1>2, CallStartOK
<1>3. ASSUME NEW c \in Callers, NEW t \in Tickets, CallStop(c, t) PROVE IInv'
  BY <1>3, CallStopOK
<1>4. ASSUME NEW c \in Callers, CallerStep(c) PROVE IInv'
  BY <1>4, CleanupPlayerOK, EndCleanupOK, InsertTicketOK, EnqueueJobRequestOK, EraseRefusedOK,
     FailRequestOK, CancelMatchTicketOK, EraseCancelledOK
  DEF CallerStep
<1>5. ASSUME NEW w \in Workers, WorkerStep(w) PROVE IInv'
  BY <1>5, MakeMatchmakingOK, TryCommitOK, CreateMatchSessionOK, OnExpireMatchmakingOK,
     OnFailedMatchmakingOK, EraseFailedOK
  DEF WorkerStep
<1>6. ASSUME NEW due \in SUBSET toExpand, Expand(due) PROVE IInv'
  BY <1>6, ExpandOK
<1> QED BY <1>1, <1>2, <1>3, <1>4, <1>5, <1>6 DEF Next

\* The invariant holds in every state: what the theorems below rest on.
THEOREM Invariant == Spec => []IInv
<1>1. Init => IInv
  BY InitOK
<1>2. IInv /\ [Next]_vars => IInv'
  BY NextOK
<1> QED BY <1>1, <1>2, PTL DEF Spec

\* Every variable keeps its type; a request is not expanded past the last worker.
THEOREM TypeCorrect == Spec => []TypeOK
<1>1. IInv => TypeOK
  BY DEF IInv, TypeInv
<1> QED BY <1>1, Invariant, PTL

\* The player index names exactly the tickets in the map, although statuses, queues
\* and map change in separate critical sections.
THEOREM IndexIsExact == Spec => []IndexMatchesTickets
<1>1. IInv => IndexMatchesTickets
  BY DEF IInv, TypeInv, MapOK
<1> QED BY <1>1, Invariant, PTL

\* A queued ticket is in the map and in the queue of every worker it has reached,
\* and a committed one is in none, for any number of workers and expansions.
THEOREM QueuedTicketIsReachable == Spec => []QueuedIsReachable
<1>1. IInv => QueuedIsReachable
  BY DEF IInv, QueuesOK, FoundOK, QueuedIsReachable
<1> QED BY <1>1, Invariant, PTL

LEMMA OnePlace == IInv => OnePlacePerPlayer
<1> SUFFICES ASSUME IInv, NEW t \in Tickets, NEW u \in Tickets,
                    {status[t], status[u]} \subseteq {"QUEUED", "SEARCHING"}, t # u
             PROVE  PlayersOf[t] \cap PlayersOf[u] = {}
  BY DEF OnePlacePerPlayer
<1>1. t \in ticketMap /\ u \in ticketMap /\ MapOK
  BY DEF IInv, FoundOK, TypeInv
<1> QED BY <1>1, OneTicketPerPlayer

\* A player is in one ticket that waits or is being matched.
THEOREM PlayerHasOnePlace == Spec => []OnePlacePerPlayer
BY OnePlace, Invariant, PTL

-----------------------------------------------------------------------------
(* The players of a set of tickets, and the parties of each size in it.    *)

PlayersIn(S) == MapThenSumSet(PlayerCount, S)

Sizes(S) == {PlayerCount(t) : t \in S}
OfCount(S, n) == {t \in S : PlayerCount(t) = n}

\* How many parties of each size there are in S.
CountsOf(S) == [n \in Sizes(S) |-> Cardinality(OfCount(S, n))]

LEMMA PlayerCountType ==
  ASSUME NEW t \in Tickets
  PROVE  PlayerCount(t) \in Positive
<1>1. IsFiniteSet(PlayersOf[t]) /\ PlayersOf[t] # {}
  BY RuleAssumption, TicketsAssumption
<1> QED BY <1>1, FS_CardinalityType, FS_EmptySet DEF PlayerCount, Positive

LEMMA PlayersInIs ==
  ASSUME NEW S \in SUBSET Tickets, IsFiniteSet(S), NEW w, w = [t \in Tickets |-> PlayerCount(t)]
  PROVE  w \in [Tickets -> Nat] /\ PlayersIn(S) = SumOf(w, S)
<1> DEFINE Is(f) == f = [s \in SUBSET S |-> IF s = {} THEN 0
                           ELSE PlayerCount(AnyOf(s)) + f[s \ {AnyOf(s)}]]
           iter == CHOOSE f : Is(f)
<1>1. w \in [Tickets -> Nat]
  BY PlayerCountType DEF Positive
<1>2. ASSUME NEW f PROVE Is(f) <=> IsSum(w, S, f)
  <2>1. \A s \in SUBSET S : s # {} => w[AnyOf(s)] = PlayerCount(AnyOf(s))
    BY DEF AnyOf
  <2>2. [s \in SUBSET S |-> IF s = {} THEN 0 ELSE PlayerCount(AnyOf(s)) + f[s \ {AnyOf(s)}]] =
        [s \in SUBSET S |-> IF s = {} THEN 0 ELSE w[AnyOf(s)] + f[s \ {AnyOf(s)}]]
    BY <2>1
  <2> QED BY <2>2 DEF IsSum
<1>3. PICK g : IsSum(w, S, g) /\ SumOf(w, S) = g[S]
  BY <1>1, SumIs
<1>4. Is(iter)
  <2>1. Is(g)
    <3> HIDE DEF Is
    <3> QED BY <1>2, <1>3
  <2> HIDE DEF Is
  <2> QED BY <2>1
<1>5. PlayersIn(S) = iter[S]
  BY DEF PlayersIn, MapThenSumSet, MapThenFoldSet, AnyOf
<1>6. g[S] = iter[S]
  <2>1. IsSum(w, S, iter)
    <3> HIDE DEF Is, iter
    <3> QED BY <1>2, <1>4
  <2> HIDE DEF iter
  <2> QED BY <1>1, <1>3, <2>1, SumUnique
<1> QED BY <1>1, <1>3, <1>5, <1>6

LEMMA PlayersInStep ==
  /\ PlayersIn({}) = 0
  /\ \A S \in SUBSET Tickets : IsFiniteSet(S) =>
       \A t \in S : PlayersIn(S) = PlayerCount(t) + PlayersIn(S \ {t})
<1>1. PICK w : w = [t \in Tickets |-> PlayerCount(t)]
  OBVIOUS
<1>2. PlayersIn({}) = 0
  BY <1>1, FS_EmptySet, PlayersInIs, SumEmpty
<1>3. ASSUME NEW S \in SUBSET Tickets, IsFiniteSet(S), NEW t \in S
      PROVE  PlayersIn(S) = PlayerCount(t) + PlayersIn(S \ {t})
  <2>1. S \ {t} \in SUBSET Tickets /\ IsFiniteSet(S \ {t}) /\ w[t] = PlayerCount(t)
    BY <1>1, <1>3, FS_RemoveElement
  <2>2. w \in [Tickets -> Nat] /\ PlayersIn(S) = SumOf(w, S)
    BY <1>1, <1>3, PlayersInIs
  <2>3. PlayersIn(S \ {t}) = SumOf(w, S \ {t})
    BY <1>1, <2>1, PlayersInIs
  <2>4. SumOf(w, S) = w[t] + SumOf(w, S \ {t})
    BY <1>3, <2>2, SumRemove
  <2> QED BY <2>1, <2>2, <2>3, <2>4
<1> QED BY <1>2, <1>3

\* One ticket more is one party of its size more.
LEMMA CountsOfStep ==
  ASSUME NEW S \in SUBSET Tickets, IsFiniteSet(S), NEW t \in S
  PROVE  CountsOf(S) = AddOne(CountsOf(S \ {t}), PlayerCount(t))
<1>1. PICK R : R = S \ {t}
  OBVIOUS
<1>2. PICK n : n = PlayerCount(t)
  OBVIOUS
<1>3. DOMAIN CountsOf(R) = Sizes(R) /\ DOMAIN CountsOf(S) = Sizes(S)
      /\ Sizes(S) = Sizes(R) \cup {n}
  BY <1>1, <1>2 DEF CountsOf, Sizes
<1>4. ASSUME NEW k \in Sizes(S), k # n PROVE CountsOf(S)[k] = CountsOf(R)[k]
  <2>1. OfCount(S, k) = OfCount(R, k)
    BY <1>1, <1>2, <1>4 DEF OfCount
  <2> QED BY <1>3, <1>4, <2>1 DEF CountsOf
<1>5. /\ OfCount(S, n) = OfCount(R, n) \cup {t} /\ t \notin OfCount(R, n)
      /\ IsFiniteSet(OfCount(R, n))
  <2>1. OfCount(R, n) \subseteq S
    BY <1>1 DEF OfCount
  <2> QED BY <1>1, <1>2, <2>1, FS_Subset DEF OfCount
<1>6. Cardinality(OfCount(S, n)) = Cardinality(OfCount(R, n)) + 1
  BY <1>5, FS_AddElement
<1>7. n \notin Sizes(R) => Cardinality(OfCount(R, n)) = 0
  <2>1. n \notin Sizes(R) => OfCount(R, n) = {}
    BY DEF Sizes, OfCount
  <2> QED BY <2>1, FS_EmptySet
<1>8. CountsOf(S)[n] = IF n \in DOMAIN CountsOf(R) THEN CountsOf(R)[n] + 1 ELSE 1
  BY <1>3, <1>6, <1>7 DEF CountsOf
<1>9. CountsOf(S) = [k \in Sizes(R) \cup {n} |-> CountsOf(S)[k]]
  BY <1>3 DEF CountsOf
<1> QED BY <1>1, <1>2, <1>3, <1>4, <1>8, <1>9 DEF AddOne

LEMMA CountsAreOf ==
  ASSUME NEW S \in SUBSET Tickets, IsFiniteSet(S)
  PROVE  IsCounts(CountsOf(S)) /\ Total(CountsOf(S)) = PlayersIn(S)
<1> DEFINE Good(T) == IsCounts(CountsOf(T)) /\ Total(CountsOf(T)) = PlayersIn(T)
           Bad == {Cardinality(T) : T \in {U \in SUBSET S : ~ Good(U)}}
<1>1. \A T \in SUBSET S : IsFiniteSet(T) /\ Cardinality(T) \in Nat
  BY FS_Subset, FS_CardinalityType
<1> SUFFICES ASSUME Bad # {} PROVE FALSE
  <2>1. ~ Good(S) => Cardinality(S) \in Bad
    <3> HIDE DEF Good
    <3> QED OBVIOUS
  <2> HIDE DEF Bad
  <2> QED BY <2>1
<1>2. PICK m \in Bad : \A k \in Bad : m <= k
  <2>1. Bad \subseteq Nat
    <3> HIDE DEF Good
    <3> QED BY <1>1
  <2> HIDE DEF Bad
  <2> QED BY <2>1, Smallest
<1>3. PICK T \in SUBSET S : ~ Good(T) /\ m = Cardinality(T)
  <2> HIDE DEF Good
  <2> QED BY <1>2
<1>4. T # {}
  <2>1. CountsOf({}) = Grouped(<<>>)
    BY DEF CountsOf, Sizes, Grouped, Range
  <2>2. 1 \in Positive
    BY DEF Positive
  <2>3. IsChoice(Grouped(<<>>), 1, 1, 0)
    <3>1. Listed(<< <<>> >>, 1, 1, 0)
      BY <2>2, NothingLeft
    <3>2. <<>> \in Range(<< <<>> >>)
      BY DEF Range
    <3> QED BY <3>1, <3>2 DEF Listed
  <2>4. Good({})
    BY <2>1, <2>3, PlayersInStep DEF IsChoice
  <2> HIDE DEF Good
  <2> QED BY <1>3, <2>4
<1>5. PICK t \in T : TRUE
  BY <1>4
<1>6. PICK R : R = T \ {t}
  OBVIOUS
<1>7. R \in SUBSET S /\ Cardinality(R) < Cardinality(T) /\ Cardinality(R) \in Nat
      /\ Cardinality(T) \in Nat /\ IsFiniteSet(T) /\ IsFiniteSet(R) /\ T \in SUBSET Tickets
  BY <1>1, <1>5, <1>6, RemoveOne
<1>8. Good(R)
  <2>1. Cardinality(R) \notin Bad
    <3> HIDE DEF Bad
    <3> QED BY <1>2, <1>3, <1>7
  <2> HIDE DEF Good
  <2> QED BY <1>7, <2>1
<1>9. PlayerCount(t) \in Positive
  BY <1>5, <1>7, PlayerCountType
<1>10. CountsOf(T) = AddOne(CountsOf(R), PlayerCount(t))
  BY <1>6, <1>7, CountsOfStep
<1>11. PlayersIn(T) = PlayerCount(t) + PlayersIn(R)
  BY <1>6, <1>7, PlayersInStep
<1>12. /\ IsCounts(CountsOf(T)) /\ Total(CountsOf(T)) = Total(CountsOf(R)) + PlayerCount(t)
       /\ Total(CountsOf(R)) \in Nat
  <2>1. PICK c : c = CountsOf(R)
    OBVIOUS
  <2>2. PICK n \in Positive : n = PlayerCount(t)
    BY <1>9
  <2>3. IsCounts(c)
    BY <1>8, <2>1
  <2>4. IsCounts(AddOne(c, n)) /\ Total(AddOne(c, n)) = Total(c) + n /\ Total(c) \in Nat
    BY <2>3, OneMore
  <2>5. CountsOf(T) = AddOne(c, n)
    BY <1>10, <2>1, <2>2
  <2> HIDE DEF Good
  <2> QED BY <2>1, <2>2, <2>4, <2>5
<1>13. Good(T)
  BY <1>8, <1>9, <1>11, <1>12 DEF Positive
<1> HIDE DEF Good
<1> QED BY <1>3, <1>13

LEMMA RuleIs ==
  ASSUME NEW size
  PROVE  /\ Range(GetCombination(Combinations, size)) =
              {c \in FullCounts(MatchPlayerCount, PartyMax) : size \in DOMAIN c}
         /\ \A c : c \in FullCounts(MatchPlayerCount, PartyMax) <=>
                     IsChoice(c, 1, PartyMax, MatchPlayerCount)
<1>1. MatchPlayerCount \in Positive /\ PartyMax \in Positive
  BY RuleAssumption DEF Positive
<1>2. HasCounts(MatchPlayerCount, PartyMax, size)
  BY <1>1, PositiveRule
<1> QED BY <1>1, <1>2, FullCountsAre DEF HasCounts, Combinations

\* What fills a combination is a full match.
LEMMA FillsFull ==
  ASSUME NEW S \in SUBSET Tickets, IsFiniteSet(S), NEW size, Fills(S, size)
  PROVE  S \in FullMatches
<1>1. PICK list : list = GetCombination(Combinations, size)
  OBVIOUS
<1>2. PICK i \in DOMAIN list :
        /\ Sizes(S) = DOMAIN list[i]
        /\ \A n \in DOMAIN list[i] : Cardinality(OfCount(S, n)) = list[i][n]
  BY <1>1 DEF Fills, Sizes, OfCount
<1>3. PICK c : c = list[i]
  OBVIOUS
<1>4. c \in Range(list)
  BY <1>3 DEF Range
<1>5. IsChoice(c, 1, PartyMax, MatchPlayerCount)
  BY <1>1, <1>4, RuleIs
<1>6. Total(c) = MatchPlayerCount /\ c = [n \in DOMAIN c |-> c[n]]
  BY <1>5 DEF IsChoice, IsCounts
<1>7. c = CountsOf(S)
  BY <1>2, <1>3, <1>6 DEF CountsOf
<1>8. PlayersIn(S) = MatchPlayerCount
  BY <1>6, <1>7, CountsAreOf
<1> QED BY <1>8 DEF FullMatches, PlayersIn

\* A full match of parties the rule has fills a combination of each of its sizes.
LEMMA FullCombination ==
  ASSUME NEW S \in FullMatches, IsFiniteSet(S), \A t \in S : PlayerCount(t) <= PartyMax
  PROVE  /\ S # {}
         /\ \A n \in Sizes(S) : CountsOf(S)[n] = Cardinality(OfCount(S, n))
                                /\ CountsOf(S)[n] \in Positive
         /\ \A n \in Sizes(S) : CountsOf(S) \in Range(GetCombination(Combinations, n))
<1>1. S \in SUBSET Tickets /\ PlayersIn(S) = MatchPlayerCount
  BY DEF FullMatches, PlayersIn
<1>2. S # {}
  BY <1>1, PlayersInStep, RuleAssumption
<1>3. PICK c : c = CountsOf(S)
  OBVIOUS
<1>4. IsCounts(c) /\ Total(c) = MatchPlayerCount /\ DOMAIN c = Sizes(S)
  BY <1>1, <1>3, CountsAreOf DEF CountsOf
<1>5. ASSUME NEW n \in Sizes(S) PROVE n \in 1 .. PartyMax
  <2>1. PICK t \in S : n = PlayerCount(t)
    BY DEF Sizes
  <2> QED BY <1>1, <2>1, PlayerCountType, RuleAssumption DEF Positive
<1>6. IsChoice(c, 1, PartyMax, MatchPlayerCount)
  BY <1>4, <1>5 DEF IsChoice
<1>7. \A n \in Sizes(S) : c \in Range(GetCombination(Combinations, n))
  BY <1>4, <1>6, RuleIs
<1>8. \A n \in Sizes(S) : c[n] = Cardinality(OfCount(S, n)) /\ c[n] \in Positive
  BY <1>3, <1>4 DEF CountsOf, IsCounts
<1> QED BY <1>2, <1>3, <1>7, <1>8

\* The tickets of Q of the sizes in c, of each size the oldest, as many as c asks for.
Oldest(Q, c) ==
  {t \in Q : PlayerCount(t) \in DOMAIN c /\
             t \in (CHOOSE O : AreOldest(OfCount(Q, PlayerCount(t)), c[PlayerCount(t)], O))}

LEMMA OldestFill ==
  ASSUME NEW Q \in SUBSET Tickets, IsFiniteSet(Q), NEW c,
         \A n \in DOMAIN c : c[n] \in Positive /\ c[n] <= Cardinality(OfCount(Q, n)),
         NEW size, c \in Range(GetCombination(Combinations, size))
  PROVE  /\ Fills(Oldest(Q, c), size) /\ Oldest(Q, c) \subseteq Q
         /\ \A t \in Oldest(Q, c), u \in Q :
              PlayerCount(u) = PlayerCount(t) /\ u < t => u \in Oldest(Q, c)
<1>1. PICK T : T = Oldest(Q, c)
  OBVIOUS
<1> DEFINE Old(n) == CHOOSE O : AreOldest(OfCount(Q, n), c[n], O)
<1>2. ASSUME NEW n \in DOMAIN c PROVE AreOldest(OfCount(Q, n), c[n], Old(n))
  <2>1. PICK A : A = OfCount(Q, n)
    OBVIOUS
  <2>2. A \subseteq Nat /\ IsFiniteSet(A)
    <3>1. A \subseteq Q /\ A \subseteq Nat
      BY <2>1, RuleAssumption DEF OfCount
    <3> QED BY <3>1, FS_Subset
  <2>3. PICK k \in Nat : k = c[n]
    BY DEF Positive
  <2>4. \E O : AreOldest(A, k, O)
    BY <2>1, <2>2, <2>3, OldestOf
  <2> QED BY <2>1, <2>3, <2>4
<1>3. \A t : t \in T <=> t \in Q /\ PlayerCount(t) \in DOMAIN c /\ t \in Old(PlayerCount(t))
  BY <1>1 DEF Oldest
<1> HIDE DEF Old
<1>4. ASSUME NEW n \in DOMAIN c PROVE OfCount(T, n) = Old(n) /\ Cardinality(OfCount(T, n)) = c[n]
  <2>1. Old(n) \subseteq OfCount(Q, n) /\ Cardinality(Old(n)) = c[n]
    BY <1>2 DEF AreOldest
  <2>2. \A t : t \in OfCount(T, n) <=> t \in Old(n)
    BY <1>3, <2>1 DEF OfCount
  <2>3. OfCount(T, n) = Old(n)
    BY <2>2
  <2> QED BY <2>1, <2>3
<1>5. Sizes(T) = DOMAIN c
  <2>1. ASSUME NEW n \in DOMAIN c PROVE n \in Sizes(T)
    <3>1. OfCount(T, n) # {}
      BY <1>4, FS_EmptySet DEF Positive
    <3> QED BY <3>1 DEF OfCount, Sizes
  <2> QED BY <1>3, <2>1 DEF Sizes
<1>6. Fills(T, size)
  <2>1. PICK i \in DOMAIN GetCombination(Combinations, size) :
          GetCombination(Combinations, size)[i] = c
    BY DEF Range
  <2> QED BY <1>4, <1>5, <2>1 DEF Fills, Sizes, OfCount
<1>7. ASSUME NEW t \in T, NEW u \in Q, PlayerCount(u) = PlayerCount(t), u < t PROVE u \in T
  <2>1. PICK n \in DOMAIN c : n = PlayerCount(t) /\ t \in Old(n)
    BY <1>3
  <2>2. u \in OfCount(Q, n)
    BY <1>7, <2>1 DEF OfCount
  <2>3. u \in Old(n)
    BY <1>2, <1>7, <2>1, <2>2 DEF AreOldest
  <2> QED BY <1>3, <1>7, <2>1, <2>3
<1> QED BY <1>1, <1>3, <1>6, <1>7

-----------------------------------------------------------------------------
(* What the workers pick and commit.                                       *)

\* Queues are finite, what a worker picked is a full match, and what it handles is
\* a committed one, which no ticket leaves for the queue.
WorkOK ==
  /\ IsFiniteSet(toExpand) /\ \A w \in Workers : IsFiniteSet(waiting[w])
  /\ \A w \in Workers : work[w] = "Commit" => picked[w] \in FullMatches
  /\ \A w \in Workers : work[w] \in Handling => picked[w] \subseteq UNION matches
  /\ \A t \in UNION matches : status[t] \notin {"None", "QUEUED", "CANCELLED"}

LEMMA InitWork == Init => WorkOK
BY FS_EmptySet DEF Init, WorkOK, Handling

\* A step of a caller or of the group thread leaves what the workers have.
LEMMA OthersKeepWork ==
  ASSUME WorkOK, UNCHANGED workerVars, IsFiniteSet(toExpand'),
         \A w \in Workers : IsFiniteSet(waiting'[w]),
         \A t \in Tickets : status'[t] # status[t] =>
           status[t] \in {"None", "QUEUED", "CANCELLED"}
           \/ status'[t] \notin {"None", "QUEUED", "CANCELLED"},
         TypeOK
  PROVE  WorkOK'
BY DEF WorkOK, workerVars, TypeOK

LEMMA CallerKeepsWork ==
  ASSUME IInv, WorkOK, NEW c \in Callers, CallerStep(c)
  PROVE  WorkOK'
<1>0. /\ TypeOK /\ status \in [Tickets -> Statuses] /\ waiting \in [Workers -> SUBSET Tickets]
      /\ UNCHANGED workerVars
  BY DEF IInv, TypeInv, TypeOK, CallerStep, CleanupPlayer, EndCleanup, InsertTicket,
         EnqueueJobRequest, EraseRefused, FailRequest, CancelMatchTicket, EraseCancelled
<1>1. CASE UNCHANGED <<status, queueVars>>
  BY <1>0, <1>1, OthersKeepWork DEF queueVars, WorkOK
<1>2. CASE EnqueueJobRequest(c) /\ RuleAllows(arg[c].request)
  <2>1. PICK t \in Tickets : t = arg[c].request
    BY <1>2 DEF EnqueueJobRequest, IInv, RequestsOK, RequestCalls, TypeInv, TypeOK
  <2>2. PICK b \in Workers : b = BaseWorker(t)
    BY BaseType
  <2>3. /\ toExpand' = IF WorkerCount > 1 THEN toExpand \cup {t} ELSE toExpand
        /\ waiting' = [waiting EXCEPT ![b] = waiting[b] \cup {t}]
        /\ status' = [status EXCEPT ![t] = IF CanChangeStatus(@, "QUEUED") THEN "QUEUED" ELSE @]
    BY <1>2, <2>1, <2>2 DEF EnqueueJobRequest, Enqueued
  <2>4. IsFiniteSet(toExpand') /\ \A w \in Workers : IsFiniteSet(waiting'[w])
    <3>1. IsFiniteSet(toExpand \cup {t}) /\ IsFiniteSet(waiting[b] \cup {t})
      BY FS_AddElement DEF WorkOK
    <3> QED BY <1>0, <2>3, <3>1 DEF WorkOK
  <2>5. \A u \in Tickets : status'[u] # status[u] => status[u] = "None"
    BY <1>0, <2>3, Changes
  <2> QED BY <1>0, <2>4, <2>5, OthersKeepWork
<1>3. CASE FailRequest(c)
  <2>1. PICK t : t = arg[c].request
    OBVIOUS
  <2>2. status' = [status EXCEPT ![t] = IF CanChangeStatus(@, "FAILED") THEN "FAILED" ELSE @]
        /\ UNCHANGED queueVars
    BY <1>3, <2>1 DEF FailRequest
  <2>3. \A u \in Tickets : status'[u] # status[u] => status'[u] = "FAILED"
    BY <1>0, <2>2
  <2> QED BY <1>0, <2>2, <2>3, OthersKeepWork DEF queueVars, WorkOK
<1>4. CASE CancelMatchTicket(c) /\ CanChangeStatus(status[arg[c].target], "CANCELLED")
  <2>1. PICK t \in Tickets : t = arg[c].target
    BY <1>4 DEF CancelMatchTicket, IInv, RequestsOK, CancelCalls
  <2>2. /\ status' = [status EXCEPT ![t] = "CANCELLED"]
        /\ waiting' = [w \in Workers |-> waiting[w] \ {t}] /\ UNCHANGED toExpand
    BY <1>4, <2>1 DEF CancelMatchTicket, Erased
  <2>3. IsFiniteSet(toExpand') /\ \A w \in Workers : IsFiniteSet(waiting'[w])
    BY <2>2, FS_Subset DEF WorkOK
  <2>4. \A u \in Tickets : status'[u] # status[u] => status[u] \in {"None", "QUEUED"}
    BY <1>0, <1>4, <2>1, <2>2, Changes
  <2> QED BY <1>0, <2>3, <2>4, OthersKeepWork
<1> QED BY <1>1, <1>2, <1>3, <1>4
        DEF CallerStep, CleanupPlayer, EndCleanup, InsertTicket, EnqueueJobRequest,
            EraseRefused, CancelMatchTicket, EraseCancelled, queueVars

LEMMA ExpandKeepsWork ==
  ASSUME IInv, WorkOK, NEW due \in SUBSET toExpand, Expand(due)
  PROVE  WorkOK'
<1>1. PICK Q : Q = {t \in due : status[t] = "QUEUED"}
  OBVIOUS
<1>2. IsFiniteSet(Q) /\ IsFiniteSet(due)
  BY <1>1, FS_Subset DEF WorkOK
<1>3. UNCHANGED status /\ UNCHANGED workerVars /\ TypeOK
  BY DEF Expand, IInv, TypeInv
<1>4. toExpand' \subseteq toExpand
  BY DEF Expand
<1>5. ASSUME NEW w \in Workers PROVE IsFiniteSet(waiting'[w])
  <2>1. waiting'[w] \subseteq waiting[w] \cup Q
    BY <1>1 DEF Expand, Enqueued
  <2>2. IsFiniteSet(waiting[w] \cup Q)
    BY <1>2, FS_Union DEF WorkOK
  <2> QED BY <2>1, <2>2, FS_Subset
<1>6. IsFiniteSet(toExpand')
  BY <1>4, FS_Subset DEF WorkOK
<1> QED BY <1>3, <1>5, <1>6, OthersKeepWork

\* A candidate is a full match.
LEMMA MakeKeepsWork ==
  ASSUME IInv, WorkOK, NEW w \in Workers, MakeMatchmaking(w)
  PROVE  WorkOK'
<1>1. PICK S \in Candidates(w) : picked' = [picked EXCEPT ![w] = S]
  BY DEF MakeMatchmaking, BestCandidates
<1>2. /\ work' = [work EXCEPT ![w] = "Commit"]
      /\ UNCHANGED <<status, waiting, toExpand, matches>>
      /\ work \in [Workers -> Works] /\ picked \in [Workers -> SUBSET Tickets]
      /\ waiting[w] \subseteq Tickets
  BY DEF MakeMatchmaking, queueVars, IInv, TypeInv, TypeOK
<1>3. S \subseteq waiting[w] /\ \E t \in waiting[w] : Fills(S, PlayerCount(t))
  BY <1>1 DEF Candidates
<1>4. S \in FullMatches
  <2>1. S \in SUBSET Tickets /\ IsFiniteSet(S)
    BY <1>2, <1>3, FS_Subset DEF WorkOK
  <2> QED BY <1>3, <2>1, FillsFull
<1>5. \A v \in Workers : work'[v] = "Commit" => picked'[v] \in FullMatches
  BY <1>1, <1>2, <1>4 DEF WorkOK
<1>6. \A v \in Workers : work'[v] \in Handling => picked'[v] \subseteq UNION matches'
  BY <1>1, <1>2 DEF WorkOK, Handling
<1> QED BY <1>2, <1>5, <1>6 DEF WorkOK

LEMMA CommitKeepsWork ==
  ASSUME IInv, WorkOK, NEW w \in Workers, TryCommit(w)
  PROVE  WorkOK'
<1>0. /\ UNCHANGED toExpand /\ picked[w] \subseteq Tickets
      /\ work \in [Workers -> Works] /\ picked \in [Workers -> SUBSET Tickets]
      /\ matches \subseteq SUBSET Tickets
  BY DEF TryCommit, IInv, TypeInv, TypeOK
<1>1. CASE \A t \in picked[w] : status[t] = "QUEUED"
  <2>1. /\ status' = [t \in Tickets |-> IF t \in picked[w] THEN "SEARCHING" ELSE status[t]]
        /\ \A v \in Workers : waiting'[v] \subseteq waiting[v]
        /\ matches' = matches \cup {picked[w]}
        /\ work' = [work EXCEPT ![w] = "Create"] /\ UNCHANGED picked
    BY <1>1 DEF TryCommit, Erased
  <2>2. \A v \in Workers : IsFiniteSet(waiting'[v])
    BY <2>1, FS_Subset DEF WorkOK
  <2>3. \A v \in Workers : work'[v] = "Commit" => picked'[v] \in FullMatches
    BY <1>0, <2>1 DEF WorkOK
  <2>4. \A v \in Workers : work'[v] \in Handling => picked'[v] \subseteq UNION matches'
    BY <1>0, <2>1 DEF WorkOK
  <2>5. \A t \in UNION matches' : status'[t] \notin {"None", "QUEUED", "CANCELLED"}
    BY <1>0, <2>1 DEF WorkOK
  <2> QED BY <1>0, <2>2, <2>3, <2>4, <2>5 DEF WorkOK
<1>2. CASE ~ \A t \in picked[w] : status[t] = "QUEUED"
  <2>1. /\ UNCHANGED <<status, waiting, matches>>
        /\ picked' = [picked EXCEPT ![w] = {}] /\ work' = [work EXCEPT ![w] = "Idle"]
    BY <1>2 DEF TryCommit
  <2> QED BY <1>0, <2>1 DEF WorkOK, Handling
<1> QED BY <1>1, <1>2

\* A worker that handles a match changes no ticket back and takes no new one.
LEMMA HandlingKeepsWork ==
  ASSUME IInv, WorkOK, UNCHANGED <<queueVars, matches>>,
         \A t \in Tickets : status'[t] # status[t] =>
           status'[t] \notin {"None", "QUEUED", "CANCELLED"},
         NEW w \in Workers, work[w] \in Handling, picked'[w] \subseteq picked[w],
         work'[w] # "Commit",
         \A v \in Workers \ {w} : work'[v] = work[v] /\ picked'[v] = picked[v]
  PROVE  WorkOK'
<1>1. \A v \in Workers : work'[v] = "Commit" => picked'[v] \in FullMatches
  BY DEF WorkOK
<1>2. \A v \in Workers : work'[v] \in Handling => picked'[v] \subseteq UNION matches'
  <2>1. picked[w] \subseteq UNION matches
    BY DEF WorkOK
  <2> QED BY <2>1 DEF WorkOK
<1>3. \A t \in UNION matches' : status'[t] \notin {"None", "QUEUED", "CANCELLED"}
  BY DEF WorkOK, IInv, TypeInv, TypeOK
<1> QED BY <1>1, <1>2, <1>3 DEF WorkOK, queueVars

LEMMA WorkerKeepsWork ==
  ASSUME IInv, WorkOK, NEW w \in Workers, WorkerStep(w)
  PROVE  WorkOK'
<1>0. /\ work \in [Workers -> Works] /\ picked \in [Workers -> SUBSET Tickets]
      /\ status \in [Tickets -> Statuses]
  BY DEF IInv, TypeInv, TypeOK
<1>1. CASE MakeMatchmaking(w)
  BY <1>1, MakeKeepsWork
<1>2. CASE TryCommit(w)
  BY <1>2, CommitKeepsWork
<1>3. CASE CreateMatchSession(w)
  <2>1. /\ UNCHANGED <<queueVars, matches, picked>> /\ work[w] \in Handling
        /\ \A t \in Tickets : status'[t] # status[t] => status'[t] = "REQUIRES_ACCEPTANCE"
        /\ work'[w] # "Commit" /\ \A v \in Workers \ {w} : work'[v] = work[v]
    BY <1>0, <1>3 DEF CreateMatchSession, Handling
  <2> QED BY <2>1, HandlingKeepsWork
<1>4. ASSUME NEW t \in Tickets, OnFailedMatchmaking(w, t) PROVE WorkOK'
  <2>1. /\ UNCHANGED <<queueVars, matches, picked>> /\ work[w] \in Handling
        /\ \A u \in Tickets : status'[u] # status[u] => status'[u] = "FAILED"
        /\ work'[w] # "Commit" /\ \A v \in Workers \ {w} : work'[v] = work[v]
    BY <1>0, <1>4 DEF OnFailedMatchmaking, Handling
  <2> QED BY <2>1, HandlingKeepsWork
<1>5. ASSUME NEW t \in Tickets, OnExpireMatchmaking(w, t) \/ EraseFailed(w, t) PROVE WorkOK'
  <2>1. /\ UNCHANGED <<queueVars, matches, status>> /\ work[w] \in Handling
        /\ picked'[w] \subseteq picked[w] /\ work'[w] # "Commit"
        /\ \A v \in Workers \ {w} : work'[v] = work[v] /\ picked'[v] = picked[v]
    BY <1>0, <1>5 DEF OnExpireMatchmaking, EraseFailed, Done, Handling
  <2> QED BY <2>1, HandlingKeepsWork
<1> QED BY <1>1, <1>2, <1>3, <1>4, <1>5 DEF WorkerStep

LEMMA NextWork == IInv /\ WorkOK /\ [Next]_vars => WorkOK'
<1> SUFFICES ASSUME IInv, WorkOK, [Next]_vars PROVE WorkOK'
  OBVIOUS
<1>1. CASE UNCHANGED <<status, queueVars, workerVars>>
  BY <1>1 DEF WorkOK, queueVars, workerVars
<1>2. ASSUME NEW c \in Callers, CallerStep(c) PROVE WorkOK'
  BY <1>2, CallerKeepsWork
<1>3. ASSUME NEW w \in Workers, WorkerStep(w) PROVE WorkOK'
  BY <1>3, WorkerKeepsWork
<1>4. ASSUME NEW due \in SUBSET toExpand, Expand(due) PROVE WorkOK'
  BY <1>4, ExpandKeepsWork
<1> QED BY <1>1, <1>2, <1>3, <1>4
        DEF Next, CallStart, CallStop, vars, queueVars, workerVars

\* The workers pick full matches only and handle committed ones only.
THEOREM WorkInvariant == Spec => [](IInv /\ WorkOK)
<1>1. Init => WorkOK
  BY InitWork
<1>2. IInv /\ WorkOK /\ [Next]_vars => WorkOK'
  BY NextWork
<1> QED BY <1>1, <1>2, Invariant, PTL DEF Spec

-----------------------------------------------------------------------------
(* The queue implements MatchQueue.                                        *)

\* The state MatchQueue gives a ticket.
Mapped(t) == CASE status[t] = "None" -> "new"
               [] status[t] = "QUEUED" -> "waiting"
               [] status[t] = "CANCELLED" -> "cancelled"
               [] OTHER -> IF t \in UNION matches THEN "matched" ELSE "refused"

MappedState == [t \in Tickets |-> Mapped(t)]

LEMMA MappedTo ==
  ASSUME NEW t \in Tickets
  PROVE  /\ status[t] = "None" => Mapped(t) = "new"
         /\ status[t] = "QUEUED" => Mapped(t) = "waiting"
         /\ status[t] = "CANCELLED" => Mapped(t) = "cancelled"
         /\ status[t] \notin {"None", "QUEUED", "CANCELLED"} =>
              Mapped(t) = IF t \in UNION matches THEN "matched" ELSE "refused"
BY DEF Mapped

\* A step that changes the status of one ticket moves that ticket.
LEMMA MappedOne ==
  ASSUME NEW t \in Tickets, NEW s, status \in [Tickets -> Statuses],
         status' = [status EXCEPT ![t] = s], UNCHANGED matches
  PROVE  MappedState' = [MappedState EXCEPT ![t] = Mapped(t)']
<1>1. ASSUME NEW u \in Tickets, u # t PROVE Mapped(u)' = Mapped(u)
  <2>1. status'[u] = status[u]
    BY <1>1
  <2> QED BY <2>1 DEF Mapped
<1> QED BY <1>1 DEF MappedState

LEMMA InitMaps == Init => Queue!Init
BY DEF Init, Queue!Init

\* What a step that moves one ticket is in MatchQueue.
LEMMA MovesOne ==
  ASSUME NEW t \in Tickets, UNCHANGED matches,
         MappedState' = [MappedState EXCEPT ![t] = Mapped(t)'],
         \/ Mapped(t) = "new" /\ Mapped(t)' \in {"waiting", "cancelled", "refused"}
         \/ Mapped(t) = "waiting" /\ Mapped(t)' = "cancelled"
  PROVE  Queue!Next
<1>1. MappedState[t] = Mapped(t)
  BY DEF MappedState
<1>2. CASE Mapped(t)' = "waiting"
  <2>1. Queue!Queue(t)
    BY <1>1, <1>2 DEF Queue!Queue, Queue!Move, MappedState, Mapped
  <2> QED BY <2>1 DEF Queue!Next
<1>3. CASE Mapped(t)' = "cancelled"
  <2>1. Queue!Cancel(t)
    BY <1>1, <1>3 DEF Queue!Cancel, Queue!Move, MappedState, Mapped
  <2> QED BY <2>1 DEF Queue!Next
<1>4. CASE Mapped(t)' = "refused"
  <2>1. Queue!Refuse(t)
    BY <1>1, <1>4 DEF Queue!Refuse, Queue!Move, MappedState, Mapped
  <2> QED BY <2>1 DEF Queue!Next
<1> QED BY <1>2, <1>3, <1>4

\* A step that only gives the tickets of matches other statuses is a stutter.
LEMMA MatchedStutter ==
  ASSUME WorkOK, UNCHANGED matches,
         \A t \in Tickets : status'[t] # status[t] =>
           t \in UNION matches /\ status'[t] \notin {"None", "QUEUED", "CANCELLED"}
  PROVE  MappedState' = MappedState
<1>1. ASSUME NEW t \in Tickets PROVE Mapped(t)' = Mapped(t)
  <2>1. t \in UNION matches => status[t] \notin {"None", "QUEUED", "CANCELLED"}
    BY DEF WorkOK
  <2> QED BY <2>1 DEF Mapped
<1> QED BY <1>1 DEF MappedState

LEMMA CallerMaps ==
  ASSUME IInv, WorkOK, NEW c \in Callers, CallerStep(c)
  PROVE  Queue!Next \/ UNCHANGED <<MappedState, matches>>
<1>0. UNCHANGED matches /\ status \in [Tickets -> Statuses]
  BY DEF IInv, TypeInv, TypeOK, CallerStep, CleanupPlayer, EndCleanup, InsertTicket,
         EnqueueJobRequest, EraseRefused, FailRequest, CancelMatchTicket, EraseCancelled, workerVars
<1>1. CASE UNCHANGED status
  BY <1>0, <1>1 DEF MappedState, Mapped
<1>2. CASE EnqueueJobRequest(c) /\ ~ UNCHANGED status
  <2>1. PICK t \in Tickets : t = arg[c].request
    BY <1>2 DEF EnqueueJobRequest, IInv, RequestsOK, RequestCalls, TypeInv, TypeOK
  <2>2. status' = [status EXCEPT ![t] = IF CanChangeStatus(@, "QUEUED") THEN "QUEUED" ELSE @]
    BY <1>2, <2>1 DEF EnqueueJobRequest
  <2>3. status[t] = "None" /\ status' = [status EXCEPT ![t] = "QUEUED"]
    BY <1>0, <1>2, <2>2, Changes
  <2>4. Mapped(t) = "new" /\ Mapped(t)' = "waiting"
    BY <1>0, <2>3 DEF Mapped
  <2>5. MappedState' = [MappedState EXCEPT ![t] = Mapped(t)']
    BY <1>0, <2>3, MappedOne
  <2> QED BY <1>0, <2>4, <2>5, MovesOne
<1>3. CASE FailRequest(c) /\ ~ UNCHANGED status
  <2>1. PICK t \in Tickets : /\ t = arg[c].request /\ status[t] \in {"None", "CANCELLED"}
    <3>1. Asks(c)
      BY <1>3 DEF FailRequest, IInv, RequestsOK, RequestCalls, Asks
    <3> QED BY <3>1 DEF IInv, RequestsOK, Fresh
  <2>2. status' = [status EXCEPT ![t] = IF CanChangeStatus(@, "FAILED") THEN "FAILED" ELSE @]
    BY <1>3, <2>1 DEF FailRequest
  <2>3. status[t] = "None" /\ status' = [status EXCEPT ![t] = "FAILED"]
    <3>1. ~ CanChangeStatus("CANCELLED", "FAILED")
      BY DEF CanChangeStatus, NextStatuses
    <3>2. CASE status[t] = "CANCELLED" \/ ~ CanChangeStatus(status[t], "FAILED")
      BY <1>0, <1>3, <2>1, <2>2, <3>1, <3>2
    <3> QED BY <2>1, <2>2, <3>2
  <2>4. t \notin UNION matches
    BY <2>3 DEF WorkOK
  <2>5. Mapped(t) = "new" /\ Mapped(t)' = "refused"
    BY <1>0, <2>3, <2>4 DEF Mapped
  <2>6. MappedState' = [MappedState EXCEPT ![t] = Mapped(t)']
    BY <1>0, <2>3, MappedOne
  <2> QED BY <1>0, <2>5, <2>6, MovesOne
<1>4. CASE CancelMatchTicket(c) /\ ~ UNCHANGED status
  <2>1. PICK t \in Tickets : t = arg[c].target
    BY <1>4 DEF CancelMatchTicket, IInv, RequestsOK, CancelCalls
  <2>2. status[t] \in {"None", "QUEUED"} /\ status' = [status EXCEPT ![t] = "CANCELLED"]
    BY <1>0, <1>4, <2>1, Changes DEF CancelMatchTicket
  <2>3. Mapped(t) \in {"new", "waiting"} /\ Mapped(t)' = "cancelled"
    BY <1>0, <2>2 DEF Mapped
  <2>4. MappedState' = [MappedState EXCEPT ![t] = Mapped(t)']
    BY <1>0, <2>2, MappedOne
  <2> QED BY <1>0, <2>3, <2>4, MovesOne
<1> QED BY <1>1, <1>2, <1>3, <1>4
        DEF CallerStep, CleanupPlayer, EndCleanup, InsertTicket, EraseRefused, EraseCancelled

\* A commit is a match of MatchQueue: what was picked is a full match and is looked
\* at again.
LEMMA CommitMaps ==
  ASSUME IInv, WorkOK, NEW w \in Workers, TryCommit(w)
  PROVE  Queue!Next \/ UNCHANGED <<MappedState, matches>>
<1>1. CASE ~ \A t \in picked[w] : status[t] = "QUEUED"
  BY <1>1 DEF TryCommit, MappedState, Mapped
<1>2. CASE \A t \in picked[w] : status[t] = "QUEUED"
  <2>0. PICK S : S = picked[w]
    OBVIOUS
  <2>1. /\ S \in FullMatches /\ S \subseteq Tickets
        /\ status' = [t \in Tickets |-> IF t \in S THEN "SEARCHING" ELSE status[t]]
        /\ matches' = matches \cup {S}
    BY <1>2, <2>0 DEF TryCommit, WorkOK, IInv, TypeInv, TypeOK
  <2>2. \A t \in S : MappedState[t] = "waiting"
    BY <1>2, <2>0, <2>1, MappedTo DEF MappedState
  <2>3. ASSUME NEW t \in Tickets
        PROVE  Mapped(t)' = IF t \in S THEN "matched" ELSE Mapped(t)
    <3>1. CASE t \in S
      <4>1. status'[t] = "SEARCHING" /\ t \in UNION matches'
        BY <2>1, <3>1
      <4> QED BY <3>1, <4>1 DEF Mapped
    <3>2. CASE t \notin S
      <4>1. status'[t] = status[t] /\ (t \in UNION matches' <=> t \in UNION matches)
        BY <2>1, <3>2
      <4> QED BY <3>2, <4>1 DEF Mapped
    <3> QED BY <3>1, <3>2
  <2>4. MappedState' = [t \in Tickets |-> IF t \in S THEN "matched" ELSE MappedState[t]]
    BY <2>3 DEF MappedState
  <2>5. Queue!Match(S)
    BY <2>1, <2>2, <2>4 DEF Queue!Match, MappedState, Mapped
  <2> QED BY <2>1, <2>5 DEF Queue!Next
<1> QED BY <1>1, <1>2

LEMMA WorkerMaps ==
  ASSUME IInv, WorkOK, NEW w \in Workers, WorkerStep(w)
  PROVE  Queue!Next \/ UNCHANGED <<MappedState, matches>>
<1>0. status \in [Tickets -> Statuses]
  BY DEF IInv, TypeInv, TypeOK
<1>1. CASE TryCommit(w)
  BY <1>1, CommitMaps
<1>2. CASE CreateMatchSession(w) \/ \E t \in Tickets : OnFailedMatchmaking(w, t)
  <2>1. work[w] \in Handling /\ UNCHANGED matches
    BY <1>2 DEF CreateMatchSession, OnFailedMatchmaking, Handling
  <2>2. \A t \in Tickets : status'[t] # status[t] =>
          t \in picked[w] /\ status'[t] \notin {"None", "QUEUED", "CANCELLED"}
    BY <1>0, <1>2 DEF CreateMatchSession, OnFailedMatchmaking
  <2>3. picked[w] \subseteq UNION matches
    BY <2>1 DEF WorkOK
  <2> QED BY <2>1, <2>2, <2>3, MatchedStutter
<1>3. CASE UNCHANGED <<status, matches>>
  BY <1>3 DEF MappedState, Mapped
<1> QED BY <1>1, <1>2, <1>3
        DEF WorkerStep, MakeMatchmaking, OnExpireMatchmaking, EraseFailed, Done

LEMMA StepMaps == IInv /\ WorkOK /\ [Next]_vars => [Queue!Next]_Queue!queueVars
<1> SUFFICES ASSUME IInv, WorkOK, [Next]_vars
             PROVE  Queue!Next \/ UNCHANGED <<MappedState, matches>>
  BY DEF Queue!queueVars, MappedState, Mapped
<1>1. CASE UNCHANGED <<status, matches>>
  BY <1>1 DEF MappedState, Mapped
<1>2. ASSUME NEW c \in Callers, CallerStep(c)
      PROVE  Queue!Next \/ UNCHANGED <<MappedState, matches>>
  BY <1>2, CallerMaps
<1>3. ASSUME NEW w \in Workers, WorkerStep(w)
      PROVE  Queue!Next \/ UNCHANGED <<MappedState, matches>>
  BY <1>3, WorkerMaps
<1> QED BY <1>1, <1>2, <1>3 DEF Next, CallStart, CallStop, Expand, workerVars, vars

\* PartyQueue implements MatchQueue for every rule and number of workers: although a
\* candidate is picked without the group mutex, a match has exactly the players of
\* the rule, a ticket is in one match at most and a cancelled one in none.
THEOREM PartyQueueImplementsQueue == Spec => ImplementsQueue
<1>1. Init => Queue!Init
  BY InitMaps
<1>2. IInv /\ WorkOK /\ [Next]_vars => [Queue!Next]_Queue!queueVars
  BY StepMaps
<1> QED BY <1>1, <1>2, WorkInvariant, PTL DEF Spec, ImplementsQueue, Queue!Spec

\* What is proved of MatchQueue, for the state the refinement reads off this one.
Promise == INSTANCE MatchQueue_proofs WITH state <- MappedState

LEMMA SamePromise ==
  /\ Queue!Init <=> Promise!Init
  /\ [Queue!Next]_Queue!queueVars <=> [Promise!Next]_Promise!queueVars
BY DEF Queue!Init, Queue!Next, Queue!Move, Queue!Queue, Queue!Cancel, Queue!Refuse,
       Queue!Match, Queue!queueVars, Promise!Init, Promise!Next, Promise!Move, Promise!Queue,
       Promise!Cancel, Promise!Refuse, Promise!Match, Promise!queueVars, MappedState, Mapped

\* A ticket is in a match exactly if it is matched, in one match only, and every
\* match is full: by the refinement this holds here too.
THEOREM TicketsAreMatchedOnce == Spec => []Promise!MatchedOnce
<1>1. Init => Promise!Init
  BY InitMaps, SamePromise
<1>2. IInv /\ WorkOK /\ [Next]_vars => [Promise!Next]_Promise!queueVars
  BY StepMaps, SamePromise
<1>3. FullMatches \subseteq SUBSET Tickets
  BY DEF FullMatches
<1>4. Promise!Spec => []Promise!MatchedOnce
  BY <1>3, Promise!QueueMatchesOnce
<1> QED BY <1>1, <1>2, <1>4, WorkInvariant, PTL DEF Spec, Promise!Spec

-----------------------------------------------------------------------------
(* A worker finds every match its queue can fill.                          *)

LEMMA CandidateFound ==
  ASSUME IInv, WorkOK, NEW w \in Workers,
         NEW S \in FullMatches, S \subseteq waiting[w],
         \A t \in S : status[t] = "QUEUED" /\ PlayerCount(t) <= PartyMax
  PROVE  Candidates(w) # {}
<1>1. PICK Q : Q = {t \in waiting[w] : status[t] = "QUEUED"}
  OBVIOUS
<1>2. Q \in SUBSET Tickets /\ IsFiniteSet(Q) /\ S \subseteq Q /\ IsFiniteSet(S)
  <2>1. Q \subseteq waiting[w] /\ waiting[w] \subseteq Tickets /\ S \subseteq Q
    BY <1>1 DEF IInv, TypeInv, TypeOK
  <2>2. IsFiniteSet(waiting[w])
    BY DEF WorkOK
  <2> QED BY <2>1, <2>2, FS_Subset
<1>3. PICK c : c = CountsOf(S)
  OBVIOUS
<1>4. /\ S # {} /\ DOMAIN c = Sizes(S)
      /\ \A n \in Sizes(S) : /\ c[n] = Cardinality(OfCount(S, n)) /\ c[n] \in Positive
                             /\ c \in Range(GetCombination(Combinations, n))
  BY <1>2, <1>3, FullCombination DEF CountsOf
<1>5. ASSUME NEW n \in Sizes(S) PROVE c[n] <= Cardinality(OfCount(Q, n))
  <2>1. OfCount(S, n) \subseteq OfCount(Q, n) /\ OfCount(Q, n) \subseteq Q
    BY <1>2 DEF OfCount
  <2>2. IsFiniteSet(OfCount(Q, n))
    BY <1>2, <2>1, FS_Subset
  <2>3. Cardinality(OfCount(S, n)) <= Cardinality(OfCount(Q, n))
    BY <2>1, <2>2, FS_Subset
  <2> QED BY <1>4, <2>3
<1>6. PICK t \in S : TRUE
  BY <1>4
<1>7. PICK size : size = PlayerCount(t) /\ size \in Sizes(S)
  BY <1>6 DEF Sizes
<1>8. PICK T : T = Oldest(Q, c)
  OBVIOUS
<1>9. /\ Fills(T, size) /\ T \subseteq Q
      /\ \A v \in T, u \in Q : PlayerCount(u) = PlayerCount(v) /\ u < v => u \in T
  BY <1>2, <1>4, <1>5, <1>7, <1>8, OldestFill
<1>10. T \in Candidates(w)
  <2>1. \E u \in waiting[w] : Fills(T, PlayerCount(u))
    BY <1>6, <1>7, <1>9
  <2> QED BY <1>1, <1>9, <2>1 DEF Candidates
<1> QED BY <1>10

\* For every rule, every set of parties and any number of workers: a worker whose
\* queue can fill a match has a candidate, whatever else is in its queue.
THEOREM WorkerFindsFullMatch == Spec => []FullMatchIsFound
<1>1. IInv /\ WorkOK => FullMatchIsFound
  <2> SUFFICES ASSUME IInv, WorkOK, NEW w \in Workers,
                      NEW S \in SUBSET {t \in waiting[w] : status[t] = "QUEUED"
                                                           /\ PlayerCount(t) <= PartyMax},
                      S \in FullMatches
               PROVE  Candidates(w) # {}
    BY TriedRulesAreComplete DEF FullMatchIsFound
  <2>1. /\ S \subseteq waiting[w]
        /\ \A t \in S : status[t] = "QUEUED" /\ PlayerCount(t) <= PartyMax
    OBVIOUS
  <2> QED BY <2>1, CandidateFound
<1> QED BY <1>1, WorkInvariant, PTL

-----------------------------------------------------------------------------
(* The tickets of a worker that handles its match, and what a match has.   *)

PlayersOfAll(S) == UNION {PlayersOf[t] : t \in S}

Disjoint(S) == \A t, u \in S : t # u => PlayersOf[t] \cap PlayersOf[u] = {}

\* Tickets that share no player have as many players as their parties together: of
\* the subsets for which that fails there is no smallest.
LEMMA DistinctPlayers ==
  ASSUME NEW S \in SUBSET Tickets, IsFiniteSet(S), Disjoint(S)
  PROVE  Cardinality(PlayersOfAll(S)) = PlayersIn(S)
<1> DEFINE Fits(V) == /\ IsFiniteSet(PlayersOfAll(V))
                      /\ Cardinality(PlayersOfAll(V)) = PlayersIn(V)
           F == {V \in SUBSET S : ~ Fits(V)}
<1> SUFFICES ASSUME F # {} PROVE FALSE
  <2>1. S \notin F => Fits(S)
    OBVIOUS
  <2> HIDE DEF F
  <2> QED BY <2>1
<1>1. PICK B \in F : \A A \in F : A \subseteq B => A = B
  <2>1. \A A \in F : A \subseteq S
    OBVIOUS
  <2> HIDE DEF F
  <2> QED BY <2>1, SmallestSet
<1>2. B \subseteq S /\ ~ Fits(B)
  BY <1>1
<1>3. B # {}
  <2>1. PlayersOfAll({}) = {}
    BY DEF PlayersOfAll
  <2>2. Fits({})
    BY <2>1, FS_EmptySet, PlayersInStep
  <2> HIDE DEF Fits
  <2> QED BY <1>2, <2>2
<1>4. PICK t \in B : TRUE
  BY <1>3
<1>5. PICK R : R = B \ {t}
  OBVIOUS
<1>6. Fits(R)
  <2>1. R \in SUBSET S /\ R \subseteq B /\ R # B
    BY <1>2, <1>4, <1>5
  <2>2. R \notin F
    <3> HIDE DEF F
    <3> QED BY <1>1, <2>1
  <2> HIDE DEF Fits
  <2> QED BY <2>1, <2>2
<1>7. /\ PlayersOfAll(B) = PlayersOfAll(R) \cup PlayersOf[t]
      /\ PlayersOfAll(R) \cap PlayersOf[t] = {}
  <2>1. B = R \cup {t} /\ t \notin R
    BY <1>4, <1>5
  <2>2. \A u \in R : PlayersOf[u] \cap PlayersOf[t] = {}
    BY <1>2, <2>1 DEF Disjoint
  <2> QED BY <2>1, <2>2 DEF PlayersOfAll
<1>8. /\ IsFiniteSet(PlayersOf[t]) /\ PlayerCount(t) = Cardinality(PlayersOf[t])
      /\ PlayerCount(t) \in Nat
  BY <1>2, <1>4, RuleAssumption, FS_CardinalityType DEF PlayerCount
<1>9. PlayersIn(B) = PlayerCount(t) + PlayersIn(R)
  <2>1. B \in SUBSET Tickets /\ IsFiniteSet(B)
    BY <1>2, FS_Subset
  <2> QED BY <1>4, <1>5, <2>1, PlayersInStep
<1>10. /\ IsFiniteSet(PlayersOfAll(B))
       /\ Cardinality(PlayersOfAll(B)) =
            Cardinality(PlayersOfAll(R)) + Cardinality(PlayersOf[t])
  <2>1. /\ IsFiniteSet(PlayersOfAll(R)) /\ IsFiniteSet(PlayersOf[t])
        /\ Cardinality(PlayersOfAll(R) \cap PlayersOf[t]) = 0
    BY <1>6, <1>7, <1>8, FS_EmptySet
  <2>2. Cardinality(PlayersOfAll(R)) \in Nat /\ Cardinality(PlayersOf[t]) \in Nat
    BY <2>1, FS_CardinalityType
  <2>3. /\ IsFiniteSet(PlayersOfAll(R) \cup PlayersOf[t])
        /\ Cardinality(PlayersOfAll(R) \cup PlayersOf[t]) =
             Cardinality(PlayersOfAll(R)) + Cardinality(PlayersOf[t])
               - Cardinality(PlayersOfAll(R) \cap PlayersOf[t])
    BY <2>1, FS_Union
  <2> QED BY <1>7, <2>1, <2>2, <2>3
<1>11. Cardinality(PlayersOfAll(R)) \in Nat /\ Cardinality(PlayersOfAll(R)) = PlayersIn(R)
  BY <1>6, FS_CardinalityType
<1>12. Fits(B)
  BY <1>8, <1>9, <1>10, <1>11
<1> HIDE DEF Fits
<1> QED BY <1>2, <1>12

\* The status the tickets of worker w have, by how far w has come with them.
HandsOut(w) ==
  /\ work[w] \in {"Create", "OnFailed"} => \A t \in picked[w] : status[t] = "SEARCHING"
  /\ work[w] = "Expire" => \A t \in picked[w] : status[t] = "REQUIRES_ACCEPTANCE"
  /\ work[w] = "EraseFailed" =>
       \E t \in picked[w] :
         /\ status[t] = "FAILED"
         /\ \A u \in picked[w] \ {t} : status[u] = "SEARCHING"

\* No ticket is handled by two workers, and none changes while its worker waits.
HandledOK ==
  /\ MatchHasItsPlayers
  /\ \A w \in Workers : IsFiniteSet(picked[w]) /\ HandsOut(w)
  /\ \A v, w \in Workers :
       v # w /\ work[v] \in Handling /\ work[w] \in Handling => picked[v] \cap picked[w] = {}

LEMMA InitHandled == Init => HandledOK
BY FS_EmptySet DEF Init, HandledOK, HandsOut, MatchHasItsPlayers, Handling

\* What the table allows, for every change that is made.
Allowed == \A t \in Tickets : status'[t] # status[t] => CanChangeStatus(status[t], status'[t])

LEMMA AllowedChanges ==
  /\ CanChangeStatus("None", "QUEUED") /\ CanChangeStatus("None", "FAILED")
  /\ CanChangeStatus("None", "CANCELLED") /\ CanChangeStatus("QUEUED", "CANCELLED")
  /\ CanChangeStatus("QUEUED", "SEARCHING") /\ CanChangeStatus("SEARCHING", "FAILED")
  /\ CanChangeStatus("SEARCHING", "REQUIRES_ACCEPTANCE")
BY DEF CanChangeStatus, NextStatuses

\* A step that leaves the tickets of the workers alone.
LEMMA OthersKeepHandled ==
  ASSUME IInv, HandledOK, UNCHANGED workerVars,
         \A w \in Workers : work[w] \in Handling =>
           \A t \in picked[w] : status'[t] = status[t]
  PROVE  HandledOK'
<1>1. \A w \in Workers : IsFiniteSet(picked'[w]) /\ HandsOut(w)'
  <2> SUFFICES ASSUME NEW w \in Workers PROVE HandsOut(w)'
    BY DEF HandledOK, workerVars
  <2>1. UNCHANGED <<work, picked>> /\ HandsOut(w)
    BY DEF HandledOK, workerVars
  <2> QED BY <2>1 DEF HandsOut, Handling
<1>2. MatchHasItsPlayers'
  BY DEF HandledOK, MatchHasItsPlayers, workerVars
<1> QED BY <1>1, <1>2 DEF HandledOK, workerVars

\* A caller changes only tickets that no worker handles.
LEMMA CallerKeepsHandled ==
  ASSUME IInv, HandledOK, NEW c \in Callers, CallerStep(c)
  PROVE  HandledOK' /\ Allowed
<1>0. status \in [Tickets -> Statuses] /\ UNCHANGED workerVars
  BY DEF IInv, TypeInv, TypeOK, CallerStep, CleanupPlayer, EndCleanup, InsertTicket,
         EnqueueJobRequest, EraseRefused, FailRequest, CancelMatchTicket, EraseCancelled
<1>1. CASE UNCHANGED status
  BY <1>0, <1>1, OthersKeepHandled DEF Allowed
<1>2. ASSUME NEW t \in Tickets, NEW s \in Statuses, status[t] \in {"None", "QUEUED"},
             status' = [status EXCEPT ![t] = s], CanChangeStatus(status[t], s)
      PROVE  HandledOK' /\ Allowed
  <2>1. \A w \in Workers : work[w] \in Handling => \A u \in picked[w] : status'[u] = status[u]
    BY <1>0, <1>2, PickedOnes
  <2>2. Allowed
    BY <1>0, <1>2 DEF Allowed
  <2> QED BY <1>0, <2>1, <2>2, OthersKeepHandled
<1>3. CASE EnqueueJobRequest(c) /\ ~ UNCHANGED status
  <2>1. PICK t \in Tickets : t = arg[c].request
    BY <1>3 DEF EnqueueJobRequest, IInv, RequestsOK, RequestCalls, TypeInv, TypeOK
  <2>2. /\ status' = [status EXCEPT ![t] = "QUEUED"] /\ CanChangeStatus(status[t], "QUEUED")
    BY <1>0, <1>3, <2>1 DEF EnqueueJobRequest
  <2>3. status[t] = "None" /\ "QUEUED" \in Statuses
    BY <1>0, <2>2, Changes DEF Statuses
  <2> QED BY <1>2, <2>2, <2>3
<1>4. CASE FailRequest(c) /\ ~ UNCHANGED status
  <2>1. PICK t \in Tickets : t = arg[c].request
    BY <1>4 DEF FailRequest, IInv, RequestsOK, RequestCalls, TypeInv, TypeOK
  <2>2. /\ status' = [status EXCEPT ![t] = "FAILED"] /\ CanChangeStatus(status[t], "FAILED")
    BY <1>0, <1>4, <2>1 DEF FailRequest
  <2>3. status[t] \in {"None", "QUEUED"} /\ "FAILED" \in Statuses
    <3>1. pc[c] \in RequestCalls
      BY <1>4 DEF FailRequest, RequestCalls
    <3>2. Fresh(t)
      BY <2>1, <3>1 DEF IInv, RequestsOK, Asks
    <3>3. status[t] \in {"None", "CANCELLED"}
      BY <3>2 DEF Fresh
    <3> QED BY <1>0, <2>2, <3>3, Changes DEF Statuses
  <2> QED BY <1>2, <2>2, <2>3
<1>5. CASE CancelMatchTicket(c) /\ ~ UNCHANGED status
  <2>1. PICK t \in Tickets : t = arg[c].target
    BY <1>5 DEF CancelMatchTicket, IInv, RequestsOK, CancelCalls
  <2>2. /\ status' = [status EXCEPT ![t] = "CANCELLED"]
        /\ CanChangeStatus(status[t], "CANCELLED")
    BY <1>0, <1>5, <2>1 DEF CancelMatchTicket
  <2>3. status[t] \in {"None", "QUEUED"} /\ "CANCELLED" \in Statuses
    BY <1>0, <2>2, Changes DEF Statuses
  <2> QED BY <1>2, <2>2, <2>3
<1> QED BY <1>1, <1>3, <1>4, <1>5
        DEF CallerStep, CleanupPlayer, EndCleanup, InsertTicket, EraseRefused, EraseCancelled

\* What is committed is queued, so no worker handles it, and the parties of queued
\* tickets share no player.
LEMMA CommitKeepsHandled ==
  ASSUME IInv, WorkOK, HandledOK, NEW w \in Workers, TryCommit(w)
  PROVE  HandledOK' /\ Allowed
<1>0. /\ status \in [Tickets -> Statuses] /\ picked[w] \in SUBSET Tickets
      /\ work \in [Workers -> Works] /\ picked \in [Workers -> SUBSET Tickets]
      /\ work[w] = "Commit"
  BY DEF TryCommit, IInv, TypeInv, TypeOK
<1>1. CASE \A t \in picked[w] : status[t] = "QUEUED"
  <2>1. /\ status' = [t \in Tickets |-> IF t \in picked[w] THEN "SEARCHING" ELSE status[t]]
        /\ matches' = matches \cup {picked[w]}
        /\ work' = [work EXCEPT ![w] = "Create"] /\ UNCHANGED picked
    BY <1>1 DEF TryCommit
  <2>2. Allowed
    BY <1>0, <1>1, <2>1, AllowedChanges DEF Allowed
  <2>3. ASSUME NEW v \in Workers, v # w, work[v] \in Handling
        PROVE  picked[v] \cap picked[w] = {} /\ \A t \in picked[v] : status'[t] = status[t]
    <3>1. picked[v] \cap picked[w] = {}
      BY <1>1, <2>3, PickedOnes
    <3> QED BY <1>0, <2>1, <3>1
  <2>4. MatchHasItsPlayers'
    <3>1. Disjoint(picked[w])
      BY <1>0, <1>1, OnePlace DEF OnePlacePerPlayer, Disjoint
    <3>2. IsFiniteSet(picked[w]) /\ PlayersIn(picked[w]) = MatchPlayerCount
      BY <1>0 DEF HandledOK, WorkOK, FullMatches, PlayersIn
    <3>3. Cardinality(PlayersOfAll(picked[w])) = MatchPlayerCount
      BY <1>0, <3>1, <3>2, DistinctPlayers
    <3> QED BY <2>1, <3>3 DEF HandledOK, MatchHasItsPlayers, PlayersOfAll
  <2>5. ASSUME NEW v \in Workers PROVE HandsOut(v)'
    <3>1. CASE v = w
      BY <1>0, <2>1, <3>1 DEF HandsOut
    <3>2. CASE v # w
      <4>1. work'[v] = work[v] /\ picked'[v] = picked[v] /\ HandsOut(v)
        BY <2>1, <3>2 DEF HandledOK
      <4> QED BY <2>3, <3>2, <4>1 DEF HandsOut, Handling
    <3> QED BY <3>1, <3>2
  <2>6. ASSUME NEW u \in Workers, NEW v \in Workers, u # v,
               work'[u] \in Handling, work'[v] \in Handling
        PROVE  picked'[u] \cap picked'[v] = {}
    <3>1. CASE u = w
      BY <2>1, <2>3, <2>6, <3>1
    <3>2. CASE v = w
      BY <2>1, <2>3, <2>6, <3>2
    <3>3. CASE u # w /\ v # w
      BY <2>1, <2>6, <3>3 DEF HandledOK
    <3> QED BY <3>1, <3>2, <3>3
  <2> QED BY <2>1, <2>2, <2>4, <2>5, <2>6 DEF HandledOK
<1>2. CASE ~ \A t \in picked[w] : status[t] = "QUEUED"
  <2>1. /\ UNCHANGED <<status, matches>>
        /\ picked' = [picked EXCEPT ![w] = {}] /\ work' = [work EXCEPT ![w] = "Idle"]
    BY <1>2 DEF TryCommit
  <2>2. \A v \in Workers : IsFiniteSet(picked'[v]) /\ HandsOut(v)'
    BY <1>0, <2>1, FS_EmptySet DEF HandledOK, HandsOut
  <2> QED BY <1>0, <2>1, <2>2 DEF HandledOK, MatchHasItsPlayers, Allowed, Handling
<1> QED BY <1>1, <1>2

\* A step of a worker that handles its match leaves the tickets of the others.
LEMMA HandlingKeepsHandled ==
  ASSUME IInv, HandledOK, UNCHANGED matches, NEW w \in Workers, work[w] \in Handling,
         picked'[w] \subseteq picked[w], HandsOut(w)',
         \A t \in Tickets \ picked[w] : status'[t] = status[t],
         \A v \in Workers \ {w} : work'[v] = work[v] /\ picked'[v] = picked[v]
  PROVE  HandledOK'
<1>1. ASSUME NEW v \in Workers, v # w PROVE HandsOut(v)'
  <2>1. /\ work'[v] = work[v] /\ picked'[v] = picked[v] /\ HandsOut(v)
        /\ picked[v] \subseteq Tickets
    BY <1>1 DEF HandledOK, IInv, TypeInv, TypeOK
  <2>2. work[v] \in Handling => \A t \in picked[v] : status'[t] = status[t]
    BY <1>1, <2>1 DEF HandledOK
  <2> QED BY <2>1, <2>2 DEF HandsOut, Handling
<1>2. \A v \in Workers : IsFiniteSet(picked'[v])
  <2>1. IsFiniteSet(picked'[w])
    BY FS_Subset DEF HandledOK
  <2> QED BY <2>1 DEF HandledOK
<1>3. ASSUME NEW u \in Workers, NEW v \in Workers, u # v,
             work'[u] \in Handling, work'[v] \in Handling
      PROVE  picked'[u] \cap picked'[v] = {}
  <2>1. /\ work[u] \in Handling /\ picked'[u] \subseteq picked[u]
        /\ work[v] \in Handling /\ picked'[v] \subseteq picked[v]
    BY <1>3
  <2> QED BY <1>3, <2>1 DEF HandledOK
<1> QED BY <1>1, <1>2, <1>3 DEF HandledOK, MatchHasItsPlayers

LEMMA WorkerKeepsHandled ==
  ASSUME IInv, WorkOK, HandledOK, NEW w \in Workers, WorkerStep(w)
  PROVE  HandledOK' /\ Allowed
<1>0. /\ work \in [Workers -> Works] /\ picked \in [Workers -> SUBSET Tickets]
      /\ status \in [Tickets -> Statuses] /\ HandsOut(w)
  BY DEF IInv, TypeInv, TypeOK, HandledOK
<1>1. CASE MakeMatchmaking(w)
  <2>1. PICK S \in SUBSET waiting[w] : picked' = [picked EXCEPT ![w] = S]
    BY <1>1 DEF MakeMatchmaking, BestCandidates, Candidates
  <2>2. UNCHANGED <<status, matches>> /\ work' = [work EXCEPT ![w] = "Commit"]
    BY <1>1 DEF MakeMatchmaking
  <2>3. IsFiniteSet(S)
    BY <2>1, FS_Subset DEF WorkOK
  <2>4. \A v \in Workers : IsFiniteSet(picked'[v]) /\ HandsOut(v)'
    BY <1>0, <2>1, <2>2, <2>3 DEF HandledOK, HandsOut
  <2> QED BY <1>0, <2>1, <2>2, <2>4 DEF HandledOK, MatchHasItsPlayers, Allowed, Handling
<1>2. CASE TryCommit(w)
  BY <1>2, CommitKeepsHandled
<1>3. CASE CreateMatchSession(w)
  <2>1. /\ work[w] = "Create" /\ UNCHANGED <<matches, picked>>
        /\ \A t \in picked[w] : status[t] = "SEARCHING"
    BY <1>0, <1>3 DEF CreateMatchSession, HandsOut
  <2>2. \/ /\ status' = [t \in Tickets |->
                           IF t \in picked[w] THEN "REQUIRES_ACCEPTANCE" ELSE status[t]]
           /\ work' = [work EXCEPT ![w] = "Expire"]
        \/ UNCHANGED status /\ work' = [work EXCEPT ![w] = "OnFailed"]
    BY <1>3 DEF CreateMatchSession
  <2>3. HandsOut(w)' /\ Allowed
    BY <1>0, <2>1, <2>2, AllowedChanges DEF HandsOut, Allowed
  <2>4. /\ work[w] \in Handling /\ \A t \in Tickets \ picked[w] : status'[t] = status[t]
        /\ \A v \in Workers \ {w} : work'[v] = work[v]
    BY <1>0, <2>1, <2>2 DEF Handling
  <2> QED BY <2>1, <2>3, <2>4, HandlingKeepsHandled
<1>4. ASSUME NEW t \in Tickets, OnFailedMatchmaking(w, t) PROVE HandledOK' /\ Allowed
  <2>1. /\ work[w] \in Handling /\ UNCHANGED <<matches, picked>> /\ t \in picked[w]
        /\ \A u \in picked[w] : status[u] = "SEARCHING"
        /\ status' = [status EXCEPT ![t] = "FAILED"]
        /\ work' = [work EXCEPT ![w] = "EraseFailed"]
    BY <1>0, <1>4 DEF OnFailedMatchmaking, HandsOut, Handling
  <2>2. HandsOut(w)' /\ Allowed
    BY <1>0, <2>1, AllowedChanges DEF HandsOut, Allowed
  <2>3. /\ \A u \in Tickets \ picked[w] : status'[u] = status[u]
        /\ \A v \in Workers \ {w} : work'[v] = work[v]
    BY <1>0, <2>1
  <2> QED BY <2>1, <2>2, <2>3, HandlingKeepsHandled
<1>5. ASSUME NEW t \in Tickets, OnExpireMatchmaking(w, t) \/ EraseFailed(w, t)
      PROVE  HandledOK' /\ Allowed
  <2>1. /\ work[w] \in Handling /\ UNCHANGED <<matches, status>> /\ t \in picked[w]
        /\ picked' = [picked EXCEPT ![w] = picked[w] \ {t}]
    BY <1>5 DEF OnExpireMatchmaking, EraseFailed, Done, Handling
  <2>2. \/ /\ \A u \in picked[w] : status[u] = "REQUIRES_ACCEPTANCE"
           /\ work' = [work EXCEPT ![w] = IF picked[w] = {t} THEN "Idle" ELSE "Expire"]
        \/ /\ \A u \in picked[w] \ {t} : status[u] = "SEARCHING"
           /\ work' = [work EXCEPT ![w] = IF picked[w] = {t} THEN "Idle" ELSE "OnFailed"]
    <3>1. CASE OnExpireMatchmaking(w, t)
      BY <1>0, <3>1 DEF OnExpireMatchmaking, Done, HandsOut
    <3>2. CASE EraseFailed(w, t)
      <4>1. /\ work[w] = "EraseFailed" /\ status[t] = "FAILED"
            /\ work' = [work EXCEPT ![w] = IF picked[w] = {t} THEN "Idle" ELSE "OnFailed"]
        BY <3>2 DEF EraseFailed, Done
      <4>2. PICK f \in picked[w] : \A u \in picked[w] \ {f} : status[u] = "SEARCHING"
        BY <1>0, <4>1 DEF HandsOut
      <4>3. f = t
        BY <2>1, <4>1, <4>2
      <4> QED BY <4>1, <4>2, <4>3
    <3> QED BY <1>5, <3>1, <3>2
  <2>3. HandsOut(w)'
    BY <1>0, <2>1, <2>2 DEF HandsOut
  <2>4. \A v \in Workers \ {w} : work'[v] = work[v] /\ picked'[v] = picked[v]
    BY <1>0, <2>1, <2>2
  <2>5. Allowed
    BY <2>1 DEF Allowed
  <2> QED BY <1>0, <2>1, <2>3, <2>4, <2>5, HandlingKeepsHandled
<1> QED BY <1>1, <1>2, <1>3, <1>4, <1>5 DEF WorkerStep

LEMMA NextHandled == IInv /\ WorkOK /\ HandledOK /\ [Next]_vars => HandledOK' /\ Allowed
<1> SUFFICES ASSUME IInv, WorkOK, HandledOK, [Next]_vars PROVE HandledOK' /\ Allowed
  OBVIOUS
<1>1. CASE UNCHANGED <<status, workerVars>>
  BY <1>1, OthersKeepHandled DEF Allowed
<1>2. ASSUME NEW c \in Callers, CallerStep(c) PROVE HandledOK' /\ Allowed
  BY <1>2, CallerKeepsHandled
<1>3. ASSUME NEW w \in Workers, WorkerStep(w) PROVE HandledOK' /\ Allowed
  BY <1>3, WorkerKeepsHandled
<1> QED BY <1>1, <1>2, <1>3 DEF Next, CallStart, CallStop, Expand, vars, workerVars

LEMMA HandledInvariant == Spec => [](IInv /\ WorkOK /\ HandledOK)
<1>1. Init => HandledOK
  BY InitHandled
<1>2. IInv /\ WorkOK /\ HandledOK /\ [Next]_vars => HandledOK'
  BY NextHandled
<1> QED BY <1>1, <1>2, WorkInvariant, PTL DEF Spec

\* A match has as many different players as the rule asks for, for every rule and
\* all parties: no player is in it twice, although parties overlap.
THEOREM MatchHasDifferentPlayers == Spec => []MatchHasItsPlayers
<1>1. HandledOK => MatchHasItsPlayers
  BY DEF HandledOK
<1> QED BY <1>1, HandledInvariant, PTL

\* The status of a ticket changes as the table allows, whoever changes it: what a
\* worker writes for its match is never refused, and a final status is never left.
THEOREM TicketsFollowTable == Spec => StatusFollowsTable
<1>1. IInv /\ WorkOK /\ HandledOK /\ [Next]_vars =>
        [\A t \in Tickets :
           status'[t] # status[t] => CanChangeStatus(status[t], status'[t])]_vars
  BY NextHandled DEF Allowed
<1> QED BY <1>1, HandledInvariant, PTL DEF Spec, StatusFollowsTable

=============================================================================
