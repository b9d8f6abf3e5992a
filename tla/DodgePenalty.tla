---------------------------- MODULE DodgePenalty ----------------------------
(***************************************************************************)
(* CMatchPenaltyManager: the penalties of players who dodge a match.  A    *)
(* penalty is entered into the map with the time it expires at, and a job  *)
(* of the manager's own worker group removes it then.                      *)
(*                                                                         *)
(* The callers are the threads that accept, stop and leave.  The job looks *)
(* the penalty up, compares it with the time and clears it in three steps, *)
(* and a caller may enter another penalty of the player in between.        *)
(***************************************************************************)
EXTENDS AsyncJobWorker, FiniteSets

CONSTANTS
  Callers,    \* threads that give penalties
  Duration,   \* the length of a penalty
  MaxCalls,   \* bound: penalties that are given
  NoPenalty

Players == JobKeys

ASSUME PenaltyAssumption ==
  /\ Duration \in Nat
  /\ MaxCalls \in Nat
  /\ NoPenalty \notin Nat

VARIABLES
  penalty,  \* m_PlayerDodgePenaltyMap: when the penalty of a player expires
  found,    \* what the job of each worker has found
  pc,       \* what each caller does next
  arg       \* the player and the expiry of its call

penaltyVars == <<penalty, found>>
callerVars == <<pc, arg>>
vars == <<groupVars, penaltyVars, callerVars>>

NoArg == [player |-> NoPenalty, expire |-> NoPenalty]

Init ==
  /\ GroupInit
  /\ penalty = [p \in Players |-> NoPenalty]
  /\ found = [w \in Workers |-> NoPenalty]
  /\ pc = [c \in Callers |-> "Idle"]
  /\ arg = [c \in Callers |-> NoArg]

\* Penalties that are being given or have been given.
Calls == enqueued + Cardinality({c \in Callers : pc[c] \in {"Assign", "Enqueue"}})

-----------------------------------------------------------------------------
(* AddDodgePenalty.                                                        *)

\* Every caller gives a penalty from now on.
CallAdd(c, p) ==
  /\ pc[c] = "Idle"
  /\ Calls < MaxCalls
  /\ clock + Duration <= Horizon
  /\ pc' = [pc EXCEPT ![c] = "Assign"]
  /\ arg' = [arg EXCEPT ![c] = [player |-> p, expire |-> clock + Duration]]
  /\ UNCHANGED <<groupVars, penaltyVars>>

AssignPenalty(c) ==
  /\ pc[c] = "Assign"
  /\ penalty' = [penalty EXCEPT ![arg[c].player] = arg[c].expire]
  /\ pc' = [pc EXCEPT ![c] = "Enqueue"]
  /\ UNCHANGED <<groupVars, found, arg>>

\* A variant with a bug: the job is enqueued a moment too early.
EnqueueExpiryEarly(c) ==
  /\ pc[c] = "Enqueue"
  /\ Enqueue(arg[c].expire - 1, arg[c].player)
  /\ pc' = [pc EXCEPT ![c] = "Notify"]
  /\ UNCHANGED <<clock, controlVars, threadVars, penaltyVars, arg>>

EnqueueExpiry(c) ==
  /\ pc[c] = "Enqueue"
  /\ Enqueue(arg[c].expire, arg[c].player)
  /\ pc' = [pc EXCEPT ![c] = "Notify"]
  /\ UNCHANGED <<clock, controlVars, threadVars, penaltyVars, arg>>

Notify(c) ==
  /\ pc[c] = "Notify"
  /\ NotifyAll
  /\ pc' = [pc EXCEPT ![c] = "Idle"]
  /\ arg' = [arg EXCEPT ![c] = NoArg]
  /\ UNCHANGED <<clock, controlVars, locked, queueVars, deadline, taken, penaltyVars>>

CallerStep(c) == AssignPenalty(c) \/ EnqueueExpiry(c) \/ Notify(c)

-----------------------------------------------------------------------------
(* The job of a penalty.                                                   *)

FindDodgePenalty(w) ==
  /\ worker[w] = "Run"
  /\ found' = [found EXCEPT ![w] = penalty[taken[w].key]]
  /\ Goto(w, "Compare")
  /\ UNCHANGED <<clock, controlVars, locked, queueVars, deadline, taken, penalty,
                 callerVars>>

\* A variant with a bug: whatever the job has found is cleared.
CompareFoundOnly(w) ==
  /\ worker[w] = "Compare"
  /\ Goto(w, IF found[w] # NoPenalty THEN "Clear" ELSE "Loop")
  /\ UNCHANGED <<clock, controlVars, locked, queueVars, deadline, taken,
                 penaltyVars, callerVars>>

CompareExpiry(w) ==
  /\ worker[w] = "Compare"
  /\ Goto(w, IF found[w] # NoPenalty /\ found[w] <= clock THEN "Clear" ELSE "Loop")
  /\ UNCHANGED <<clock, controlVars, locked, queueVars, deadline, taken,
                 penaltyVars, callerVars>>

\* The penalty that is cleared may be another than the one that was found.
ClearDodgePenalty(w) ==
  /\ worker[w] = "Clear"
  /\ penalty' = [penalty EXCEPT ![taken[w].key] = NoPenalty]
  /\ Goto(w, "Loop")
  /\ UNCHANGED <<clock, controlVars, locked, queueVars, deadline, taken, found,
                 callerVars>>

JobStep(w) == FindDodgePenalty(w) \/ CompareExpiry(w) \/ ClearDodgePenalty(w)

-----------------------------------------------------------------------------

GroupStep == Start \/ Stop \/ StopNotify \/ Join \/ Tick

Next ==
  \/ \E c \in Callers, p \in Players : CallAdd(c, p)
  \/ \E c \in Callers : CallerStep(c)
  \/ \E w \in Workers : JobStep(w)
  \/ \E w \in Workers : (WorkerStep(w) \/ Wake(w)) /\ UNCHANGED <<penaltyVars, callerVars>>
  \/ GroupStep /\ UNCHANGED <<penaltyVars, callerVars>>

Spec == Init /\ [][Next]_vars

\* The threads run and get the mutex they wait for, time passes, a waiting
\* thread wakes when its time is over, and Stop goes on.  Nobody has to call,
\* to start or to stop, and a thread is not counted on to wake before its time.
Fairness ==
  LET Alone(A) == A /\ UNCHANGED <<penaltyVars, callerVars>> IN
  /\ \A c \in Callers : WF_vars(CallerStep(c)) /\ SF_vars(EnqueueExpiry(c))
  /\ \A w \in Workers :
       /\ WF_vars(JobStep(w))
       /\ WF_vars(Alone(WorkerStep(w))) /\ SF_vars(Alone(Lock(w)))
       /\ WF_vars(Alone(TimedOut(w) /\ Wake(w)))
  /\ WF_vars(Alone(StopNotify)) /\ WF_vars(Alone(Join)) /\ WF_vars(Alone(Tick))

FairSpec == Spec /\ Fairness

-----------------------------------------------------------------------------
(* Properties.                                                             *)

JobsOf(w) == waiting[w] \cup (IF worker[w] \in {"Run", "Compare", "Clear"}
                              THEN {taken[w]} ELSE {})

TypeOK ==
  LET Job == [due : Nat, nr : Nat, key : Players] IN
  /\ clock \in Nat /\ enqueued \in Nat
  /\ running \in BOOLEAN
  /\ control \in {"Down", "Up", "Notify", "Join"}
  /\ running <=> control = "Up"
  /\ locked \in Workers \cup {NoWorker}
  /\ waiting \in [Workers -> SUBSET Job]
  /\ worker \in [Workers -> {"Exited", "Loop", "Lock", "CheckRunning", "CheckJob",
                             "Sleep", "Waiting", "AfterWait", "Do", "Run", "Compare",
                             "Clear"}]
  /\ deadline \in [Workers -> Nat]
  /\ taken \in [Workers -> Job \cup {NoJob}]
  /\ penalty \in [Players -> Nat \cup {NoPenalty}]
  /\ found \in [Workers -> Nat \cup {NoPenalty}]
  /\ pc \in [Callers -> {"Idle", "Assign", "Enqueue", "Notify"}]
  /\ arg \in [Callers -> [player : Players, expire : Nat] \cup {NoArg}]
  /\ \A c \in Callers : pc[c] # "Idle" => arg[c] # NoArg
  /\ \A w \in Workers : worker[w] \in {"Run", "Compare", "Clear"} => taken[w] # NoJob

\* A worker never sleeps past a job (WorkerGroup.h:172-176, :99-105): when it
\* waits longer than until one of its jobs is due, the caller that enqueued a
\* job has yet to notify.
WakesInTime ==
  \A w \in Workers : worker[w] = "Waiting" =>
    \A j \in waiting[w] :
      deadline[w] <= j.due \/ \E c \in Callers : pc[c] = "Notify"

\* No penalty is forgotten (MatchPenaltyManager.cpp:23-36): as long as one is
\* in the map there is a job that is due when it expires or later and has not
\* yet decided to keep it, or a call that will enqueue such a job, however
\* often the manager is stopped and started in between.
PenaltyHasJob ==
  \A p \in Players : penalty[p] # NoPenalty =>
    \/ \E c \in Callers : /\ pc[c] = "Enqueue"
                          /\ arg[c].player = p /\ arg[c].expire >= penalty[p]
    \/ \E w \in Workers : \E j \in JobsOf(w) :
         /\ j.key = p /\ j.due >= penalty[p]
         /\ worker[w] = "Compare" /\ j = taken[w] => found[w] # NoPenalty /\ found[w] <= clock

\* A penalty is taken from a player early only when it was given after a job
\* had found one that was over (MatchPenaltyManager.cpp:32-34).
RemovedWhenExpired ==
  [][\A p \in Players :
       penalty[p] # NoPenalty /\ penalty'[p] = NoPenalty =>
         \E w \in Workers : /\ found[w] # NoPenalty /\ found[w] <= clock
                            /\ penalty[p] <= clock \/ penalty[p] # found[w]]_vars

\* The penalty of a player ends while the manager runs
\* (MatchPenaltyManager.cpp:30-35, README.md:168).
PenaltyEnds ==
  \A p \in Players : penalty[p] # NoPenalty ~> (penalty[p] = NoPenalty \/ ~running)

\* Stop returns (WorkerGroup.h:68-86), although a worker that has just seen
\* m_Running sleeps through the notification: its wait ends by itself.
StopReturns == control = "Notify" ~> control = "Down"
=============================================================================
