--------------------------- MODULE AsyncJobWorker ---------------------------
(***************************************************************************)
(* CAsyncJobWorkerGroup over IWorkerGroup: threads that run jobs when they *)
(* are due.  Each worker keeps its jobs by due time; its thread looks at   *)
(* them under the group mutex and waits on the group's condition variable  *)
(* until the first of them is due.  A caller adds a job under that mutex   *)
(* and notifies after it has released it.  Stop does not take the mutex.   *)
(*                                                                         *)
(* The module has the steps of the group; the module that extends it says  *)
(* what a job does and who enqueues.  All three groups of the program have *)
(* their jobs bound to a player or a match, the key of the job here.       *)
(***************************************************************************)
EXTENDS Naturals

CONSTANTS
  WorkerCount,  \* m_WorkerCount
  JobKeys,      \* what a job is bound to
  Horizon,      \* bound: the last moment that is modelled
  IdleWait,     \* how long a worker without jobs waits
  NoWorker,
  NoJob

ASSUME WorkerAssumption ==
  /\ WorkerCount \in Nat \ {0}
  /\ Horizon \in Nat
  /\ IdleWait \in Nat
  /\ NoWorker \notin Nat
  /\ NoJob \notin [due : Nat, nr : Nat, key : JobKeys]

Workers == 0 .. WorkerCount - 1

VARIABLES
  clock,    \* what time_msec() returns
  running,  \* m_Running
  control,  \* where the thread that starts and stops the group stands
  locked,   \* the worker that holds m_WorkerGroupMutex
  waiting,  \* m_WaitingQueue of each worker
  worker,   \* what the thread of each worker does next
  deadline, \* until when it waits
  taken,    \* the job it runs
  enqueued  \* the jobs enqueued so far

controlVars == <<running, control>>
queueVars == <<waiting, enqueued>>
threadVars == <<locked, worker, deadline, taken>>
groupVars == <<clock, running, control, locked, waiting, worker, deadline,
               taken, enqueued>>

GroupInit ==
  /\ clock = 0
  /\ running = FALSE
  /\ control = "Down"
  /\ locked = NoWorker
  /\ waiting = [w \in Workers |-> {}]
  /\ worker = [w \in Workers |-> "Exited"]
  /\ deadline = [w \in Workers |-> 0]
  /\ taken = [w \in Workers |-> NoJob]
  /\ enqueued = 0

\* Of the jobs with one due time the multimap has the first enqueued first.
First(w) ==
  CHOOSE j \in waiting[w] : \A k \in waiting[w] :
    j.due < k.due \/ (j.due = k.due /\ j.nr <= k.nr)

IsWorkerJobAvailable(w) == waiting[w] # {} /\ First(w).due <= clock

Earlier(a, b) == IF a <= b THEN a ELSE b

\* A variant with a bug: a worker without jobs waits until it is notified.
WaitTimeForever(w) ==
  IF waiting[w] = {} THEN Horizon + 1 ELSE First(w).due

\* GetJobExecuteTimeMSec.  The last moment that is modelled stands for all
\* later ones, so that a wait that ends after it ends in it.
WaitTime(w) ==
  IF waiting[w] = {} THEN Earlier(clock + IdleWait, Horizon) ELSE First(w).due

-----------------------------------------------------------------------------
(* The thread of a worker.                                                 *)

Goto(w, step) == worker' = [worker EXCEPT ![w] = step]

Loop(w) ==
  /\ worker[w] = "Loop"
  /\ Goto(w, IF running THEN "Lock" ELSE "Exited")
  /\ UNCHANGED <<clock, controlVars, locked, queueVars, deadline, taken>>

Lock(w) ==
  /\ worker[w] = "Lock"
  /\ locked = NoWorker
  /\ locked' = w
  /\ Goto(w, "CheckRunning")
  /\ UNCHANGED <<clock, controlVars, queueVars, deadline, taken>>

\* The condition of the inner loop reads m_Running and then the queue: Stop
\* may come in between, as it does not take the mutex.
CheckRunning(w) ==
  /\ worker[w] = "CheckRunning"
  /\ IF running
     THEN Goto(w, "CheckJob") /\ UNCHANGED locked
     ELSE Goto(w, "AfterWait") /\ locked' = NoWorker
  /\ UNCHANGED <<clock, controlVars, queueVars, deadline, taken>>

CheckJob(w) ==
  /\ worker[w] = "CheckJob"
  /\ IF IsWorkerJobAvailable(w)
     THEN Goto(w, "AfterWait") /\ locked' = NoWorker /\ UNCHANGED deadline
     ELSE /\ Goto(w, "Sleep")
          /\ deadline' = [deadline EXCEPT ![w] = WaitTime(w)]
          /\ UNCHANGED locked
  /\ UNCHANGED <<clock, controlVars, queueVars, taken>>

\* wait_until releases the mutex and waits in one step.
Sleep(w) ==
  /\ worker[w] = "Sleep"
  /\ locked' = NoWorker
  /\ Goto(w, "Waiting")
  /\ UNCHANGED <<clock, controlVars, queueVars, deadline, taken>>

\* A waiting thread may wake at any time, and takes the mutex again.
Wake(w) ==
  /\ worker[w] = "Waiting"
  /\ Goto(w, "Lock")
  /\ UNCHANGED <<clock, controlVars, locked, queueVars, deadline, taken>>

TimedOut(w) == worker[w] = "Waiting" /\ deadline[w] <= clock

AfterWait(w) ==
  /\ worker[w] = "AfterWait"
  /\ Goto(w, IF running THEN "Do" ELSE "Exited")
  /\ UNCHANGED <<clock, controlVars, locked, queueVars, deadline, taken>>

\* DoWorkerAsyncJob takes the first job under the mutex of the worker only.
TakeJob(w) ==
  /\ worker[w] = "Do"
  /\ IF IsWorkerJobAvailable(w)
     THEN /\ waiting' = [waiting EXCEPT ![w] = @ \ {First(w)}]
          /\ taken' = [taken EXCEPT ![w] = First(w)]
          /\ Goto(w, "Run")
     ELSE Goto(w, "Loop") /\ UNCHANGED <<waiting, taken>>
  /\ UNCHANGED <<clock, controlVars, locked, enqueued, deadline>>

WorkerStep(w) ==
  Loop(w) \/ Lock(w) \/ CheckRunning(w) \/ CheckJob(w) \/ Sleep(w)
    \/ AfterWait(w) \/ TakeJob(w)

-----------------------------------------------------------------------------
(* Callers, and the thread that starts and stops the group.                *)

NotifyAll ==
  worker' = [w \in Workers |-> IF worker[w] = "Waiting" THEN "Lock" ELSE worker[w]]

\* A variant with a bug: the group mutex is not taken.
EnqueueWithoutMutex(due, key) ==
  LET w == due % WorkerCount
      job == [due |-> due, nr |-> enqueued, key |-> key]
  IN
  /\ waiting' = [waiting EXCEPT ![w] = @ \cup {job}]
  /\ enqueued' = enqueued + 1

\* EnqueueJobRequest up to the end of its locked block.
Enqueue(due, key) ==
  LET w == due % WorkerCount
      job == [due |-> due, nr |-> enqueued, key |-> key]
  IN
  /\ locked = NoWorker
  /\ waiting' = [waiting EXCEPT ![w] = @ \cup {job}]
  /\ enqueued' = enqueued + 1

\* The worker objects, and the jobs they have, live as long as the group.
Start ==
  /\ control = "Down"
  /\ running' = TRUE
  /\ worker' = [w \in Workers |-> "Loop"]
  /\ control' = "Up"
  /\ UNCHANGED <<clock, locked, queueVars, deadline, taken>>

\* A variant with a bug: the flag is not cleared.
StopWithoutFlag ==
  /\ control = "Up"
  /\ control' = "Notify"
  /\ UNCHANGED <<clock, running, locked, queueVars, worker, deadline, taken>>

Stop ==
  /\ control = "Up"
  /\ running' = FALSE
  /\ control' = "Notify"
  /\ UNCHANGED <<clock, locked, queueVars, worker, deadline, taken>>

StopNotify ==
  /\ control = "Notify"
  /\ NotifyAll
  /\ control' = "Join"
  /\ UNCHANGED <<clock, running, locked, queueVars, deadline, taken>>

Join ==
  /\ control = "Join"
  /\ \A w \in Workers : worker[w] = "Exited"
  /\ control' = "Down"
  /\ UNCHANGED <<clock, running, locked, queueVars, worker, deadline, taken>>

Tick ==
  /\ clock < Horizon
  /\ clock' = clock + 1
  /\ UNCHANGED <<controlVars, locked, queueVars, worker, deadline, taken>>
=============================================================================
