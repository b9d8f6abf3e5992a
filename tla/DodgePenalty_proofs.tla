------------------------ MODULE DodgePenalty_proofs ------------------------
(***************************************************************************)
(* Proofs about DodgePenalty for every number of players, threads, workers *)
(* and moments: no worker sleeps past a job, no penalty is forgotten, and  *)
(* none is removed early but for one case.                                 *)
(***************************************************************************)
EXTENDS DodgePenalty, FiniteSetTheorems, WellFoundedInduction, TLAPS

-----------------------------------------------------------------------------
(* The inductive invariant.                                                *)

Holding == {"CheckRunning", "CheckJob", "Sleep"}
InJob == {"Run", "Compare", "Clear"}
Jobs == [due : Nat, nr : Nat, key : Players]

\* The worker that holds the group mutex is the one that looks at its queue; what
\* it has seen there stays true until it sleeps.
LockOK ==
  /\ \A w \in Workers : worker[w] \in Holding <=> locked = w
  /\ \A w \in Workers : worker[w] = "Sleep" =>
       \A j \in waiting[w] : deadline[w] <= j.due
  /\ control = "Down" => \A w \in Workers : worker[w] = "Exited"

\* Every job has a number of its own, one that runs is due, and a penalty that a
\* job is about to clear was over when it was found.
JobsOK ==
  \A w \in Workers :
    /\ IsFiniteSet(waiting[w])
    /\ \A j \in waiting[w] : j.nr < enqueued
    /\ worker[w] \in InJob => taken[w].nr < enqueued /\ taken[w].due <= clock
    /\ worker[w] = "Clear" => found[w] # NoPenalty /\ found[w] <= clock

IInv == TypeOK /\ LockOK /\ JobsOK /\ WakesInTime /\ PenaltyHasJob

-----------------------------------------------------------------------------
(* The first job of a queue.                                               *)

\* A finite set of subsets of a finite set has a smallest one.
LEMMA SmallestSet ==
  ASSUME NEW S, IsFiniteSet(S), NEW F, F # {}, \A A \in F : A \subseteq S
  PROVE  \E B \in F : \A A \in F : A \subseteq B => A = B
<1>1. F \subseteq FiniteSubsetsOf(S)
  <2>1. \A A \in F : IsFiniteSet(A)
    BY FS_Subset
  <2> QED BY <2>1 DEF FiniteSubsetsOf
<1>2. PICK B \in F : \A A \in F : <<A, B>> \notin StrictSubsetOrdering(S)
  BY <1>1, WFMin, FS_StrictSubsetOrderingWellFounded, Zenon
<1>3. ASSUME NEW A \in F, A \subseteq B, A # B
      PROVE  FALSE
  <2>1. <<A, B>> \in (SUBSET S) \X (SUBSET S)
    BY Zenon
  <2>2. <<A, B>>[1] = A /\ <<A, B>>[2] = B
    OBVIOUS
  <2>3. <<A, B>> \in StrictSubsetOrdering(S)
    BY <1>3, <2>1, <2>2 DEF StrictSubsetOrdering
  <2> QED BY <1>2, <2>3
<1> QED BY <1>3

\* The jobs of a queue that are due before one of them, as the multimap has them.
DueBefore(S, j) == {k \in S : k.due < j.due \/ (k.due = j.due /\ k.nr < j.nr)}

LEMMA FirstExists ==
  ASSUME NEW S, S \subseteq Jobs, IsFiniteSet(S), S # {}
  PROVE  \E j \in S : \A k \in S : j.due < k.due \/ (j.due = k.due /\ j.nr <= k.nr)
<1> DEFINE F == {DueBefore(S, j) : j \in S}
<1>1. F # {} /\ \A A \in F : A \subseteq S
  BY DEF DueBefore
<1>2. \E B \in F : \A A \in F : A \subseteq B => A = B
  <2> HIDE DEF F
  <2> QED BY <1>1, SmallestSet
<1>3. PICK j \in S : \A k \in S :
        DueBefore(S, k) \subseteq DueBefore(S, j) => DueBefore(S, k) = DueBefore(S, j)
  BY <1>2
<1>4. ASSUME NEW k \in S, k.due < j.due \/ (k.due = j.due /\ k.nr < j.nr)
      PROVE  FALSE
  <2>1. j.due \in Nat /\ j.nr \in Nat /\ k.due \in Nat /\ k.nr \in Nat
    BY DEF Jobs
  <2>2. ASSUME NEW i \in DueBefore(S, k)
        PROVE  i \in DueBefore(S, j)
    <3>1. i \in S /\ i.due \in Nat /\ i.nr \in Nat
      BY DEF DueBefore, Jobs
    <3> QED BY <1>4, <2>1, <3>1 DEF DueBefore
  <2>3. k \in DueBefore(S, j) /\ k \notin DueBefore(S, k)
    BY <1>4, <2>1 DEF DueBefore
  <2> QED BY <1>3, <2>2, <2>3, Zenon
<1>5. \A k \in S : j.due \in Nat /\ j.nr \in Nat /\ k.due \in Nat /\ k.nr \in Nat
  BY DEF Jobs
<1> QED BY <1>4, <1>5

\* The first job is one of the queue, and no other is due before it.
LEMMA FirstJob ==
  ASSUME IInv, NEW w \in Workers, waiting[w] # {}
  PROVE  /\ First(w) \in waiting[w] /\ First(w) \in Jobs
         /\ \A j \in waiting[w] : First(w).due <= j.due
<1>1. waiting[w] \subseteq Jobs /\ IsFiniteSet(waiting[w])
  BY DEF IInv, TypeOK, JobsOK, Jobs
<1>2. \E j \in waiting[w] : \A k \in waiting[w] :
        j.due < k.due \/ (j.due = k.due /\ j.nr <= k.nr)
  BY <1>1, FirstExists
<1>3. /\ First(w) \in waiting[w]
      /\ \A k \in waiting[w] :
           First(w).due < k.due \/ (First(w).due = k.due /\ First(w).nr <= k.nr)
  BY <1>2 DEF First
<1>4. \A k \in Jobs : k.due \in Nat
  BY DEF Jobs
<1> QED BY <1>1, <1>3, <1>4

LEMMA WaitTimeType ==
  ASSUME IInv, NEW w \in Workers
  PROVE  /\ WaitTime(w) \in Nat
         /\ \A j \in waiting[w] : WaitTime(w) <= j.due
<1>1. clock \in Nat /\ IdleWait \in Nat /\ Horizon \in Nat
  BY WorkerAssumption DEF IInv, TypeOK
<1>2. CASE waiting[w] = {}
  BY <1>1, <1>2 DEF WaitTime, Earlier
<1>3. CASE waiting[w] # {}
  BY <1>3, FirstJob DEF WaitTime, Jobs
<1> QED BY <1>2, <1>3

-----------------------------------------------------------------------------
(* The steps of the worker threads.                                        *)

\* Where a job stands for a penalty of p: it waits, or has not decided to keep it.
Keeps(w, j, p) ==
  /\ j \in JobsOf(w)
  /\ j.key = p /\ j.due >= penalty[p]
  /\ worker[w] = "Compare" /\ j = taken[w] => found[w] # NoPenalty /\ found[w] <= clock

\* A call that will enqueue a job for a penalty of p.
Brings(c, p) ==
  pc[c] = "Enqueue" /\ arg[c].player = p /\ arg[c].expire >= penalty[p]

IsKept ==
  \A p \in Players : penalty[p] # NoPenalty =>
    (\E c \in Callers : Brings(c, p)) \/ (\E w \in Workers : \E j : Keeps(w, j, p))

LEMMA PenaltyHasJobIs ==
  (PenaltyHasJob <=> IsKept) /\ (PenaltyHasJob' <=> IsKept')
<1>1. PenaltyHasJob <=> IsKept
  BY Zenon DEF PenaltyHasJob, IsKept, Brings, Keeps
<1>2. PenaltyHasJob' <=> IsKept'
  BY Zenon DEF PenaltyHasJob, IsKept, Brings, Keeps
<1> QED BY <1>1, <1>2

\* What has no job before and after a move of its thread disturbs none.
LEMMA ThreadMove ==
  ASSUME IInv, NEW w \in Workers, NEW s, s \notin InJob, worker[w] \notin InJob,
         worker' = [worker EXCEPT ![w] = s],
         UNCHANGED <<clock, waiting, enqueued, taken, penalty, found, pc, arg>>
  PROVE  JobsOK' /\ PenaltyHasJob'
<1>1. \A v \in Workers : worker'[v] = IF v = w THEN s ELSE worker[v]
  BY DEF IInv, TypeOK
<1>2. JobsOK'
  BY <1>1 DEF IInv, JobsOK, InJob
<1>3. ASSUME NEW v \in Workers, NEW j, NEW p \in Players, Keeps(v, j, p)
      PROVE  Keeps(v, j, p)'
  BY <1>1, <1>3 DEF Keeps, JobsOf, InJob
<1>4. ASSUME NEW c \in Callers, NEW p \in Players, Brings(c, p)
      PROVE  Brings(c, p)'
  BY <1>4 DEF Brings
<1>5. PenaltyHasJob'
  BY <1>3, <1>4, PenaltyHasJobIs DEF IInv, IsKept
<1> QED BY <1>2, <1>5

LEMMA LoopStep ==
  ASSUME IInv, NEW w \in Workers, Loop(w), UNCHANGED <<penaltyVars, callerVars>>
  PROVE  IInv'
<1> USE DEF Loop, Goto, controlVars, queueVars, penaltyVars, callerVars
<1>1. \A v \in Workers : worker'[v] = IF v = w THEN IF running THEN "Lock" ELSE "Exited"
                                               ELSE worker[v]
  BY DEF IInv, TypeOK
<1>2. TypeOK'
  BY <1>1 DEF IInv, TypeOK
<1>3. LockOK'
  BY <1>1 DEF IInv, LockOK, Holding
<1>4. WakesInTime'
  BY <1>1 DEF IInv, WakesInTime
<1>5. JobsOK' /\ PenaltyHasJob'
  BY ThreadMove DEF InJob
<1> QED BY <1>2, <1>3, <1>4, <1>5 DEF IInv

LEMMA LockStep ==
  ASSUME IInv, NEW w \in Workers, Lock(w), UNCHANGED <<penaltyVars, callerVars>>
  PROVE  IInv'
<1> USE DEF Lock, Goto, controlVars, queueVars, penaltyVars, callerVars
<1>1. \A v \in Workers : worker'[v] = IF v = w THEN "CheckRunning" ELSE worker[v]
  BY DEF IInv, TypeOK
<1>2. TypeOK'
  BY <1>1 DEF IInv, TypeOK
<1>3. LockOK'
  <2>1. NoWorker \notin Workers
    BY WorkerAssumption DEF Workers
  <2> QED BY <1>1, <2>1 DEF IInv, LockOK, Holding
<1>4. WakesInTime'
  BY <1>1 DEF IInv, WakesInTime
<1>5. JobsOK' /\ PenaltyHasJob'
  BY ThreadMove DEF InJob
<1> QED BY <1>2, <1>3, <1>4, <1>5 DEF IInv

LEMMA CheckRunningStep ==
  ASSUME IInv, NEW w \in Workers, CheckRunning(w), UNCHANGED <<penaltyVars, callerVars>>
  PROVE  IInv'
<1> USE DEF CheckRunning, Goto, controlVars, queueVars, penaltyVars, callerVars
<1>1. \A v \in Workers :
        worker'[v] = IF v = w THEN IF running THEN "CheckJob" ELSE "AfterWait" ELSE worker[v]
  BY DEF IInv, TypeOK
<1>2. TypeOK'
  BY <1>1 DEF IInv, TypeOK
<1>3. LockOK'
  <2>1. NoWorker \notin Workers
    BY WorkerAssumption DEF Workers
  <2> QED BY <1>1, <2>1 DEF IInv, LockOK, Holding
<1>4. WakesInTime'
  BY <1>1 DEF IInv, WakesInTime
<1>5. JobsOK' /\ PenaltyHasJob'
  BY ThreadMove DEF InJob
<1> QED BY <1>2, <1>3, <1>4, <1>5 DEF IInv

\* A worker that goes to sleep has set the time to wake to its first job.
LEMMA CheckJobStep ==
  ASSUME IInv, NEW w \in Workers, CheckJob(w), UNCHANGED <<penaltyVars, callerVars>>
  PROVE  IInv'
<1> USE DEF CheckJob, Goto, controlVars, queueVars, penaltyVars, callerVars
<1>1. /\ \A v \in Workers : v # w => worker'[v] = worker[v] /\ deadline'[v] = deadline[v]
      /\ \/ worker'[w] = "AfterWait" /\ locked' = NoWorker
         \/ /\ worker'[w] = "Sleep" /\ locked' = locked
            /\ deadline'[w] = WaitTime(w)
  BY DEF IInv, TypeOK
<1>2. TypeOK'
  BY <1>1, WaitTimeType DEF IInv, TypeOK
<1>3. LockOK'
  <2>1. NoWorker \notin Workers
    BY WorkerAssumption DEF Workers
  <2>2. \A j \in waiting[w] : WaitTime(w) <= j.due
    BY WaitTimeType
  <2> QED BY <1>1, <2>1, <2>2 DEF IInv, LockOK, Holding
<1>4. WakesInTime'
  BY <1>1 DEF IInv, WakesInTime
<1>5. JobsOK' /\ PenaltyHasJob'
  BY ThreadMove DEF InJob
<1> QED BY <1>2, <1>3, <1>4, <1>5 DEF IInv

LEMMA SleepStep ==
  ASSUME IInv, NEW w \in Workers, Sleep(w), UNCHANGED <<penaltyVars, callerVars>>
  PROVE  IInv'
<1> USE DEF Sleep, Goto, controlVars, queueVars, penaltyVars, callerVars
<1>1. \A v \in Workers : worker'[v] = IF v = w THEN "Waiting" ELSE worker[v]
  BY DEF IInv, TypeOK
<1>2. TypeOK'
  BY <1>1 DEF IInv, TypeOK
<1>3. LockOK'
  <2>1. NoWorker \notin Workers
    BY WorkerAssumption DEF Workers
  <2> QED BY <1>1, <2>1 DEF IInv, LockOK, Holding
<1>4. WakesInTime'
  BY <1>1 DEF IInv, WakesInTime, LockOK
<1>5. JobsOK' /\ PenaltyHasJob'
  BY ThreadMove DEF InJob
<1> QED BY <1>2, <1>3, <1>4, <1>5 DEF IInv

LEMMA WakeStep ==
  ASSUME IInv, NEW w \in Workers, Wake(w), UNCHANGED <<penaltyVars, callerVars>>
  PROVE  IInv'
<1> USE DEF Wake, Goto, controlVars, queueVars, penaltyVars, callerVars
<1>1. \A v \in Workers : worker'[v] = IF v = w THEN "Lock" ELSE worker[v]
  BY DEF IInv, TypeOK
<1>2. TypeOK'
  BY <1>1 DEF IInv, TypeOK
<1>3. LockOK'
  BY <1>1 DEF IInv, LockOK, Holding
<1>4. WakesInTime'
  BY <1>1 DEF IInv, WakesInTime
<1>5. JobsOK' /\ PenaltyHasJob'
  BY ThreadMove DEF InJob
<1> QED BY <1>2, <1>3, <1>4, <1>5 DEF IInv

LEMMA AfterWaitStep ==
  ASSUME IInv, NEW w \in Workers, AfterWait(w), UNCHANGED <<penaltyVars, callerVars>>
  PROVE  IInv'
<1> USE DEF AfterWait, Goto, controlVars, queueVars, penaltyVars, callerVars
<1>1. \A v \in Workers : worker'[v] = IF v = w THEN IF running THEN "Do" ELSE "Exited"
                                               ELSE worker[v]
  BY DEF IInv, TypeOK
<1>2. TypeOK'
  BY <1>1 DEF IInv, TypeOK
<1>3. LockOK'
  BY <1>1 DEF IInv, LockOK, Holding
<1>4. WakesInTime'
  BY <1>1 DEF IInv, WakesInTime
<1>5. JobsOK' /\ PenaltyHasJob'
  BY ThreadMove DEF InJob
<1> QED BY <1>2, <1>3, <1>4, <1>5 DEF IInv

\* The job that is taken is the first one, so that it is due; it stays a job of
\* its worker.
LEMMA TakeJobStep ==
  ASSUME IInv, NEW w \in Workers, TakeJob(w), UNCHANGED <<penaltyVars, callerVars>>
  PROVE  IInv'
<1> USE DEF TakeJob, Goto, controlVars, penaltyVars, callerVars
<1>1. CASE ~IsWorkerJobAvailable(w)
  <2>1. \A v \in Workers : worker'[v] = IF v = w THEN "Loop" ELSE worker[v]
    BY <1>1 DEF IInv, TypeOK
  <2>2. TypeOK'
    BY <1>1, <2>1 DEF IInv, TypeOK
  <2>3. LockOK'
    BY <1>1, <2>1 DEF IInv, LockOK, Holding
  <2>4. WakesInTime'
    BY <1>1, <2>1 DEF IInv, WakesInTime
  <2>5. JobsOK' /\ PenaltyHasJob'
    BY <1>1, ThreadMove DEF InJob
  <2> QED BY <2>2, <2>3, <2>4, <2>5 DEF IInv
<1>2. CASE IsWorkerJobAvailable(w)
  <2>1. PICK first \in Jobs : first = First(w)
    BY <1>2, FirstJob DEF IsWorkerJobAvailable
  <2>2. first \in waiting[w] /\ first.due <= clock
    BY <1>2, <2>1, FirstJob DEF IsWorkerJobAvailable
  <2>3. /\ \A v \in Workers : worker'[v] = IF v = w THEN "Run" ELSE worker[v]
        /\ \A v \in Workers : waiting'[v] = IF v = w THEN waiting[v] \ {first} ELSE waiting[v]
        /\ \A v \in Workers : taken'[v] = IF v = w THEN first ELSE taken[v]
    BY <1>2, <2>1 DEF IInv, TypeOK
  <2>4. first # NoJob
    BY WorkerAssumption DEF Jobs, Players
  <2>5. TypeOK'
    <3>1. waiting' = [waiting EXCEPT ![w] = @ \ {first}] /\ taken' = [taken EXCEPT ![w] = first]
      BY <1>2, <2>1
    <3> QED BY <1>2, <2>3, <2>4, <3>1 DEF IInv, TypeOK, Jobs
  <2>6. LockOK'
    BY <1>2, <2>3 DEF IInv, LockOK, Holding
  <2>7. JobsOK'
    <3>1. IsFiniteSet(waiting[w] \ {first})
      BY FS_RemoveElement DEF IInv, JobsOK
    <3> QED BY <1>2, <2>2, <2>3, <3>1 DEF IInv, JobsOK, InJob
  <2>8. WakesInTime'
    BY <2>3 DEF IInv, WakesInTime
  <2>9. ASSUME NEW v \in Workers, NEW j, NEW p \in Players, Keeps(v, j, p)
        PROVE  Keeps(v, j, p)'
    BY <2>3, <2>9 DEF Keeps, JobsOf
  <2>10. ASSUME NEW c \in Callers, NEW p \in Players, Brings(c, p)
         PROVE  Brings(c, p)'
    BY <2>10 DEF Brings
  <2>11. PenaltyHasJob'
    BY <2>9, <2>10, PenaltyHasJobIs DEF IInv, IsKept
  <2> QED BY <2>5, <2>6, <2>7, <2>8, <2>11 DEF IInv
<1> QED BY <1>1, <1>2

-----------------------------------------------------------------------------
(* The steps of a job.                                                     *)

\* A job that finds its penalty is due, so that a penalty it is to remove is over.
LEMMA FindDodgePenaltyStep ==
  ASSUME IInv, NEW w \in Workers, FindDodgePenalty(w)
  PROVE  IInv'
<1> USE DEF FindDodgePenalty, Goto, controlVars, queueVars, callerVars
<1>1. PICK mine \in Jobs : mine = taken[w]
  BY DEF IInv, TypeOK, Jobs
<1>2. /\ \A v \in Workers : worker'[v] = IF v = w THEN "Compare" ELSE worker[v]
      /\ \A v \in Workers : found'[v] = IF v = w THEN penalty[mine.key] ELSE found[v]
  BY <1>1 DEF IInv, TypeOK
<1>3. mine.key \in Players /\ mine.due \in Nat /\ mine.due <= clock
  BY <1>1 DEF IInv, JobsOK, InJob, Jobs
<1>4. TypeOK'
  <2>1. found' = [found EXCEPT ![w] = penalty[mine.key]]
    BY <1>1
  <2> QED BY <1>2, <1>3, <2>1 DEF IInv, TypeOK
<1>5. LockOK'
  BY <1>2 DEF IInv, LockOK, Holding
<1>6. JobsOK'
  BY <1>2 DEF IInv, JobsOK, InJob
<1>7. WakesInTime'
  BY <1>2 DEF IInv, WakesInTime
<1>8. ASSUME NEW v \in Workers, NEW j, NEW p \in Players, penalty[p] # NoPenalty, Keeps(v, j, p)
      PROVE  Keeps(v, j, p)'
  <2>1. penalty[p] \in Nat /\ clock \in Nat
    BY <1>8 DEF IInv, TypeOK
  <2> QED BY <1>1, <1>2, <1>3, <1>8, <2>1 DEF Keeps, JobsOf
<1>9. ASSUME NEW c \in Callers, NEW p \in Players, Brings(c, p)
      PROVE  Brings(c, p)'
  BY <1>9 DEF Brings
<1>10. PenaltyHasJob'
  BY <1>8, <1>9, PenaltyHasJobIs DEF IInv, IsKept
<1> QED BY <1>4, <1>5, <1>6, <1>7, <1>10 DEF IInv

LEMMA CompareExpiryStep ==
  ASSUME IInv, NEW w \in Workers, CompareExpiry(w)
  PROVE  IInv'
<1> USE DEF CompareExpiry, Goto, controlVars, queueVars, penaltyVars, callerVars
<1>1. \A v \in Workers : worker'[v] =
        IF v = w THEN IF found[w] # NoPenalty /\ found[w] <= clock THEN "Clear" ELSE "Loop"
                 ELSE worker[v]
  BY DEF IInv, TypeOK
<1>2. TypeOK'
  BY <1>1 DEF IInv, TypeOK
<1>3. LockOK'
  BY <1>1 DEF IInv, LockOK, Holding
<1>4. JobsOK'
  BY <1>1 DEF IInv, JobsOK, InJob
<1>5. WakesInTime'
  BY <1>1 DEF IInv, WakesInTime
<1>6. ASSUME NEW v \in Workers, NEW j, NEW p \in Players, Keeps(v, j, p)
      PROVE  Keeps(v, j, p)'
  BY <1>1, <1>6 DEF Keeps, JobsOf
<1>7. ASSUME NEW c \in Callers, NEW p \in Players, Brings(c, p)
      PROVE  Brings(c, p)'
  BY <1>7 DEF Brings
<1>8. PenaltyHasJob'
  BY <1>6, <1>7, PenaltyHasJobIs DEF IInv, IsKept
<1> QED BY <1>2, <1>3, <1>4, <1>5, <1>8 DEF IInv

LEMMA ClearDodgePenaltyStep ==
  ASSUME IInv, NEW w \in Workers, ClearDodgePenalty(w)
  PROVE  IInv'
<1> USE DEF ClearDodgePenalty, Goto, controlVars, queueVars, callerVars
<1>1. PICK mine \in Jobs : mine = taken[w]
  BY DEF IInv, TypeOK, Jobs
<1>2. mine.key \in Players
  BY DEF Jobs
<1>3. /\ \A v \in Workers : worker'[v] = IF v = w THEN "Loop" ELSE worker[v]
      /\ \A p \in Players : penalty'[p] = IF p = mine.key THEN NoPenalty ELSE penalty[p]
  BY <1>1 DEF IInv, TypeOK
<1>4. TypeOK'
  <2>1. penalty' = [penalty EXCEPT ![mine.key] = NoPenalty]
    BY <1>1
  <2> QED BY <1>2, <1>3, <2>1 DEF IInv, TypeOK
<1>5. LockOK'
  BY <1>3 DEF IInv, LockOK, Holding
<1>6. JobsOK'
  BY <1>3 DEF IInv, JobsOK, InJob
<1>7. WakesInTime'
  BY <1>3 DEF IInv, WakesInTime
<1>8. ASSUME NEW v \in Workers, NEW j, NEW p \in Players, p # mine.key, Keeps(v, j, p)
      PROVE  Keeps(v, j, p)'
  BY <1>1, <1>3, <1>8 DEF Keeps, JobsOf
<1>9. ASSUME NEW c \in Callers, NEW p \in Players, p # mine.key, Brings(c, p)
      PROVE  Brings(c, p)'
  BY <1>3, <1>9 DEF Brings
<1>10. PenaltyHasJob'
  BY <1>3, <1>8, <1>9, PenaltyHasJobIs DEF IInv, IsKept
<1> QED BY <1>4, <1>5, <1>6, <1>7, <1>10 DEF IInv

-----------------------------------------------------------------------------
(* The steps of a caller.                                                  *)

LEMMA CallAddStep ==
  ASSUME IInv, NEW c \in Callers, NEW q \in Players, CallAdd(c, q)
  PROVE  IInv'
<1> USE DEF CallAdd, groupVars, controlVars, queueVars, penaltyVars
<1>1. PICK call \in [player : Players, expire : Nat] :
        call = [player |-> q, expire |-> clock + Duration]
  BY PenaltyAssumption DEF IInv, TypeOK
<1>2. \A d \in Callers : pc'[d] = IF d = c THEN "Assign" ELSE pc[d]
  BY DEF IInv, TypeOK
<1>3. \A d \in Callers : arg'[d] = IF d = c THEN call ELSE arg[d]
  BY <1>1 DEF IInv, TypeOK
<1>4. call # NoArg
  <2>1. call.expire \in Nat /\ NoArg.expire = NoPenalty
    BY DEF NoArg
  <2> QED BY <2>1, PenaltyAssumption
<1>5. TypeOK'
  <2>1. arg' = [arg EXCEPT ![c] = call]
    BY <1>1
  <2> QED BY <1>2, <1>3, <1>4, <2>1 DEF IInv, TypeOK
<1>6. LockOK' /\ JobsOK'
  BY DEF IInv, LockOK, JobsOK
<1>7. WakesInTime'
  BY <1>2 DEF IInv, WakesInTime
<1>8. ASSUME NEW w \in Workers, NEW j, NEW p \in Players, Keeps(w, j, p)
      PROVE  Keeps(w, j, p)'
  BY <1>8 DEF Keeps, JobsOf
<1>9. ASSUME NEW d \in Callers, NEW p \in Players, Brings(d, p)
      PROVE  Brings(d, p)'
  BY <1>2, <1>3, <1>9 DEF Brings
<1>10. PenaltyHasJob'
  BY <1>8, <1>9, PenaltyHasJobIs DEF IInv, IsKept
<1> QED BY <1>5, <1>6, <1>7, <1>10 DEF IInv

LEMMA AssignPenaltyStep ==
  ASSUME IInv, NEW c \in Callers, AssignPenalty(c)
  PROVE  IInv'
<1> USE DEF AssignPenalty, groupVars, controlVars, queueVars
<1>1. PICK call \in [player : Players, expire : Nat] : call = arg[c]
  BY DEF IInv, TypeOK
<1>2. /\ \A d \in Callers : pc'[d] = IF d = c THEN "Enqueue" ELSE pc[d]
      /\ \A p \in Players : penalty'[p] = IF p = call.player THEN call.expire ELSE penalty[p]
  BY <1>1 DEF IInv, TypeOK
<1>3. TypeOK'
  <2>1. penalty' = [penalty EXCEPT ![call.player] = call.expire]
    BY <1>1
  <2> QED BY <1>2, <2>1 DEF IInv, TypeOK
<1>4. LockOK' /\ JobsOK'
  BY DEF IInv, LockOK, JobsOK
<1>5. WakesInTime'
  BY <1>2 DEF IInv, WakesInTime
<1>6. Brings(c, call.player)'
  BY <1>1, <1>2 DEF Brings
<1>7. ASSUME NEW w \in Workers, NEW j, NEW p \in Players, p # call.player, Keeps(w, j, p)
      PROVE  Keeps(w, j, p)'
  BY <1>2, <1>7 DEF Keeps, JobsOf
<1>8. ASSUME NEW d \in Callers, NEW p \in Players, p # call.player, Brings(d, p)
      PROVE  Brings(d, p)'
  BY <1>2, <1>8 DEF Brings
<1>9. PenaltyHasJob'
  BY <1>2, <1>6, <1>7, <1>8, PenaltyHasJobIs DEF IInv, IsKept
<1> QED BY <1>3, <1>4, <1>5, <1>9 DEF IInv

\* The job comes after all others of its worker; nobody is about to sleep, as the
\* mutex is free, and who sleeps already is about to be woken.
LEMMA EnqueueExpiryStep ==
  ASSUME IInv, NEW c \in Callers, EnqueueExpiry(c)
  PROVE  IInv'
<1> USE DEF EnqueueExpiry, Enqueue, controlVars, threadVars, penaltyVars
<1>1. PICK call \in [player : Players, expire : Nat] : call = arg[c]
  BY DEF IInv, TypeOK
<1>2. PICK u \in Workers : u = call.expire % WorkerCount
  BY WorkerAssumption DEF Workers
<1>3. PICK job \in Jobs : job = [due |-> call.expire, nr |-> enqueued, key |-> call.player]
  BY DEF IInv, TypeOK, Jobs
<1>4. /\ waiting' = [waiting EXCEPT ![u] = waiting[u] \cup {job}]
      /\ enqueued' = enqueued + 1 /\ enqueued \in Nat
      /\ job.nr = enqueued /\ job.due = call.expire /\ job.key = call.player
  BY <1>1, <1>2, <1>3 DEF IInv, TypeOK
<1>5. /\ \A d \in Callers : pc'[d] = IF d = c THEN "Notify" ELSE pc[d]
      /\ \A v \in Workers :
           waiting'[v] = IF v = u THEN waiting[v] \cup {job} ELSE waiting[v]
  BY <1>4 DEF IInv, TypeOK
<1>6. TypeOK'
  <2>1. waiting' \in [Workers -> SUBSET Jobs]
    <3> HIDE DEF EnqueueExpiry, Enqueue
    <3>1. waiting \in [Workers -> SUBSET Jobs]
      BY DEF IInv, TypeOK, Jobs
    <3>2. waiting[u] \cup {job} \in SUBSET Jobs
      BY <3>1
    <3> QED BY <1>4, <3>1, <3>2
  <2>2. pc' \in [Callers -> {"Idle", "Assign", "Enqueue", "Notify"}]
    BY DEF IInv, TypeOK
  <2>3. \A d \in Callers : pc'[d] # "Idle" => arg'[d] # NoArg
    BY <1>5 DEF IInv, TypeOK
  <2>4. enqueued' \in Nat
    BY <1>4
  <2> HIDE DEF EnqueueExpiry
  <2>5. UNCHANGED <<clock, running, control, locked, worker, deadline, taken, penalty, found, arg>>
    BY DEF EnqueueExpiry
  <2> QED BY <2>1, <2>2, <2>3, <2>4, <2>5 DEF IInv, TypeOK, Jobs
<1>7. LockOK'
  <2>1. \A v \in Workers : worker[v] \notin Holding
    BY WorkerAssumption DEF IInv, LockOK, Workers
  <2> QED BY <2>1 DEF IInv, LockOK, Holding
<1>8. JobsOK'
  <2>1. IsFiniteSet(waiting[u] \cup {job})
    BY FS_AddElement DEF IInv, JobsOK
  <2>2. \A v \in Workers : \A j \in waiting[v] : j.nr \in Nat /\ j.nr < enqueued + 1
    BY <1>4 DEF IInv, TypeOK, JobsOK
  <2>3. \A v \in Workers : worker[v] \in InJob =>
          taken[v].nr < enqueued + 1 /\ taken[v].due <= clock
    <3>1. \A v \in Workers : worker[v] \in InJob => taken[v].nr \in Nat
      BY DEF IInv, TypeOK, InJob
    <3> QED BY <1>4, <3>1 DEF IInv, JobsOK
  <2>4. \A v \in Workers : IsFiniteSet(waiting'[v])
    BY <1>5, <2>1 DEF IInv, JobsOK
  <2>5. \A v \in Workers : \A j \in waiting'[v] : j.nr < enqueued'
    BY <1>4, <1>5, <2>2
  <2> QED BY <1>4, <2>3, <2>4, <2>5 DEF IInv, JobsOK
<1>9. WakesInTime'
  BY <1>5 DEF WakesInTime
<1>10. ASSUME Brings(c, call.player)
       PROVE  Keeps(u, job, call.player)'
  <2>1. worker[u] = "Compare" => job # taken[u]
    BY <1>4 DEF IInv, JobsOK, TypeOK, InJob
  <2> QED BY <1>1, <1>4, <1>5, <1>10, <2>1 DEF Keeps, JobsOf, Brings
<1>11. ASSUME NEW w \in Workers, NEW j, NEW p \in Players, Keeps(w, j, p)
       PROVE  Keeps(w, j, p)'
  BY <1>5, <1>11 DEF Keeps, JobsOf
<1>12. ASSUME NEW d \in Callers, NEW p \in Players, d # c, Brings(d, p)
       PROVE  Brings(d, p)'
  BY <1>5, <1>12 DEF Brings
<1>13. \A p \in Players : Brings(c, p) => p = call.player
  BY <1>1 DEF Brings
<1>14. IsKept'
  <2> SUFFICES ASSUME NEW p \in Players, penalty'[p] # NoPenalty
               PROVE  \/ \E d \in Callers : Brings(d, p)'
                      \/ \E w \in Workers : \E j : Keeps(w, j, p)'
    BY DEF IsKept
  <2>1. (\E d \in Callers : Brings(d, p)) \/ (\E w \in Workers : \E j : Keeps(w, j, p))
    BY PenaltyHasJobIs DEF IInv, IsKept
  <2>2. CASE \E w \in Workers : \E j : Keeps(w, j, p)
    BY <1>11, <2>2
  <2>3. CASE \E d \in Callers : d # c /\ Brings(d, p)
    BY <1>12, <2>3
  <2>4. CASE Brings(c, p)
    BY <1>10, <1>13, <2>4
  <2> QED BY <2>1, <2>2, <2>3, <2>4
<1> QED BY <1>6, <1>7, <1>8, <1>9, <1>14, PenaltyHasJobIs DEF IInv

\* NotifyAll wakes who waits and moves nobody else.
LEMMA NotifyAllMove ==
  ASSUME IInv, NotifyAll, UNCHANGED <<clock, locked, waiting, enqueued, deadline, taken,
                                      penalty, found>>,
         control' = "Down" => control = "Down"
  PROVE  /\ LockOK' /\ JobsOK' /\ WakesInTime'
         /\ \A w \in Workers, p \in Players : \A j : Keeps(w, j, p) => Keeps(w, j, p)'
<1>1. \A v \in Workers : worker'[v] = IF worker[v] = "Waiting" THEN "Lock" ELSE worker[v]
  BY DEF NotifyAll
<1>2. LockOK'
  BY <1>1 DEF IInv, LockOK, Holding
<1>3. JobsOK'
  BY <1>1 DEF IInv, JobsOK, InJob
<1>4. WakesInTime'
  BY <1>1 DEF WakesInTime
<1>5. ASSUME NEW w \in Workers, NEW j, NEW p \in Players, Keeps(w, j, p)
      PROVE  Keeps(w, j, p)'
  BY <1>1, <1>5 DEF Keeps, JobsOf
<1> QED BY <1>2, <1>3, <1>4, <1>5

LEMMA NotifyStep ==
  ASSUME IInv, NEW c \in Callers, Notify(c)
  PROVE  IInv'
<1> USE DEF Notify, controlVars, queueVars, penaltyVars
<1>1. \A d \in Callers : pc'[d] = IF d = c THEN "Idle" ELSE pc[d]
  BY DEF IInv, TypeOK
<1>2. \A d \in Callers : d # c => arg'[d] = arg[d]
  BY DEF IInv, TypeOK
<1>3. TypeOK'
  <2>1. worker' \in [Workers -> {"Exited", "Loop", "Lock", "CheckRunning", "CheckJob",
                                 "Sleep", "Waiting", "AfterWait", "Do", "Run", "Compare",
                                 "Clear"}]
    BY DEF IInv, TypeOK, NotifyAll
  <2>2. \A w \in Workers : worker'[w] \in InJob => worker[w] \in InJob
    BY DEF NotifyAll, InJob
  <2>3. pc' \in [Callers -> {"Idle", "Assign", "Enqueue", "Notify"}]
    BY DEF IInv, TypeOK
  <2>4. arg' \in [Callers -> [player : Players, expire : Nat] \cup {NoArg}]
    BY DEF IInv, TypeOK
  <2> QED BY <1>1, <1>2, <2>1, <2>2, <2>3, <2>4 DEF IInv, TypeOK, InJob
<1>4. /\ LockOK' /\ JobsOK' /\ WakesInTime'
      /\ \A w \in Workers, p \in Players : \A j : Keeps(w, j, p) => Keeps(w, j, p)'
  BY NotifyAllMove
<1>5. ASSUME NEW d \in Callers, NEW p \in Players, Brings(d, p)
      PROVE  Brings(d, p)'
  BY <1>1, <1>2, <1>5 DEF Brings
<1>6. PenaltyHasJob'
  BY <1>4, <1>5, PenaltyHasJobIs DEF IInv, IsKept
<1> QED BY <1>3, <1>4, <1>6 DEF IInv

-----------------------------------------------------------------------------
(* The steps of the group.                                                 *)

LEMMA StartStep ==
  ASSUME IInv, Start, UNCHANGED <<penaltyVars, callerVars>>
  PROVE  IInv'
<1> USE DEF Start, queueVars, penaltyVars, callerVars
<1>1. \A w \in Workers : worker[w] = "Exited" /\ worker'[w] = "Loop"
  BY DEF IInv, LockOK
<1>2. TypeOK'
  BY <1>1 DEF IInv, TypeOK
<1>3. LockOK'
  BY <1>1 DEF IInv, LockOK, Holding
<1>4. JobsOK'
  BY <1>1 DEF IInv, JobsOK, InJob
<1>5. WakesInTime'
  BY <1>1 DEF WakesInTime
<1>6. ASSUME NEW w \in Workers, NEW j, NEW p \in Players, Keeps(w, j, p)
      PROVE  Keeps(w, j, p)'
  BY <1>1, <1>6 DEF Keeps, JobsOf
<1>7. ASSUME NEW c \in Callers, NEW p \in Players, Brings(c, p)
      PROVE  Brings(c, p)'
  BY <1>7 DEF Brings
<1>8. PenaltyHasJob'
  BY <1>6, <1>7, PenaltyHasJobIs DEF IInv, IsKept
<1> QED BY <1>2, <1>3, <1>4, <1>5, <1>8 DEF IInv

\* Steps that move no thread and no job, and only let time pass.
LEMMA ControlMove ==
  ASSUME IInv, clock \in Nat, clock' \in Nat, clock <= clock',
         UNCHANGED <<locked, queueVars, worker, deadline, taken, penaltyVars, callerVars>>,
         control' = "Down" => \A w \in Workers : worker[w] = "Exited"
  PROVE  LockOK' /\ JobsOK' /\ WakesInTime' /\ PenaltyHasJob'
<1> USE DEF queueVars, penaltyVars, callerVars
<1>1. LockOK'
  BY DEF IInv, LockOK, Holding
<1>2. JobsOK'
  <2>1. \A w \in Workers : worker[w] \in InJob => taken[w].due \in Nat
    BY DEF IInv, TypeOK, InJob
  <2>2. \A w \in Workers : found[w] # NoPenalty => found[w] \in Nat
    BY DEF IInv, TypeOK
  <2> QED BY <2>1, <2>2 DEF IInv, JobsOK
<1>3. WakesInTime'
  BY DEF IInv, WakesInTime
<1>4. ASSUME NEW w \in Workers, NEW j, NEW p \in Players, Keeps(w, j, p)
      PROVE  Keeps(w, j, p)'
  <2>1. found[w] # NoPenalty => found[w] \in Nat
    BY DEF IInv, TypeOK
  <2> QED BY <1>4, <2>1 DEF Keeps, JobsOf
<1>5. ASSUME NEW c \in Callers, NEW p \in Players, Brings(c, p)
      PROVE  Brings(c, p)'
  BY <1>5 DEF Brings
<1>6. PenaltyHasJob'
  BY <1>4, <1>5, PenaltyHasJobIs DEF IInv, IsKept
<1> QED BY <1>1, <1>2, <1>3, <1>6

LEMMA ControlStep ==
  ASSUME IInv, Stop \/ Join \/ Tick, UNCHANGED <<penaltyVars, callerVars>>
  PROVE  IInv'
<1> USE DEF Stop, Join, Tick, controlVars, queueVars, penaltyVars, callerVars
<1>1. TypeOK'
  <2>1. CASE Stop
    BY <2>1 DEF IInv, TypeOK
  <2>2. CASE Join
    BY <2>2 DEF IInv, TypeOK
  <2>3. CASE Tick
    BY <2>3 DEF IInv, TypeOK
  <2> QED BY <2>1, <2>2, <2>3
<1>2. clock \in Nat /\ clock' \in Nat /\ clock <= clock'
  BY DEF IInv, TypeOK
<1>3. control' = "Down" => \A w \in Workers : worker[w] = "Exited"
  BY DEF IInv, LockOK
<1>4. LockOK' /\ JobsOK' /\ WakesInTime' /\ PenaltyHasJob'
  BY <1>2, <1>3, ControlMove
<1> QED BY <1>1, <1>4 DEF IInv

LEMMA StopNotifyStep ==
  ASSUME IInv, StopNotify, UNCHANGED <<penaltyVars, callerVars>>
  PROVE  IInv'
<1> USE DEF StopNotify, queueVars, penaltyVars, callerVars
<1>1. TypeOK'
  <2>1. worker' \in [Workers -> {"Exited", "Loop", "Lock", "CheckRunning", "CheckJob",
                                 "Sleep", "Waiting", "AfterWait", "Do", "Run", "Compare",
                                 "Clear"}]
    BY DEF IInv, TypeOK, NotifyAll
  <2>2. \A w \in Workers : worker'[w] \in InJob => worker[w] \in InJob
    BY DEF NotifyAll, InJob
  <2> QED BY <2>1, <2>2 DEF IInv, TypeOK, InJob
<1>2. /\ LockOK' /\ JobsOK' /\ WakesInTime'
      /\ \A w \in Workers, p \in Players : \A j : Keeps(w, j, p) => Keeps(w, j, p)'
  BY NotifyAllMove
<1>3. ASSUME NEW c \in Callers, NEW p \in Players, Brings(c, p)
      PROVE  Brings(c, p)'
  BY <1>3 DEF Brings
<1>4. PenaltyHasJob'
  BY <1>2, <1>3, PenaltyHasJobIs DEF IInv, IsKept
<1> QED BY <1>1, <1>2, <1>4 DEF IInv

-----------------------------------------------------------------------------
(* The theorems.                                                           *)

LEMMA InitIInv == Init => IInv
<1> SUFFICES ASSUME Init PROVE IInv
  OBVIOUS
<1> USE DEF Init, GroupInit
<1>1. TypeOK
  BY DEF TypeOK
<1>2. LockOK
  <2>1. NoWorker \notin Workers
    BY WorkerAssumption DEF Workers
  <2> QED BY <2>1 DEF LockOK, Holding
<1>3. JobsOK
  BY FS_EmptySet DEF JobsOK, InJob
<1>4. WakesInTime /\ PenaltyHasJob
  BY DEF WakesInTime, PenaltyHasJob
<1> QED BY <1>1, <1>2, <1>3, <1>4 DEF IInv

LEMMA StepIInv == IInv /\ [Next]_vars => IInv'
<1> SUFFICES ASSUME IInv, [Next]_vars PROVE IInv'
  OBVIOUS
<1>1. ASSUME NEW c \in Callers, NEW p \in Players, CallAdd(c, p)
      PROVE  IInv'
  BY <1>1, CallAddStep
<1>2. ASSUME NEW c \in Callers, CallerStep(c)
      PROVE  IInv'
  BY <1>2, AssignPenaltyStep, EnqueueExpiryStep, NotifyStep DEF CallerStep
<1>3. ASSUME NEW w \in Workers, JobStep(w)
      PROVE  IInv'
  BY <1>3, FindDodgePenaltyStep, CompareExpiryStep, ClearDodgePenaltyStep DEF JobStep
<1>4. ASSUME NEW w \in Workers, WorkerStep(w) \/ Wake(w), UNCHANGED <<penaltyVars, callerVars>>
      PROVE  IInv'
  BY <1>4, LoopStep, LockStep, CheckRunningStep, CheckJobStep, SleepStep, AfterWaitStep,
     TakeJobStep, WakeStep, Zenon DEF WorkerStep
<1>5. ASSUME GroupStep, UNCHANGED <<penaltyVars, callerVars>>
      PROVE  IInv'
  BY <1>5, StartStep, StopNotifyStep, ControlStep, Zenon DEF GroupStep
<1>6. CASE UNCHANGED vars
  BY <1>6 DEF vars, groupVars, penaltyVars, callerVars, IInv, TypeOK, LockOK, JobsOK,
     WakesInTime, PenaltyHasJob, JobsOf
<1> QED BY <1>1, <1>2, <1>3, <1>4, <1>5, <1>6 DEF Next

\* The invariant holds in every reachable state of the manager and its group.
THEOREM Invariant == Spec => []IInv
BY InitIInv, StepIInv, PTL DEF Spec

\* Every variable has its type, and who runs a job has one.
THEOREM TypeCorrect == Spec => []TypeOK
<1>1. IInv => TypeOK
  BY DEF IInv
<1> QED BY <1>1, Invariant, PTL

\* No worker sleeps past a job unless a notification is under way.
THEOREM NoWorkerOversleeps == Spec => []WakesInTime
<1>1. IInv => WakesInTime
  BY DEF IInv
<1> QED BY <1>1, Invariant, PTL

\* No penalty in the map is without a job, or a call, that is to end it.
THEOREM NoPenaltyIsForgotten == Spec => []PenaltyHasJob
<1>1. IInv => PenaltyHasJob
  BY DEF IInv
<1> QED BY <1>1, Invariant, PTL

\* Only the job of a penalty takes it from the map, and what it has found is over.
RemovedOnTime ==
  \A p \in Players :
    penalty[p] # NoPenalty /\ penalty'[p] = NoPenalty =>
      \E w \in Workers : /\ found[w] # NoPenalty /\ found[w] <= clock
                         /\ penalty[p] <= clock \/ penalty[p] # found[w]

LEMMA RemovedStep == IInv /\ [Next]_vars => [RemovedOnTime]_vars
<1> SUFFICES ASSUME IInv, Next,
                    NEW p \in Players, penalty[p] # NoPenalty, penalty'[p] = NoPenalty
             PROVE  \E w \in Workers : /\ found[w] # NoPenalty /\ found[w] <= clock
                                       /\ penalty[p] <= clock \/ penalty[p] # found[w]
  BY DEF RemovedOnTime
<1>1. ASSUME NEW c \in Callers, AssignPenalty(c)
      PROVE  FALSE
  <2>1. PICK call \in [player : Players, expire : Nat] : call = arg[c]
    BY <1>1 DEF AssignPenalty, IInv, TypeOK
  <2>2. penalty'[p] = penalty[p] \/ penalty'[p] \in Nat
    BY <1>1, <2>1 DEF AssignPenalty, IInv, TypeOK
  <2> QED BY <2>2, PenaltyAssumption
<1>2. ASSUME NEW w \in Workers, ClearDodgePenalty(w)
      PROVE  found[w] # NoPenalty /\ found[w] <= clock
  BY <1>2 DEF ClearDodgePenalty, IInv, JobsOK
<1>3. ASSUME UNCHANGED penalty
      PROVE  FALSE
  BY <1>3
<1> QED BY <1>1, <1>2, <1>3 DEF Next, CallAdd, CallerStep, EnqueueExpiry, Notify, JobStep,
           FindDodgePenalty, CompareExpiry, penaltyVars

\* A penalty is taken from a player early only in place of one that was over.
THEOREM PenaltyIsNotCutShort == Spec => RemovedWhenExpired
<1>1. RemovedWhenExpired <=> [][RemovedOnTime]_vars
  BY PTL DEF RemovedWhenExpired, RemovedOnTime
<1> QED BY <1>1, RemovedStep, Invariant, PTL DEF Spec

=============================================================================
