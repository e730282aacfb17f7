--------------------------- MODULE JobQueueProofs ---------------------------
(***************************************************************************)
(* Proofs about JobQueue, for any number of jobs, runners, requests, cases *)
(* and modules, with and without early ticks.                              *)
(*                                                                         *)
(* The inductive invariant says what a runner's memory (wpc, wjob, wres)   *)
(* and the history have to do with the table.  Its core is HeldInv: what a *)
(* runner holds is still Running in the table, or deleted, unless it was   *)
(* popped before RescheduleStaleJobs; and ClaimInv: a job PopJob may take  *)
(* was not handed out before in this life, with the same exception.        *)
(***************************************************************************)
EXTENDS JobQueue, FiniteSetTheorems, TLAPS

\* A job popped before RescheduleStaleJobs may be popped once more.
Again(j) == IF j \in early /\ phase = "serving" THEN 1 ELSE 0

RunnerInv ==
    \A w \in Workers :
        /\ wjob[w] = NoJob <=> wpc[w] \in {"off", "idle"}
        /\ wpc[w] = "returned" => wres[w] \in Terminal
        /\ wjob[w] # NoJob => claims[wjob[w]] # 0

PhaseInv ==
    phase \in {"down", "booting"} =>
        /\ \A w \in Workers : wpc[w] = "off"
        /\ \A j \in JobIds : claims[j] = 0
        /\ early = {}

ClaimInv ==
    \A j \in JobIds :
        /\ claims[j] <= 1 + Again(j)
        /\ status[j] \in {"Unused", "Scheduled"} => claims[j] <= Again(j)
        /\ phase # "serving" /\ claims[j] # 0 => j \in early

HeldInv ==
    /\ \A w \in Workers : wjob[w] # NoJob /\ wjob[w] \notin early
                            => status[wjob[w]] \in {"Running", "Gone"}
    /\ \A v, w \in Workers : v # w /\ wjob[v] # NoJob /\ wjob[v] = wjob[w]
                            => wjob[v] \in early

EarlyInv == early # {} => EarlyTick

QueueInv ==
    /\ TypeOK
    /\ RunnerInv
    /\ PhaseInv
    /\ ClaimInv
    /\ HeldInv
    /\ EarlyInv
    /\ RunningIsHeld
    /\ JobsHaveCase

-----------------------------------------------------------------------------
(* Each action keeps the invariant.                                        *)

LEMMA ReadCaseInv ==
    ASSUME QueueInv, NEW p \in Schedulers, ReadCase(p)
    PROVE  QueueInv'
  <1> USE DEF ReadCase, table, proc, pool, hist
  <1>1. TypeOK'
    BY DEF QueueInv, TypeOK
  <1>2. RunnerInv' /\ PhaseInv' /\ ClaimInv' /\ HeldInv' /\ EarlyInv' /\ RunningIsHeld' /\ JobsHaveCase'
    BY DEF QueueInv, RunnerInv, PhaseInv, ClaimInv, Again, HeldInv, EarlyInv, RunningIsHeld, HeldBySome, JobsHaveCase, Live
  <1>3. QED
    BY <1>1, <1>2 DEF QueueInv

LEMMA PushJobInv ==
    ASSUME QueueInv, NEW p \in Schedulers, NEW j \in JobIds, NEW m \in Modules, PushJob(p, j, m)
    PROVE  QueueInv'
  <1> USE DEF PushJob, proc, pool, hist
  <1>1. TypeOK'
    BY DEF QueueInv, TypeOK, Rowids, JobStatus, Terminal
  <1>2. ClaimInv'
    BY DEF QueueInv, TypeOK, ClaimInv, Again
  <1>3. HeldInv'
    BY DEF QueueInv, TypeOK, HeldInv
  <1>4. RunningIsHeld'
    BY DEF QueueInv, TypeOK, RunningIsHeld, HeldBySome
  <1>5. JobsHaveCase'
    BY DEF QueueInv, TypeOK, JobsHaveCase, Live, JobStatus, Terminal
  <1>6. RunnerInv' /\ PhaseInv' /\ EarlyInv'
    BY DEF QueueInv, RunnerInv, PhaseInv, EarlyInv
  <1>7. QED
    BY <1>1, <1>2, <1>3, <1>4, <1>5, <1>6 DEF QueueInv

LEMMA PushFailsInv ==
    ASSUME QueueInv, NEW p \in Schedulers, PushFails(p)
    PROVE  QueueInv'
  <1> USE DEF PushFails, table, proc, pool, hist
  <1>1. TypeOK'
    BY DEF QueueInv, TypeOK
  <1>2. RunnerInv' /\ PhaseInv' /\ ClaimInv' /\ HeldInv' /\ EarlyInv' /\ RunningIsHeld' /\ JobsHaveCase'
    BY DEF QueueInv, RunnerInv, PhaseInv, ClaimInv, Again, HeldInv, EarlyInv, RunningIsHeld, HeldBySome, JobsHaveCase, Live
  <1>3. QED
    BY <1>1, <1>2 DEF QueueInv

LEMMA CaseDeleteInv ==
    ASSUME QueueInv, NEW c \in Cases, CaseDelete(c)
    PROVE  QueueInv'
  <1> USE DEF CaseDelete, Live, proc, pool, hist
  <1>1. TypeOK'
    BY DEF QueueInv, TypeOK, JobStatus, Terminal
  <1>2. ClaimInv'
    BY DEF QueueInv, TypeOK, ClaimInv, Again
  <1>3. HeldInv'
    BY DEF QueueInv, TypeOK, HeldInv
  <1>4. RunningIsHeld'
    BY DEF QueueInv, TypeOK, RunningIsHeld, HeldBySome
  <1>5. JobsHaveCase'
    BY DEF QueueInv, TypeOK, JobsHaveCase, Live, JobStatus, Terminal
  <1>6. RunnerInv' /\ PhaseInv' /\ EarlyInv'
    BY DEF QueueInv, RunnerInv, PhaseInv, EarlyInv
  <1>7. QED
    BY <1>1, <1>2, <1>3, <1>4, <1>5, <1>6 DEF QueueInv

LEMMA BootInv ==
    ASSUME QueueInv, Boot
    PROVE  QueueInv'
  <1> USE DEF Boot, table, pool, hist
  <1>1. TypeOK'
    BY DEF QueueInv, TypeOK
  <1>2. PhaseInv'
    BY DEF QueueInv, TypeOK, PhaseInv
  <1>3. ClaimInv'
    BY DEF QueueInv, TypeOK, ClaimInv, Again
  <1>4. RunningIsHeld'
    BY DEF QueueInv, TypeOK, RunningIsHeld, HeldBySome
  <1>5. RunnerInv' /\ HeldInv' /\ EarlyInv' /\ JobsHaveCase'
    BY DEF QueueInv, RunnerInv, HeldInv, EarlyInv, JobsHaveCase, Live
  <1>6. QED
    BY <1>1, <1>2, <1>3, <1>4, <1>5 DEF QueueInv

LEMMA StartRunnersInv ==
    ASSUME QueueInv, StartRunners
    PROVE  QueueInv'
  <1> USE DEF StartRunners, table, hist
  <1>1. TypeOK'
    BY DEF QueueInv, TypeOK
  <1>2. RunnerInv'
    BY DEF QueueInv, TypeOK, RunnerInv, PhaseInv
  <1>3. PhaseInv'
    BY DEF QueueInv, TypeOK, PhaseInv
  <1>4. ClaimInv'
    BY DEF QueueInv, TypeOK, ClaimInv, Again, PhaseInv
  <1>5. RunningIsHeld'
    BY DEF QueueInv, TypeOK, RunningIsHeld, HeldBySome
  <1>6. HeldInv' /\ EarlyInv' /\ JobsHaveCase'
    BY DEF QueueInv, HeldInv, EarlyInv, JobsHaveCase, Live
  <1>7. QED
    BY <1>1, <1>2, <1>3, <1>4, <1>5, <1>6 DEF QueueInv

LEMMA RescheduleStaleJobsInv ==
    ASSUME QueueInv, RescheduleStaleJobs
    PROVE  QueueInv'
  <1> USE DEF RescheduleStaleJobs, pool
  <1>1. TypeOK'
    BY DEF QueueInv, TypeOK, JobStatus, Terminal
  <1>2. PhaseInv'
    BY DEF QueueInv, TypeOK, PhaseInv
  <1>3. ClaimInv'
    BY DEF QueueInv, TypeOK, ClaimInv, Again
  <1>4. HeldInv'
    BY DEF QueueInv, TypeOK, HeldInv, RunnerInv, ClaimInv
  <1>5. RunningIsHeld'
    BY DEF QueueInv, TypeOK, RunningIsHeld, HeldBySome
  <1>6. JobsHaveCase'
    BY DEF QueueInv, TypeOK, JobsHaveCase, Live, JobStatus, Terminal
  <1>7. RunnerInv' /\ EarlyInv'
    BY DEF QueueInv, RunnerInv, EarlyInv
  <1>8. QED
    BY <1>1, <1>2, <1>3, <1>4, <1>5, <1>6, <1>7 DEF QueueInv

LEMMA RescheduleFailsInv ==
    ASSUME QueueInv, RescheduleFails
    PROVE  QueueInv'
  <1> USE DEF RescheduleFails, HeldBySome, table, pool
  <1>1. TypeOK'
    BY DEF QueueInv, TypeOK
  <1>2. PhaseInv'
    BY DEF QueueInv, TypeOK, PhaseInv
  <1>3. ClaimInv'
    BY DEF QueueInv, TypeOK, ClaimInv, Again
  <1>4. RunningIsHeld'
    BY DEF QueueInv, TypeOK, RunningIsHeld, HeldBySome
  <1>5. RunnerInv' /\ HeldInv' /\ EarlyInv' /\ JobsHaveCase'
    BY DEF QueueInv, RunnerInv, HeldInv, EarlyInv, JobsHaveCase, Live
  <1>6. QED
    BY <1>1, <1>2, <1>3, <1>4, <1>5 DEF QueueInv

LEMMA CancelInv ==
    ASSUME QueueInv, Cancel
    PROVE  QueueInv'
  <1> USE DEF Cancel, table, pool, hist
  <1>1. TypeOK'
    BY DEF QueueInv, TypeOK
  <1>2. RunnerInv' /\ PhaseInv' /\ ClaimInv' /\ HeldInv' /\ EarlyInv' /\ RunningIsHeld' /\ JobsHaveCase'
    BY DEF QueueInv, RunnerInv, PhaseInv, ClaimInv, Again, HeldInv, EarlyInv, RunningIsHeld, HeldBySome, JobsHaveCase, Live
  <1>3. QED
    BY <1>1, <1>2 DEF QueueInv

LEMMA ExitInv ==
    ASSUME QueueInv, Exit
    PROVE  QueueInv'
  <1> USE DEF Exit, table
  <1>1. TypeOK'
    <2>1. /\ status' \in [JobIds -> JobStatus \cup {"Unused", "Gone"}]
          /\ module' \in [JobIds -> Modules \cup {NoJob}]
          /\ kase' \in [JobIds -> Cases \cup {NoCase}]
          /\ rowid' \in [JobIds -> Nat]
          /\ cases' \subseteq Cases
          /\ stranded' \subseteq JobIds
          /\ exits' \in Nat
      BY DEF QueueInv, TypeOK
    <2>2. QED
      BY <2>1 DEF TypeOK, Terminal
  <1>2. RunnerInv'
    BY DEF QueueInv, TypeOK, RunnerInv, JobStatus, Terminal
  <1>3. PhaseInv'
    BY DEF QueueInv, TypeOK, PhaseInv
  <1>4. ClaimInv'
    BY DEF QueueInv, TypeOK, ClaimInv, Again
  <1>5. HeldInv'
    BY DEF QueueInv, TypeOK, HeldInv
  <1>6. EarlyInv'
    BY DEF QueueInv, TypeOK, EarlyInv
  <1>7. RunningIsHeld'
    BY DEF QueueInv, TypeOK, RunningIsHeld, HeldBySome
  <1>8. JobsHaveCase'
    BY DEF QueueInv, JobsHaveCase, Live
  <1>9. QED
    BY <1>1, <1>2, <1>3, <1>4, <1>5, <1>6, <1>7, <1>8 DEF QueueInv

LEMMA PopJobInv ==
    ASSUME QueueInv, NEW w \in Workers, NEW j \in JobIds, PopJob(w, j)
    PROVE  QueueInv'
  <1> USE DEF PopJob, IsOldest, Claimable, Ticks, proc
  <1>1. TypeOK'
    BY DEF QueueInv, TypeOK, JobStatus, Terminal
  <1>2. RunnerInv'
    BY QueueAssumption DEF QueueInv, TypeOK, RunnerInv
  <1>3. PhaseInv'
    BY DEF QueueInv, TypeOK, PhaseInv
  <1>4. ClaimInv'
    BY DEF QueueInv, TypeOK, ClaimInv, Again
  <1>5. HeldInv'
    BY DEF QueueInv, TypeOK, HeldInv, RunnerInv
  <1>6. EarlyInv'
    BY DEF QueueInv, TypeOK, EarlyInv
  <1>7. RunningIsHeld'
    <2>1. /\ wjob'[w] = j
          /\ \A k \in JobIds : k # j => status'[k] = status[k]
          /\ \A v \in Workers : v # w => wjob'[v] = wjob[v]
      BY DEF QueueInv, TypeOK
    <2>2. wjob[w] = NoJob
      BY DEF QueueInv, RunnerInv
    <2>3. ASSUME NEW k \in JobIds, phase = "serving", status'[k] = "Running"
          PROVE  HeldBySome(k)' \/ k \in stranded
      BY <2>1, <2>2, <2>3, QueueAssumption DEF QueueInv, RunningIsHeld, HeldBySome
    <2>4. QED
      BY <2>3 DEF RunningIsHeld
  <1>8. JobsHaveCase'
    BY DEF QueueInv, TypeOK, JobsHaveCase, Live, JobStatus, Terminal
  <1>9. QED
    BY <1>1, <1>2, <1>3, <1>4, <1>5, <1>6, <1>7, <1>8 DEF QueueInv

LEMMA LoadCaseInv ==
    ASSUME QueueInv, NEW w \in Workers, LoadCase(w)
    PROVE  QueueInv'
  <1> USE DEF LoadCase, table, proc, hist
  <1>1. TypeOK'
    BY DEF QueueInv, TypeOK, JobStatus, Terminal
  <1>2. RunnerInv'
    BY DEF QueueInv, TypeOK, RunnerInv, JobStatus, Terminal
  <1>3. PhaseInv'
    BY DEF QueueInv, TypeOK, PhaseInv
  <1>4. ClaimInv' /\ HeldInv' /\ EarlyInv' /\ RunningIsHeld' /\ JobsHaveCase'
    BY DEF QueueInv, ClaimInv, Again, HeldInv, EarlyInv, RunningIsHeld, HeldBySome, JobsHaveCase, Live
  <1>5. QED
    BY <1>1, <1>2, <1>3, <1>4 DEF QueueInv

LEMMA ModuleReturnsInv ==
    ASSUME QueueInv, NEW w \in Workers, ModuleReturns(w)
    PROVE  QueueInv'
  <1> USE DEF ModuleReturns, table, proc, hist
  <1>1. TypeOK'
    BY DEF QueueInv, TypeOK, JobStatus, Terminal
  <1>2. RunnerInv'
    BY DEF QueueInv, TypeOK, RunnerInv, JobStatus, Terminal
  <1>3. PhaseInv'
    BY DEF QueueInv, TypeOK, PhaseInv
  <1>4. ClaimInv' /\ HeldInv' /\ EarlyInv' /\ RunningIsHeld' /\ JobsHaveCase'
    BY DEF QueueInv, ClaimInv, Again, HeldInv, EarlyInv, RunningIsHeld, HeldBySome, JobsHaveCase, Live
  <1>5. QED
    BY <1>1, <1>2, <1>3, <1>4 DEF QueueInv

LEMMA AckJobInv ==
    ASSUME QueueInv, NEW w \in Workers, AckJob(w)
    PROVE  QueueInv'
  <1> USE DEF AckJob, Release, Live, proc, hist
  <1>1. TypeOK'
    BY DEF QueueInv, TypeOK, RunnerInv, JobStatus, Terminal
  <1>2. RunnerInv'
    BY DEF QueueInv, TypeOK, RunnerInv, JobStatus, Terminal
  <1>3. PhaseInv'
    BY DEF QueueInv, TypeOK, PhaseInv, JobStatus, Terminal
  <1>4. ClaimInv'
    BY DEF QueueInv, TypeOK, ClaimInv, Again, JobStatus, Terminal
  <1>5. HeldInv'
    BY DEF QueueInv, TypeOK, HeldInv, RunnerInv, JobStatus, Terminal
  <1>6. RunningIsHeld'
    BY DEF QueueInv, TypeOK, RunningIsHeld, HeldBySome, RunnerInv, JobStatus, Terminal
  <1>7. JobsHaveCase'
    BY DEF QueueInv, TypeOK, JobsHaveCase, Live, JobStatus, Terminal
  <1>8. EarlyInv'
    BY DEF QueueInv, EarlyInv
  <1>9. QED
    BY <1>1, <1>2, <1>3, <1>4, <1>5, <1>6, <1>7, <1>8 DEF QueueInv

LEMMA AckFailsInv ==
    ASSUME QueueInv, NEW w \in Workers, AckFails(w)
    PROVE  QueueInv'
  <1> USE DEF AckFails, Release, table, proc
  <1>1. TypeOK'
    BY DEF QueueInv, TypeOK, RunnerInv, JobStatus, Terminal
  <1>2. RunnerInv'
    BY DEF QueueInv, TypeOK, RunnerInv, JobStatus, Terminal
  <1>3. PhaseInv'
    BY DEF QueueInv, TypeOK, PhaseInv
  <1>4. HeldInv'
    BY DEF QueueInv, TypeOK, HeldInv
  <1>5. RunningIsHeld'
    BY DEF QueueInv, TypeOK, RunningIsHeld, HeldBySome, RunnerInv
  <1>6. ClaimInv' /\ EarlyInv' /\ JobsHaveCase'
    BY DEF QueueInv, ClaimInv, Again, EarlyInv, JobsHaveCase, Live
  <1>7. QED
    BY <1>1, <1>2, <1>3, <1>4, <1>5, <1>6 DEF QueueInv

LEMMA RunnerStopsInv ==
    ASSUME QueueInv, NEW w \in Workers, RunnerStops(w)
    PROVE  QueueInv'
  <1> USE DEF RunnerStops, table, proc, hist
  <1>1. TypeOK'
    BY DEF QueueInv, TypeOK
  <1>2. RunnerInv'
    BY DEF QueueInv, TypeOK, RunnerInv
  <1>3. PhaseInv'
    BY DEF QueueInv, TypeOK, PhaseInv
  <1>4. ClaimInv' /\ HeldInv' /\ EarlyInv' /\ RunningIsHeld' /\ JobsHaveCase'
    BY DEF QueueInv, ClaimInv, Again, HeldInv, EarlyInv, RunningIsHeld, HeldBySome, JobsHaveCase, Live
  <1>5. QED
    BY <1>1, <1>2, <1>3, <1>4 DEF QueueInv
-----------------------------------------------------------------------------
(* The theorems.                                                            *)

LEMMA InitQueueInv == Init => QueueInv
  <1> SUFFICES ASSUME Init
               PROVE  QueueInv
    OBVIOUS
  <1>1. TypeOK
    BY DEF Init, TypeOK
  <1>2. RunnerInv /\ PhaseInv /\ HeldInv /\ EarlyInv
    BY DEF Init, RunnerInv, PhaseInv, HeldInv, EarlyInv
  <1>3. ClaimInv /\ RunningIsHeld /\ JobsHaveCase
    BY DEF Init, ClaimInv, Again, RunningIsHeld, JobsHaveCase, Live, JobStatus, Terminal
  <1>4. QED
    BY <1>1, <1>2, <1>3 DEF QueueInv

LEMMA NextQueueInv == QueueInv /\ [Next]_vars => QueueInv'
  <1> SUFFICES ASSUME QueueInv, [Next]_vars
               PROVE  QueueInv'
    OBVIOUS
  <1>1. ASSUME NEW p \in Schedulers, ReadCase(p) PROVE QueueInv'
    BY <1>1, ReadCaseInv
  <1>2. ASSUME NEW p \in Schedulers, NEW j \in JobIds, NEW m \in Modules, PushJob(p, j, m)
        PROVE  QueueInv'
    BY <1>2, PushJobInv
  <1>3. ASSUME NEW p \in Schedulers, PushFails(p) PROVE QueueInv'
    BY <1>3, PushFailsInv
  <1>4. ASSUME NEW c \in Cases, CaseDelete(c) PROVE QueueInv'
    BY <1>4, CaseDeleteInv
  <1>5. ASSUME NEW w \in Workers, Runner(w) PROVE QueueInv'
    BY <1>5, PopJobInv, LoadCaseInv, ModuleReturnsInv, AckJobInv DEF Runner
  <1>6. ASSUME NEW w \in Workers, AckFails(w) \/ RunnerStops(w) PROVE QueueInv'
    BY <1>6, AckFailsInv, RunnerStopsInv
  <1>7. CASE Boot \/ StartRunners \/ RescheduleStaleJobs \/ RescheduleFails \/ Cancel \/ Exit
    BY <1>7, BootInv, StartRunnersInv, RescheduleStaleJobsInv, RescheduleFailsInv, CancelInv,
       ExitInv
  <1>8. CASE UNCHANGED vars
    BY <1>8 DEF vars, table, proc, pool, hist, QueueInv, TypeOK, RunnerInv, PhaseInv, ClaimInv,
                Again, HeldInv, EarlyInv, RunningIsHeld, HeldBySome, JobsHaveCase, Live
  <1>9. QED
    BY <1>1, <1>2, <1>3, <1>4, <1>5, <1>6, <1>7, <1>8 DEF Next

\* The invariant all the theorems below follow from.
THEOREM QueueInvariant == Spec => []QueueInv
  BY InitQueueInv, NextQueueInv, PTL DEF Spec

\* Type correctness of the jobs table, the process and the runner pool.
THEOREM TypeCorrect == Spec => []TypeOK
  BY QueueInvariant, PTL DEF QueueInv

\* PopJob hands a job out once per life of the process, twice if it was
\* popped before Start ran RescheduleStaleJobs.
THEOREM PopsOnce == Spec => []ClaimedOncePerLife
  <1>1. QueueInv => ClaimedOncePerLife
    BY DEF QueueInv, TypeOK, ClaimInv, Again, ClaimedOncePerLife
  <1>2. QED
    BY <1>1, QueueInvariant, PTL

\* What the comment on PopJob says of two pool workers holds whenever no
\* runner ticks before Start has finished.
THEOREM NoDoubleClaimWithoutEarlyTick == Spec => [](~EarlyTick => NoDoubleClaim)
  <1>1. QueueInv => (~EarlyTick => NoDoubleClaim)
    BY DEF QueueInv, EarlyInv, HeldInv, NoDoubleClaim
  <1>2. QED
    BY <1>1, QueueInvariant, PTL

\* No panic, error, deleted case or shutdown leaves a job Running that no
\* runner works on once start-up is over.
THEOREM NoStrandedJob == Spec => []RunningIsHeld
  BY QueueInvariant, PTL DEF QueueInv

\* The cascade and the saved association keep every job attached to a case.
THEOREM JobsKeepCase == Spec => []JobsHaveCase
  BY QueueInvariant, PTL DEF QueueInv

LEMMA ResultStep ==
    ASSUME QueueInv, [Next]_vars, NEW j \in JobIds, status[j] \in Terminal, j \notin early
    PROVE  status'[j] \in {status[j], "Gone"}
  <1> DEFINE Kept == status'[j] \in {status[j], "Gone"}
  <1>1. ASSUME NEW p \in Schedulers, NEW i \in JobIds, NEW m \in Modules, PushJob(p, i, m)
        PROVE  Kept
    BY <1>1 DEF PushJob, Terminal, QueueInv, TypeOK
  <1>2. ASSUME NEW c \in Cases, CaseDelete(c) PROVE Kept
    BY <1>2 DEF CaseDelete
  <1>3. ASSUME NEW w \in Workers, NEW i \in JobIds, PopJob(w, i) PROVE Kept
    BY <1>3 DEF PopJob, IsOldest, Claimable, Terminal, QueueInv, TypeOK
  <1>4. ASSUME NEW w \in Workers, AckJob(w) PROVE Kept
    <2>1. wjob[w] \in JobIds
      BY <1>4 DEF AckJob, QueueInv, RunnerInv, TypeOK
    <2>2. wjob[w] # j
      BY <2>1, QueueAssumption DEF QueueInv, HeldInv, Terminal
    <2>3. QED
      BY <1>4, <2>1, <2>2 DEF AckJob, QueueInv, TypeOK
  <1>5. ASSUME RescheduleStaleJobs PROVE Kept
    BY <1>5 DEF RescheduleStaleJobs, Terminal
  <1>6. ASSUME Boot \/ StartRunners \/ RescheduleFails \/ Cancel \/ Exit \/ UNCHANGED vars
        PROVE  Kept
    BY <1>6 DEF Boot, StartRunners, RescheduleFails, Cancel, Exit, vars, table
  <1>7. ASSUME NEW p \in Schedulers, ReadCase(p) \/ PushFails(p) PROVE Kept
    BY <1>7 DEF ReadCase, PushFails, table
  <1>8. ASSUME NEW w \in Workers, LoadCase(w) \/ ModuleReturns(w) \/ AckFails(w) \/ RunnerStops(w)
        PROVE  Kept
    BY <1>8 DEF LoadCase, ModuleReturns, AckFails, RunnerStops, table
  <1> HIDE DEF Kept
  <1>9. Kept
    BY <1>1, <1>2, <1>3, <1>4, <1>5, <1>6, <1>7, <1>8 DEF Next, Runner
  <1>10. QED
    BY <1>9 DEF Kept

\* AckJob writes without looking at the status it replaces; all the same a
\* recorded result stays, except for the jobs popped early.
THEOREM ResultsAreFinal == Spec => ResultIsFinal
  <1>1. QueueInv /\ [Next]_vars =>
          [\A j \in JobIds : status[j] \in Terminal /\ j \notin early
                                => status'[j] \in {status[j], "Gone"}]_vars
    BY ResultStep
  <1>2. QED
    BY <1>1, QueueInvariant, PTL DEF Spec, ResultIsFinal

-----------------------------------------------------------------------------
(* The pool and its table implement JobLifecycle.                          *)

\* How a job appears to the users of the queue.
LEMMA LifecycleIs ==
    ASSUME TypeOK
    PROVE  /\ lifecycle \in [JobIds -> Lifecycle!States]
           /\ \A j \in JobIds :
                /\ status[j] = "Unused"    => lifecycle[j] = "none"
                /\ status[j] = "Scheduled" => lifecycle[j] = "queued"
                /\ status[j] = "Running"   => lifecycle[j] = IF HeldBySome(j) THEN "active" ELSE "lost"
                /\ status[j] = "Success"   => lifecycle[j] = "ok"
                /\ status[j] = "Failed"    => lifecycle[j] = "failed"
                /\ status[j] = "Gone"      => lifecycle[j] = "gone"
  BY DEF lifecycle, Lifecycle!States, TypeOK, JobStatus, Terminal

\* The same after a step.
LEMMA LifecycleIsNext ==
    ASSUME TypeOK'
    PROVE  /\ lifecycle' \in [JobIds -> Lifecycle!States]
           /\ \A j \in JobIds :
                /\ status'[j] = "Unused"    => lifecycle'[j] = "none"
                /\ status'[j] = "Scheduled" => lifecycle'[j] = "queued"
                /\ status'[j] = "Running"   => lifecycle'[j] = IF HeldBySome(j)' THEN "active" ELSE "lost"
                /\ status'[j] = "Success"   => lifecycle'[j] = "ok"
                /\ status'[j] = "Failed"    => lifecycle'[j] = "failed"
                /\ status'[j] = "Gone"      => lifecycle'[j] = "gone"
  BY DEF lifecycle, Lifecycle!States, TypeOK, JobStatus, Terminal

\* A step that neither writes the table nor gives or takes a runner its job
\* goes unseen.
LEMMA Unseen == ASSUME UNCHANGED <<status, wjob>> PROVE UNCHANGED lifecycle
  BY DEF lifecycle, HeldBySome

\* So does what happens to other jobs.
LEMMA OthersUnseen ==
    ASSUME NEW j \in JobIds, status'[j] = status[j], HeldBySome(j)' <=> HeldBySome(j)
    PROVE  lifecycle'[j] = lifecycle[j]
  <1> DEFINE Appears(s, held) ==
        CASE s = "Unused"    -> "none"
          [] s = "Scheduled" -> "queued"
          [] s = "Running"   -> IF held THEN "active" ELSE "lost"
          [] s = "Success"   -> "ok"
          [] s = "Failed"    -> "failed"
          [] s = "Gone"      -> "gone"
  <1>1. lifecycle[j] = Appears(status[j], HeldBySome(j))
    BY DEF lifecycle
  <1>2. lifecycle'[j] = Appears(status'[j], HeldBySome(j)')
    BY DEF lifecycle
  <1>3. QED
    BY <1>1, <1>2

\* A step that changes how one job appears.
LEMMA OneMoves ==
    ASSUME TypeOK, TypeOK', NEW j \in JobIds, NEW from, NEW to,
           lifecycle[j] = from, lifecycle'[j] = to,
           \A i \in JobIds : i # j => lifecycle'[i] = lifecycle[i]
    PROVE  Lifecycle!Move(j, from, to)
  BY LifecycleIs, LifecycleIsNext DEF Lifecycle!Move

\* A step that changes how many appear.
LEMMA ManyMove ==
    ASSUME TypeOK, TypeOK', NEW S, NEW from, NEW to,
           \A i \in JobIds : lifecycle'[i] = IF i \in S /\ lifecycle[i] \in from THEN to ELSE lifecycle[i]
    PROVE  Lifecycle!MoveAll(S, from, to)
  BY LifecycleIs, LifecycleIsNext DEF Lifecycle!MoveAll

\* While a runner is idle the others work on fewer jobs than there are runners.
LEMMA FreeSlot ==
    ASSUME QueueInv, NEW w \in Workers, wpc[w] = "idle"
    PROVE  Cardinality(Lifecycle!In("active")) < Cardinality(Workers)
  <1> DEFINE Active == Lifecycle!In("active")
             Busy   == {v \in Workers : wjob[v] \in Active}
             f      == [v \in Busy |-> wjob[v]]
  <1>1. \A j \in Active : j \in JobIds /\ HeldBySome(j)
    BY LifecycleIs DEF Lifecycle!In, QueueInv, TypeOK, JobStatus, Terminal
  <1>2. wjob[w] = NoJob
    BY DEF QueueInv, RunnerInv
  <1>3. Busy \in SUBSET (Workers \ {w})
    BY <1>1, <1>2, QueueAssumption
  <1>4. f \in Surjection(Busy, Active)
    BY <1>1 DEF Surjection, HeldBySome
  <1>5. /\ IsFiniteSet(Workers \ {w}) /\ Cardinality(Workers \ {w}) = Cardinality(Workers) - 1
        /\ Cardinality(Workers) \in Nat
    BY FS_RemoveElement, FS_CardinalityType, QueueAssumption
  <1>6. IsFiniteSet(Busy) /\ Cardinality(Busy) <= Cardinality(Workers \ {w})
    BY <1>3, <1>5, FS_Subset
  <1> HIDE DEF Busy, Active, f
  <1>7. IsFiniteSet(Active) /\ Cardinality(Active) <= Cardinality(Busy)
    BY <1>4, <1>6, FS_Surjection
  <1>8. Cardinality(Active) \in Nat /\ Cardinality(Busy) \in Nat
    BY <1>6, <1>7, FS_CardinalityType
  <1>9. Cardinality(Active) < Cardinality(Workers)
    BY <1>5, <1>6, <1>7, <1>8
  <1>10. QED
    BY <1>9 DEF Active

\* Without early ticks nobody has been popped early.
LEMMA NobodyEarly == ASSUME QueueInv, ~EarlyTick PROVE early = {}
  BY DEF QueueInv, EarlyInv

\* PushJob submits.
LEMMA PushJobMaps ==
    ASSUME QueueInv, QueueInv', NEW p \in Schedulers, NEW j \in JobIds, NEW m \in Modules,
           PushJob(p, j, m)
    PROVE  Lifecycle!Submit(j)
  <1>1. TypeOK /\ TypeOK'
    BY DEF QueueInv
  <1>2. /\ status[j] = "Unused" /\ status'[j] = "Scheduled" /\ wjob' = wjob
        /\ \A i \in JobIds : i # j => status'[i] = status[i]
    BY <1>1 DEF PushJob, pool, TypeOK
  <1>3. lifecycle[j] = "none" /\ lifecycle'[j] = "queued"
    BY <1>1, <1>2, LifecycleIs, LifecycleIsNext
  <1>4. \A i \in JobIds : i # j => lifecycle'[i] = lifecycle[i]
    BY <1>2, OthersUnseen DEF HeldBySome
  <1>5. QED
    BY <1>1, <1>3, <1>4, OneMoves DEF Lifecycle!Submit

\* CaseDelete drops the jobs of the case.
LEMMA CaseDeleteMaps ==
    ASSUME QueueInv, QueueInv', NEW c \in Cases, CaseDelete(c)
    PROVE  \E S \in SUBSET JobIds : Lifecycle!Drop(S)
  <1> DEFINE S == {j \in JobIds : Live(j) /\ kase[j] = c}
  <1>1. TypeOK /\ TypeOK'
    BY DEF QueueInv
  <1>2. wjob' = wjob /\ \A j \in JobIds : status'[j] = IF j \in S THEN "Gone" ELSE status[j]
    BY DEF CaseDelete, pool
  <1>3. \A j \in S : /\ lifecycle'[j] = "gone"
                     /\ lifecycle[j] \in {"queued", "active", "lost", "ok", "failed"}
    BY <1>1, <1>2, LifecycleIs, LifecycleIsNext DEF Live, JobStatus, Terminal
  <1>4. \A j \in JobIds \ S : lifecycle'[j] = lifecycle[j]
    BY <1>2, OthersUnseen DEF HeldBySome
  <1> HIDE DEF S
  <1>5. Lifecycle!MoveAll(S, {"queued", "active", "lost", "ok", "failed"}, "gone")
    BY <1>1, <1>3, <1>4, ManyMove
  <1>6. S \in SUBSET JobIds
    BY DEF S
  <1>7. QED
    BY <1>5, <1>6 DEF Lifecycle!Drop

\* RescheduleStaleJobs recovers all that is lost: nobody holds a job yet.
LEMMA RescheduleMaps ==
    ASSUME QueueInv, QueueInv', ~EarlyTick, RescheduleStaleJobs
    PROVE  Lifecycle!Recover
  <1>1. TypeOK /\ TypeOK'
    BY DEF QueueInv
  <1>2. \A w \in Workers : wjob[w] = NoJob
    BY <1>1, NobodyEarly DEF RescheduleStaleJobs, QueueInv, RunnerInv, ClaimInv, TypeOK
  <1>3. /\ wjob' = wjob
        /\ \A j \in JobIds : status'[j] = IF status[j] = "Running" THEN "Scheduled" ELSE status[j]
    BY DEF RescheduleStaleJobs, pool
  <1>4. \A j \in JobIds : ~HeldBySome(j)
    BY <1>2, QueueAssumption DEF HeldBySome
  <1>5. ASSUME NEW j \in JobIds
        PROVE  lifecycle'[j] = IF j \in JobIds /\ lifecycle[j] \in {"lost"} THEN "queued"
                               ELSE lifecycle[j]
    <2>1. CASE status[j] = "Running"
      BY <1>1, <1>3, <1>4, <2>1, LifecycleIs, LifecycleIsNext
    <2>2. CASE status[j] # "Running"
      <3>1. lifecycle'[j] = lifecycle[j]
        BY <1>3, <2>2, OthersUnseen DEF HeldBySome
      <3>2. lifecycle[j] # "lost"
        BY <1>1, <2>2, LifecycleIs DEF TypeOK, JobStatus, Terminal
      <3>3. QED
        BY <3>1, <3>2
    <2>3. QED
      BY <2>1, <2>2
  <1>6. QED
    BY <1>1, <1>5, ManyMove DEF Lifecycle!Recover

\* The end of the process loses what runners were working on.
LEMMA ExitMaps == ASSUME QueueInv, QueueInv', Exit PROVE Lifecycle!LoseAll
  <1>1. TypeOK /\ TypeOK'
    BY DEF QueueInv
  <1>2. status' = status /\ \A w \in Workers : wjob'[w] = NoJob
    BY DEF Exit, table
  <1>3. \A j \in JobIds : HeldBySome(j)' = FALSE
    BY <1>2, QueueAssumption DEF HeldBySome
  <1>4. ASSUME NEW j \in JobIds
        PROVE  lifecycle'[j] = IF j \in JobIds /\ lifecycle[j] \in {"active"} THEN "lost"
                               ELSE lifecycle[j]
    <2>1. CASE status[j] = "Running"
      BY <1>1, <1>2, <1>3, <2>1, LifecycleIs, LifecycleIsNext
    <2>2. CASE status[j] # "Running"
      <3>1. lifecycle'[j] = lifecycle[j]
        BY <1>1, <1>2, <2>2, LifecycleIs, LifecycleIsNext DEF TypeOK, JobStatus, Terminal
      <3>2. lifecycle[j] # "active"
        BY <1>1, <2>2, LifecycleIs DEF TypeOK, JobStatus, Terminal
      <3>3. QED
        BY <3>1, <3>2
    <2>3. QED
      BY <2>1, <2>2
  <1>5. QED
    BY <1>1, <1>4, ManyMove DEF Lifecycle!LoseAll

\* PopJob claims: the runner that ticks is a free slot.
LEMMA PopJobMaps ==
    ASSUME QueueInv, QueueInv', NEW w \in Workers, NEW j \in JobIds, PopJob(w, j)
    PROVE  Lifecycle!Claim(j)
  <1>1. TypeOK /\ TypeOK'
    BY DEF QueueInv
  <1>2. /\ status[j] = "Scheduled" /\ status'[j] = "Running" /\ wpc[w] = "idle"
        /\ wjob'[w] = j
        /\ \A i \in JobIds : i # j => status'[i] = status[i]
        /\ \A v \in Workers : v # w => wjob'[v] = wjob[v]
    BY <1>1 DEF PopJob, IsOldest, Claimable, TypeOK
  <1>3. HeldBySome(j)'
    BY <1>2 DEF HeldBySome
  <1>4. lifecycle[j] = "queued" /\ lifecycle'[j] = "active"
    BY <1>1, <1>2, <1>3, LifecycleIs, LifecycleIsNext
  <1>5. wjob[w] = NoJob
    BY <1>2 DEF QueueInv, RunnerInv
  <1>6. \A i \in JobIds : i # j => (HeldBySome(i)' <=> HeldBySome(i))
    BY <1>2, <1>5, QueueAssumption DEF HeldBySome
  <1>7. \A i \in JobIds : i # j => lifecycle'[i] = lifecycle[i]
    BY <1>2, <1>6, OthersUnseen
  <1>8. Lifecycle!Move(j, "queued", "active")
    BY <1>1, <1>4, <1>7, OneMoves
  <1>9. Cardinality(Lifecycle!In("active")) < Cardinality(Workers)
    BY <1>2, FreeSlot
  <1>10. QED
    BY <1>8, <1>9, Zenon DEF Lifecycle!Claim, Cardinality, Lifecycle!Cardinality

\* A runner that is done with its job is the only one that had it.
LEMMA ReleaseFrees ==
    ASSUME QueueInv, ~EarlyTick, NEW w \in Workers, wpc[w] = "returned", Release(w)
    PROVE  \E j \in JobIds :
             /\ wjob[w] = j /\ status[j] \in {"Running", "Gone"}
             /\ HeldBySome(j) /\ ~HeldBySome(j)'
             /\ \A i \in JobIds : i # j => (HeldBySome(i)' <=> HeldBySome(i))
  <1>1. PICK j \in JobIds : j = wjob[w]
    BY DEF QueueInv, RunnerInv, TypeOK
  <1>2. status[j] \in {"Running", "Gone"}
    BY <1>1, NobodyEarly, QueueAssumption DEF QueueInv, HeldInv
  <1>3. \A v \in Workers : v # w => wjob[v] # j
    BY <1>1, NobodyEarly, QueueAssumption DEF QueueInv, HeldInv
  <1>4. /\ wjob'[w] = NoJob
        /\ \A v \in Workers : v # w => wjob'[v] = wjob[v]
    BY DEF Release, QueueInv, TypeOK
  <1>5. HeldBySome(j) /\ ~HeldBySome(j)'
    BY <1>1, <1>3, <1>4, QueueAssumption DEF HeldBySome
  <1>6. ASSUME NEW i \in JobIds, i # j
        PROVE  HeldBySome(i)' <=> HeldBySome(i)
    BY <1>1, <1>4, <1>6, QueueAssumption DEF HeldBySome
  <1>7. QED
    BY <1>1, <1>2, <1>5, <1>6

\* AckJob finishes the job, unless its row is gone.
LEMMA AckJobMaps ==
    ASSUME QueueInv, QueueInv', ~EarlyTick, NEW w \in Workers, AckJob(w)
    PROVE  (\E j \in JobIds : Lifecycle!Finish(j)) \/ UNCHANGED lifecycle
  <1>1. TypeOK /\ TypeOK'
    BY DEF QueueInv
  <1>2. PICK j \in JobIds :
          /\ wjob[w] = j /\ status[j] \in {"Running", "Gone"}
          /\ HeldBySome(j) /\ ~HeldBySome(j)'
          /\ \A i \in JobIds : i # j => (HeldBySome(i)' <=> HeldBySome(i))
    BY ReleaseFrees DEF AckJob
  <1>3. /\ status'[j] = IF Live(j) THEN wres[w] ELSE status[j]
        /\ \A i \in JobIds : i # j => status'[i] = status[i]
    BY <1>1, <1>2 DEF AckJob, TypeOK
  <1>4. wres[w] \in Terminal
    BY DEF AckJob, QueueInv, RunnerInv
  <1>5. \A i \in JobIds : i # j => lifecycle'[i] = lifecycle[i]
    BY <1>2, <1>3, OthersUnseen
  <1>6. CASE status[j] = "Running"
    <2>1. status'[j] \in {"Success", "Failed"}
      BY <1>3, <1>4, <1>6 DEF Live, JobStatus, Terminal
    <2>2. lifecycle[j] = "active" /\ lifecycle'[j] \in {"ok", "failed"}
      BY <1>1, <1>2, <1>6, <2>1, LifecycleIs, LifecycleIsNext
    <2>3. Lifecycle!Move(j, "active", "ok") \/ Lifecycle!Move(j, "active", "failed")
      BY <1>1, <1>5, <2>2, OneMoves
    <2>4. QED
      BY <2>3 DEF Lifecycle!Finish
  <1>7. CASE status[j] = "Gone"
    <2>1. status'[j] = "Gone"
      BY <1>3, <1>7 DEF Live, JobStatus, Terminal
    <2>2. \A i \in JobIds : lifecycle'[i] = lifecycle[i]
      BY <1>1, <1>5, <1>7, <2>1, LifecycleIs, LifecycleIsNext
    <2>3. QED
      BY <1>1, <2>2, LifecycleIs, LifecycleIsNext
  <1>8. QED
    BY <1>2, <1>6, <1>7

\* A write that fails loses the result, unless the row is gone.
LEMMA AckFailsMaps ==
    ASSUME QueueInv, QueueInv', ~EarlyTick, NEW w \in Workers, AckFails(w)
    PROVE  (\E j \in JobIds : Lifecycle!LoseResult(j)) \/ UNCHANGED lifecycle
  <1>1. TypeOK /\ TypeOK'
    BY DEF QueueInv
  <1>2. PICK j \in JobIds :
          /\ wjob[w] = j /\ status[j] \in {"Running", "Gone"}
          /\ HeldBySome(j) /\ ~HeldBySome(j)'
          /\ \A i \in JobIds : i # j => (HeldBySome(i)' <=> HeldBySome(i))
    BY ReleaseFrees DEF AckFails
  <1>3. status' = status
    BY DEF AckFails, table
  <1>4. \A i \in JobIds : i # j => lifecycle'[i] = lifecycle[i]
    BY <1>2, <1>3, OthersUnseen
  <1>5. CASE status[j] = "Running"
    <2>1. lifecycle[j] = "active" /\ lifecycle'[j] = "lost"
      BY <1>1, <1>2, <1>3, <1>5, LifecycleIs, LifecycleIsNext
    <2>2. Lifecycle!Move(j, "active", "lost")
      BY <1>1, <1>4, <2>1, OneMoves
    <2>3. QED
      BY <2>2 DEF Lifecycle!LoseResult
  <1>6. CASE status[j] = "Gone"
    <2>1. \A i \in JobIds : lifecycle'[i] = lifecycle[i]
      BY <1>1, <1>3, <1>4, <1>6, LifecycleIs, LifecycleIsNext
    <2>2. QED
      BY <1>1, <2>1, LifecycleIs, LifecycleIsNext
  <1>7. QED
    BY <1>2, <1>5, <1>6

\* Every other step goes unseen.
LEMMA StepMaps ==
    ASSUME QueueInv, QueueInv', ~EarlyTick, [Next]_vars
    PROVE  [Lifecycle!Next]_lifecycle
  <1> DEFINE Mapped == [Lifecycle!Next]_lifecycle
  <1>1. ASSUME NEW p \in Schedulers, NEW j \in JobIds, NEW m \in Modules, PushJob(p, j, m)
        PROVE  Mapped
    BY <1>1, PushJobMaps DEF Lifecycle!Next
  <1>2. ASSUME NEW c \in Cases, CaseDelete(c) PROVE Mapped
    BY <1>2, CaseDeleteMaps DEF Lifecycle!Next
  <1>3. ASSUME NEW w \in Workers, NEW j \in JobIds, PopJob(w, j) PROVE Mapped
    BY <1>3, PopJobMaps DEF Lifecycle!Next
  <1>4. ASSUME NEW w \in Workers, AckJob(w) PROVE Mapped
    BY <1>4, AckJobMaps DEF Lifecycle!Next
  <1>5. ASSUME NEW w \in Workers, AckFails(w) PROVE Mapped
    BY <1>5, AckFailsMaps DEF Lifecycle!Next
  <1>6. ASSUME RescheduleStaleJobs PROVE Mapped
    BY <1>6, RescheduleMaps DEF Lifecycle!Next
  <1>7. ASSUME Exit PROVE Mapped
    BY <1>7, ExitMaps DEF Lifecycle!Next
  <1>8. ASSUME NEW p \in Schedulers, ReadCase(p) \/ PushFails(p) PROVE Mapped
    BY <1>8, Unseen DEF ReadCase, PushFails, table, pool
  <1>9. ASSUME NEW w \in Workers, LoadCase(w) \/ ModuleReturns(w) \/ RunnerStops(w) PROVE Mapped
    BY <1>9, Unseen DEF LoadCase, ModuleReturns, RunnerStops, table
  <1>10. ASSUME Boot \/ StartRunners \/ RescheduleFails \/ Cancel \/ UNCHANGED vars PROVE Mapped
    BY <1>10, Unseen DEF Boot, StartRunners, RescheduleFails, Cancel, vars, table, pool
  <1> HIDE DEF Mapped
  <1>11. Mapped
    BY <1>1, <1>2, <1>3, <1>4, <1>5, <1>6, <1>7, <1>8, <1>9, <1>10 DEF Next, Runner
  <1>12. QED
    BY <1>11 DEF Mapped

\* If no runner ticks before the start-up's recovery, the pool and its table
\* implement the queue that JobLifecycle promises: at most one job per runner,
\* one final result, lost work only back through a restart.
THEOREM PoolImplementsLifecycle == ASSUME ~EarlyTick PROVE Spec => ImplementsLifecycle
  <1>1. Init => Lifecycle!Init
    BY DEF Init, Lifecycle!Init, lifecycle
  <1>2. QueueInv /\ QueueInv' /\ [Next]_vars => [Lifecycle!Next]_lifecycle
    BY StepMaps
  <1>3. QED
    BY <1>1, <1>2, QueueInvariant, PTL DEF Spec, ImplementsLifecycle, Lifecycle!Spec
=============================================================================
