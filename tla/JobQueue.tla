------------------------------ MODULE JobQueue ------------------------------
(***************************************************************************)
(* The persistent job queue (internal/model/modules.go) and the pool of    *)
(* goroutines that drains it (internal/modules/runner.go), together with   *)
(* everything that reaches them concurrently: request handlers and running *)
(* modules that schedule jobs, case deletion, SIGTERM, crash and restart.  *)
(*                                                                         *)
(* One atomic action per SQL statement or transaction; what a goroutine    *)
(* remembers between two of them is in wpc/wjob/wres and req and is lost   *)
(* when the process exits.  The tables survive.                            *)
(***************************************************************************)
EXTENDS Naturals, FiniteSets

CONSTANTS
    JobIds,       \* primary keys; fp.Random(10) never repeats one
    Workers,      \* the DAGOBERT_WORKERS pool goroutines
    Clients,      \* concurrent HTTP requests that schedule a job
    Cases,        \* case ids
    Modules,      \* the registered modules (runner.go, Register)
    AlwaysValid,  \* modules whose Validate never fails (Webhook)
    EarlyTick,    \* TRUE: a runner's first tick may precede the end of Start
    MaxExits,     \* bound on process exits
    NoJob, NoCase

ASSUME QueueAssumption ==
    /\ IsFiniteSet(JobIds) /\ IsFiniteSet(Workers)
    /\ AlwaysValid \subseteq Modules
    /\ EarlyTick \in BOOLEAN
    /\ MaxExits \in Nat
    /\ NoJob \notin JobIds
    /\ NoCase \notin Cases

VARIABLES
    \* the jobs table: "Unused" before PushJob, "Gone" once the row is deleted
    status, module, kase, rowid,
    cases,        \* ids in the cases table
    \* the process
    phase,        \* "down", "booting", "spawned" (runners started), "serving"
    cancelled,    \* the shutdown context is done
    avail,        \* modules that validated at start: what runners ask for
    \* the pool: what each runner goroutine is doing
    wpc, wjob, wres,
    req,          \* the Case value a scheduler read and has not used yet
    \* history
    claims,       \* times PopJob returned a job in this life of the process
    early,        \* jobs popped before RescheduleStaleJobs in this life
    stranded,     \* jobs left Running because a status write failed
    exits

table == <<status, module, kase, rowid, cases>>
proc  == <<phase, cancelled, avail>>
pool  == <<wpc, wjob, wres>>
hist  == <<claims, early, stranded, exits>>
vars  == <<table, proc, pool, req, hist>>

Schedulers == Clients \cup Workers
Rowids     == 1..Cardinality(JobIds)
Terminal   == {"Failed", "Success"}
JobStatus  == {"Scheduled", "Running"} \cup Terminal

TypeOK ==
    /\ status \in [JobIds -> JobStatus \cup {"Unused", "Gone"}]
    /\ module \in [JobIds -> Modules \cup {NoJob}]
    /\ kase \in [JobIds -> Cases \cup {NoCase}]
    /\ rowid \in [JobIds -> Nat]
    /\ cases \subseteq Cases
    /\ phase \in {"down", "booting", "spawned", "serving"}
    /\ cancelled \in BOOLEAN
    /\ avail \subseteq Modules
    /\ wpc \in [Workers -> {"off", "idle", "claimed", "running", "returned"}]
    /\ wjob \in [Workers -> JobIds \cup {NoJob}]
    /\ wres \in [Workers -> Terminal \cup {"none"}]
    /\ req \in [Schedulers -> Cases \cup {NoCase}]
    /\ claims \in [JobIds -> Nat]
    /\ early \subseteq JobIds
    /\ stranded \subseteq JobIds
    /\ exits \in Nat

Live(j)      == status[j] \in JobStatus          \* the row exists
HeldBySome(j) == \E w \in Workers : wjob[w] = j

Init ==
    /\ status = [j \in JobIds |-> "Unused"]
    /\ module = [j \in JobIds |-> NoJob]
    /\ kase = [j \in JobIds |-> NoCase]
    /\ rowid = [j \in JobIds |-> 0]
    /\ cases = Cases
    /\ phase = "down" /\ cancelled = FALSE /\ avail = {}
    /\ wpc = [w \in Workers |-> "off"]
    /\ wjob = [w \in Workers |-> NoJob]
    /\ wres = [w \in Workers |-> "none"]
    /\ req = [p \in Schedulers |-> NoCase]
    /\ claims = [j \in JobIds |-> 0]
    /\ early = {} /\ stranded = {} /\ exits = 0

-----------------------------------------------------------------------------
(* Scheduling: ScheduleModule for a request, triggerAutomationRules for a   *)
(* request or for a running module that adds evidence.                      *)

\* The scheduler loads the case the job belongs to.
ReadCase(p) ==
    /\ phase # "down"
    /\ req[p] = NoCase
    /\ \E c \in cases :
         /\ \/ p \in Clients /\ ~cancelled
            \/ p \in Workers /\ wpc[p] = "running" /\ c = kase[wjob[p]]
         /\ req' = [req EXCEPT ![p] = c]
    /\ UNCHANGED <<table, proc, pool, hist>>

\* SQLite gives a new row the largest rowid of the table plus one.
IsNextRowid(n) ==
    /\ \A j \in JobIds : Live(j) => rowid[j] < n
    /\ n = 1 \/ \E j \in JobIds : Live(j) /\ rowid[j] = n - 1

\* Saving a job saves its Case association first: the case row is inserted
\* if it is not there, whatever happened to it since ReadCase.
PushJob(p, j, m) ==
    /\ req[p] # NoCase
    /\ status[j] = "Unused"
    /\ \E n \in Rowids :
         /\ IsNextRowid(n)
         /\ rowid' = [rowid EXCEPT ![j] = n]
    /\ status' = [status EXCEPT ![j] = "Scheduled"]
    /\ module' = [module EXCEPT ![j] = m]
    /\ kase' = [kase EXCEPT ![j] = req[p]]
    /\ cases' = cases \cup {req[p]}
    /\ req' = [req EXCEPT ![p] = NoCase]
    /\ UNCHANGED <<proc, pool, hist>>

\* The transaction around PushJob fails and is rolled back.
PushFails(p) ==
    /\ req[p] # NoCase
    /\ req' = [req EXCEPT ![p] = NoCase]
    /\ UNCHANGED <<table, proc, pool, hist>>

\* Wrong variant: the jobs of a deleted case stay.
CaseDeleteNoCascade(c) ==
    /\ phase # "down"
    /\ c \in cases
    /\ cases' = cases \ {c}
    /\ UNCHANGED <<status, module, kase, rowid, proc, pool, req, hist>>

\* The foreign key of jobs cascades: the case's jobs go with it.
CaseDelete(c) ==
    /\ phase # "down"
    /\ c \in cases
    /\ cases' = cases \ {c}
    /\ status' = [j \in JobIds |->
                    IF Live(j) /\ kase[j] = c THEN "Gone" ELSE status[j]]
    /\ UNCHANGED <<module, kase, rowid, proc, pool, req, hist>>

-----------------------------------------------------------------------------
(* The life of the process.                                                 *)

Boot ==
    /\ phase = "down"
    /\ phase' = "booting"
    /\ UNCHANGED <<table, cancelled, avail, pool, req, hist>>

\* Start validates every module, then launches the runners ...
StartRunners ==
    /\ phase = "booting"
    /\ \E a \in SUBSET Modules : AlwaysValid \subseteq a /\ a # {} /\ avail' = a
    /\ phase' = "spawned"
    /\ wpc' = [w \in Workers |-> "idle"]
    /\ UNCHANGED <<table, cancelled, wjob, wres, req, hist>>

\* Wrong variants: every unfinished or failed job is made available again;
\* nothing is.
RescheduleFailedToo ==
    /\ phase = "spawned"
    /\ phase' = "serving"
    /\ status' = [j \in JobIds |->
                    IF status[j] \in {"Running", "Failed"} THEN "Scheduled" ELSE status[j]]
    /\ stranded' = {}
    /\ UNCHANGED <<module, kase, rowid, cases, cancelled, avail, pool, req,
                   claims, early, exits>>

RescheduleNothing ==
    /\ phase = "spawned"
    /\ phase' = "serving"
    /\ stranded' = {}
    /\ UNCHANGED <<table, cancelled, avail, pool, req, claims, early, exits>>

\* ... and only then makes the stale jobs of the previous life available.
RescheduleStaleJobs ==
    /\ phase = "spawned"
    /\ phase' = "serving"
    /\ status' = [j \in JobIds |->
                    IF status[j] = "Running" THEN "Scheduled" ELSE status[j]]
    /\ stranded' = {}
    /\ UNCHANGED <<module, kase, rowid, cases, cancelled, avail, pool, req,
                   claims, early, exits>>

\* A failure of that statement is logged and otherwise ignored.
RescheduleFails ==
    /\ phase = "spawned"
    /\ phase' = "serving"
    /\ stranded' = {j \in JobIds : status[j] = "Running" /\ ~HeldBySome(j)}
    /\ UNCHANGED <<table, cancelled, avail, pool, req, claims, early, exits>>

\* SIGTERM cancels the context the runners and the modules watch.
Cancel ==
    /\ phase # "down" /\ ~cancelled
    /\ exits < MaxExits
    /\ cancelled' = TRUE
    /\ UNCHANGED <<table, phase, avail, pool, req, hist>>

\* The process ends, by a crash or because the server has shut down: nobody
\* waits for the runners.  Everything in memory is lost.
Exit ==
    /\ phase # "down"
    /\ exits < MaxExits
    /\ exits' = exits + 1
    /\ phase' = "down" /\ cancelled' = FALSE /\ avail' = {}
    /\ wpc' = [w \in Workers |-> "off"]
    /\ wjob' = [w \in Workers |-> NoJob]
    /\ wres' = [w \in Workers |-> "none"]
    /\ req' = [p \in Schedulers |-> NoCase]
    /\ claims' = [j \in JobIds |-> 0]
    /\ early' = {}
    /\ UNCHANGED <<table, stranded>>

-----------------------------------------------------------------------------
(* One iteration of a runner's loop.                                        *)

\* Wrong variant: the claim does not look at the status it replaces.
ClaimableAnyActive(j) == status[j] \in {"Scheduled", "Running"} /\ module[j] \in avail

\* The rows PopJob selects from, and the one it takes: min(rowid).
Claimable(j) == status[j] = "Scheduled" /\ module[j] \in avail

IsOldest(j) ==
    /\ Claimable(j)
    /\ \A k \in JobIds : Claimable(k) => rowid[j] <= rowid[k]

\* A tick of a cancelled context may still win the select.
Ticks == phase = "serving" \/ (EarlyTick /\ phase = "spawned")

PopJob(w, j) ==
    /\ Ticks
    /\ wpc[w] = "idle"
    /\ IsOldest(j)
    /\ status' = [status EXCEPT ![j] = "Running"]
    /\ wpc' = [wpc EXCEPT ![w] = "claimed"]
    /\ wjob' = [wjob EXCEPT ![w] = j]
    /\ claims' = [claims EXCEPT ![j] = @ + 1]
    /\ early' = IF phase = "spawned" THEN early \cup {j} ELSE early
    /\ UNCHANGED <<module, kase, rowid, cases, proc, wres, req, stranded, exits>>

\* GetCase fails the job when its case is gone.
LoadCase(w) ==
    /\ wpc[w] = "claimed"
    /\ IF kase[wjob[w]] \in cases
       THEN /\ wpc' = [wpc EXCEPT ![w] = "running"]
            /\ UNCHANGED wres
       ELSE /\ wpc' = [wpc EXCEPT ![w] = "returned"]
            /\ wres' = [wres EXCEPT ![w] = "Failed"]
    /\ UNCHANGED <<table, proc, wjob, req, hist>>

\* Wrong variant: a panic ends the goroutine.
ModulePanicKills(w) ==
    /\ wpc[w] = "running"
    /\ req[w] = NoCase
    /\ \/ \E r \in Terminal : /\ wres' = [wres EXCEPT ![w] = r]
                              /\ wpc' = [wpc EXCEPT ![w] = "returned"]
                              /\ UNCHANGED wjob
       \/ /\ wpc' = [wpc EXCEPT ![w] = "off"]
          /\ wjob' = [wjob EXCEPT ![w] = NoJob]
          /\ UNCHANGED wres
    /\ UNCHANGED <<table, proc, req, hist>>

\* Run returns nil, returns an error or panics; a panic is recovered.
ModuleReturns(w) ==
    /\ wpc[w] = "running"
    /\ req[w] = NoCase
    /\ \E r \in Terminal : wres' = [wres EXCEPT ![w] = r]
    /\ wpc' = [wpc EXCEPT ![w] = "returned"]
    /\ UNCHANGED <<table, proc, wjob, req, hist>>

\* The runner is ready for its next tick.
Release(w) ==
    /\ wpc' = [wpc EXCEPT ![w] = "idle"]
    /\ wjob' = [wjob EXCEPT ![w] = NoJob]
    /\ wres' = [wres EXCEPT ![w] = "none"]

\* Wrong variant: the outcome is saved as PushJob saves, which brings a
\* deleted row back.
AckJobUpserts(w) ==
    /\ wpc[w] = "returned"
    /\ status' = [status EXCEPT ![wjob[w]] = wres[w]]
    /\ cases' = cases \cup {kase[wjob[w]]}
    /\ Release(w)
    /\ UNCHANGED <<module, kase, rowid, proc, req, hist>>

\* An UPDATE by id: no matter what the row's status is, and without effect
\* if the row is gone.
AckJob(w) ==
    /\ wpc[w] = "returned"
    /\ status' = [status EXCEPT ![wjob[w]] = IF Live(wjob[w]) THEN wres[w] ELSE @]
    /\ Release(w)
    /\ UNCHANGED <<module, kase, rowid, cases, proc, req, hist>>

\* The UPDATE fails: logged, and the row keeps its status.
AckFails(w) ==
    /\ wpc[w] = "returned"
    /\ stranded' = stranded \cup {wjob[w]}
    /\ Release(w)
    /\ UNCHANGED <<table, proc, req, claims, early, exits>>

\* ctx.Done wins the select.
RunnerStops(w) ==
    /\ cancelled
    /\ wpc[w] = "idle"
    /\ wpc' = [wpc EXCEPT ![w] = "off"]
    /\ UNCHANGED <<table, proc, wjob, wres, req, hist>>

Runner(w) == \/ \E j \in JobIds : PopJob(w, j)
             \/ LoadCase(w)
             \/ ModuleReturns(w)
             \/ AckJob(w)

Next ==
    \/ \E p \in Schedulers :
         \/ ReadCase(p)
         \/ \E j \in JobIds, m \in Modules : PushJob(p, j, m)
         \/ PushFails(p)
    \/ \E c \in Cases : CaseDelete(c)
    \/ Boot \/ StartRunners \/ RescheduleStaleJobs \/ RescheduleFails
    \/ Cancel \/ Exit
    \/ \E w \in Workers : Runner(w) \/ AckFails(w) \/ RunnerStops(w)

Spec == Init /\ [][Next]_vars

\* A runner keeps ticking, a module run returns and schedules finitely many
\* jobs, start-up completes, a cancelled server exits and is started again.
Fairness ==
    /\ \A w \in Workers :
         /\ WF_vars(\E j \in JobIds : PopJob(w, j))
         /\ WF_vars(LoadCase(w))
         /\ SF_vars(ModuleReturns(w))
         /\ WF_vars(AckJob(w))
         /\ WF_vars(PushFails(w))
    /\ WF_vars(Boot)
    /\ WF_vars(StartRunners)
    /\ WF_vars(RescheduleStaleJobs)
    /\ WF_vars(cancelled /\ Exit)

FairSpec == Spec /\ Fairness

-----------------------------------------------------------------------------
(* Properties.                                                              *)

\* One life of the process hands a job out at most once; only a job popped
\* before the start-up's RescheduleStaleJobs can be handed out again, and
\* then once more (PopJob, RescheduleStaleJobs, Start).
ClaimedOncePerLife ==
    \A j \in JobIds : claims[j] <= IF j \in early THEN 2 ELSE 1

\* Two runners never work on the same job (comment on PopJob): fails for a
\* job that is popped while Start has yet to run RescheduleStaleJobs.
NoDoubleClaim ==
    \A v, w \in Workers : v # w /\ wjob[v] # NoJob => wjob[v] # wjob[w]

\* Once start-up is over, a job shown as Running is being worked on, unless
\* a write of its status failed: neither a panic, an error, a deleted case
\* nor a shutdown strands it (runner, AckJob, RescheduleStaleJobs).
RunningIsHeld ==
    phase = "serving" =>
        \A j \in JobIds : status[j] = "Running" => HeldBySome(j) \/ j \in stranded

\* A result, once recorded, is not overwritten by a late answer of another
\* runner nor by a restart, except for the jobs ClaimedOncePerLife excepts.
ResultIsFinal ==
    [][\A j \in JobIds : status[j] \in Terminal /\ j \notin early
                            => status'[j] \in {status[j], "Gone"}]_vars

\* No job outlives its case, though a scheduler may save a job for a case
\* deleted after it was read (PushJob, CaseDelete, runner).
JobsHaveCase == \A j \in JobIds : Live(j) => kase[j] \in cases

\* Every job of a module the pool runs gets a result in the end, across
\* crashes, restarts and lost requests, unless its case is deleted or a
\* status write fails.
JobsSettle ==
    \A j \in JobIds :
        <>[](\/ status[j] \in Terminal \cup {"Unused", "Gone"}
             \/ module[j] \notin avail
             \/ j \in stranded)

-----------------------------------------------------------------------------
(* The queue as its users see it.                                           *)

lifecycle == [j \in JobIds |->
    CASE status[j] = "Unused"    -> "none"
      [] status[j] = "Scheduled" -> "queued"
      [] status[j] = "Running"   -> IF HeldBySome(j) THEN "active" ELSE "lost"
      [] status[j] = "Success"   -> "ok"
      [] status[j] = "Failed"    -> "failed"
      [] status[j] = "Gone"      -> "gone"]

Lifecycle == INSTANCE JobLifecycle
    WITH Jobs <- JobIds, Slots <- Cardinality(Workers), state <- lifecycle

\* Without early ticks the pool and its table implement JobLifecycle: at
\* most one slot per runner, one final result, lost work only requeued by
\* a restart, deleted jobs gone for good.
ImplementsLifecycle == Lifecycle!Spec
=============================================================================
