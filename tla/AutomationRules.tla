--------------------------- MODULE AutomationRules ---------------------------
(***************************************************************************)
(* The automation-rule engine (internal/modules/automation-rules.go): the  *)
(* rules an administrator saves, the compiled copy in memory, the requests *)
(* whose saves trigger it, and the indicator lookups it schedules          *)
(* (webhook, virustotal) with the enrichments they leave behind.           *)
(*                                                                         *)
(* Everything happens in one case.  The jobs table is JobQueue's; here a   *)
(* job is only scheduled, sent to the outside service, and done.           *)
(***************************************************************************)
EXTENDS Naturals, FiniteSets

CONSTANTS
    RuleIds,     \* keys of the hooks table
    RuleDefs,    \* the rules an administrator may save
    Admins,      \* requests that save or delete a rule, each once
    Start,       \* the start-up, which loads the rules too
    Requests,    \* requests that save an object, each once
    Indicators,  \* indicator ids
    NoRule,
    MaxRestarts  \* bound on process restarts

Kinds    == {"Case", "Evidence", "Indicator"}
Triggers == {"OnEvidenceAdded", "OnIndicatorAdded", "OnCaseAdded", "OnCaseUpdated"}
Levels   == {"RED", "other"}
Modules  == {"Webhook", "VirusTotal"}

Objects == [kind : {"Indicator"}, id : Indicators, tlp : Levels]
             \cup [kind : {"Case", "Evidence"}]

\* holds: the kinds of object on which the condition evaluates to true.  It
\* is compiled for the kind of the trigger but evaluated on every kind.
RuleType == [trigger : Triggers, holds : SUBSET Kinds, module : Modules, enabled : BOOLEAN]

ASSUME RuleAssumption ==
    /\ RuleDefs \subseteq RuleType
    /\ NoRule \notin RuleDefs
    /\ Start \notin Admins
    /\ MaxRestarts \in Nat

VARIABLES
    hooks,        \* the hooks table
    rules,        \* the compiled rules in memory
    lpc, llist,   \* each loader's step, and the rules it has listed
    caseRow,      \* the case exists
    indicators,   \* the ids in the indicators table
    enriched,     \* indicators with an enrichment row
    req,          \* the requests
    jobs,         \* the jobs rules have scheduled
    \* history
    alone,        \* loaders nobody has disturbed since they listed
    stale,        \* the copy comes from a disturbed or failed load
    late,         \* indicators deleted with their case, or before work on
                  \* them was over
    dropped,      \* the case has been deleted
    restarts

ruleVars == <<hooks, rules, lpc, llist, alone, stale>>
objVars  == <<caseRow, indicators, enriched, late, dropped>>
vars     == <<ruleVars, objVars, req, jobs, restarts>>

Loaders == Admins \cup {Start}
Table   == [RuleIds -> RuleDefs \cup {NoRule}]
Empty   == [id \in RuleIds |-> NoRule]
NewReq  == [pc |-> "new", obj |-> [kind |-> "Case"],
            list |-> Empty, todo |-> {}, failed |-> {}]
JobType == [req : Requests, rule : RuleIds, def : RuleDefs, obj : Objects,
            state : {"scheduled", "sent", "detached", "done"}]

TypeOK ==
    /\ hooks \in Table /\ rules \in Table
    /\ lpc \in [Loaders -> {"new", "list", "store", "idle"}]
    /\ llist \in [Loaders -> Table]
    /\ caseRow \in BOOLEAN /\ dropped \in BOOLEAN
    /\ indicators \subseteq Indicators
    /\ enriched \subseteq Indicators /\ late \subseteq Indicators
    /\ req \in [Requests -> [pc : {"new", "saved", "push", "done"}, obj : Objects, list : Table,
                             todo : SUBSET RuleIds, failed : SUBSET RuleIds]]
    /\ jobs \subseteq JobType
    /\ alone \subseteq Loaders /\ stale \in BOOLEAN
    /\ restarts \in Nat

Init ==
    /\ hooks \in Table /\ rules = Empty
    /\ lpc = [l \in Loaders |-> IF l = Start THEN "list" ELSE "new"]
    /\ llist = [l \in Loaders |-> Empty]
    /\ caseRow = TRUE /\ dropped = FALSE
    /\ indicators = {} /\ enriched = {}
    /\ req = [r \in Requests |-> NewReq]
    /\ jobs = {}
    /\ alone = {} /\ stale = FALSE /\ late = {} /\ restarts = 0

-----------------------------------------------------------------------------
(* Saving rules, and loading them into memory.                              *)

Loading == {l \in Loaders : lpc[l] \in {"list", "store"}}

\* AutomationRuleSave, AutomationRuleDelete: the table first.
SaveRule(a) ==
    /\ lpc[a] = "new"
    /\ \E id \in RuleIds, def \in RuleDefs \cup {NoRule} : hooks' = [hooks EXCEPT ![id] = def]
    /\ lpc' = [lpc EXCEPT ![a] = "list"]
    /\ alone' = {}
    /\ UNCHANGED <<rules, llist, stale, objVars, req, jobs, restarts>>

\* What LoadAutomationRules keeps of the table.
Enabled(tab) ==
    [id \in RuleIds |-> IF tab[id] # NoRule /\ tab[id].enabled THEN tab[id] ELSE NoRule]

\* LoadAutomationRules lists the table ...
ListRules(l) ==
    /\ lpc[l] = "list"
    /\ lpc' = [lpc EXCEPT ![l] = "store"]
    /\ llist' = [llist EXCEPT ![l] = Enabled(hooks)]
    /\ alone' = IF Loading = {l} THEN {l} ELSE alone
    /\ UNCHANGED <<hooks, rules, stale, objVars, req, jobs, restarts>>

\* Wrong variant: rules that are gone from the table stay in the copy.
StoreMerged(l) ==
    /\ lpc[l] = "store"
    /\ rules' = [id \in RuleIds |-> IF llist[l][id] = NoRule THEN rules[id] ELSE llist[l][id]]
    /\ stale' = (l \notin alone) /\ alone' = alone \ {l}
    /\ lpc' = [lpc EXCEPT ![l] = "idle"]
    /\ llist' = [llist EXCEPT ![l] = Empty]
    /\ UNCHANGED <<hooks, objVars, req, jobs, restarts>>

\* ... and replaces the copy.
StoreRules(l) ==
    /\ lpc[l] = "store"
    /\ rules' = llist[l]
    /\ stale' = (l \notin alone) /\ alone' = alone \ {l}
    /\ lpc' = [lpc EXCEPT ![l] = "idle"]
    /\ llist' = [llist EXCEPT ![l] = Empty]
    /\ UNCHANGED <<hooks, objVars, req, jobs, restarts>>

\* The list fails: logged, the old copy stays.
ListFails(l) ==
    /\ lpc[l] = "list"
    /\ lpc' = [lpc EXCEPT ![l] = "idle"]
    /\ stale' = TRUE
    /\ UNCHANGED <<hooks, rules, llist, alone, objVars, req, jobs, restarts>>

-----------------------------------------------------------------------------
(* Saving objects, and the rules this triggers.                             *)

\* Supports of the two modules: neither takes a TLP:RED indicator.
Supports(m, obj) ==
    IF obj.kind = "Indicator" THEN obj.tlp # "RED" ELSE m = "Webhook"

\* EvidenceSave, IndicatorSave, CaseSave up to the call of the trigger.  Which
\* event this is the trigger does not get to know: it sees only the object.
SaveObject(r, obj) ==
    /\ req[r].pc = "new"
    /\ caseRow \/ obj.kind = "Case"      \* saving a case brings it back
    /\ caseRow' = TRUE
    /\ IF obj.kind = "Indicator"
       THEN /\ \A q \in Requests : req[q].obj.kind = "Indicator" => req[q].obj.id # obj.id
            /\ indicators' = indicators \cup {obj.id}
       ELSE UNCHANGED indicators
    /\ req' = [req EXCEPT ![r] = [@ EXCEPT !.pc = "saved", !.obj = obj]]
    /\ UNCHANGED <<ruleVars, enriched, late, dropped, jobs, restarts>>

\* The loop of triggerAutomationRules looks at the condition and the module.
Applies(def, obj) == def # NoRule /\ obj.kind \in def.holds /\ Supports(def.module, obj)

Trigger(r) ==
    /\ req[r].pc = "saved"
    /\ caseRow \/ req[r].obj.kind = "Case"
    /\ req' = [req EXCEPT ![r] = [@ EXCEPT !.pc = "push", !.list = rules,
                                   !.todo = {id \in RuleIds : Applies(rules[id], req[r].obj)}]]
    /\ UNCHANGED <<ruleVars, objVars, jobs, restarts>>

\* The object's case can not be loaded: nothing is triggered.
TriggerFails(r) ==
    /\ req[r].pc = "saved" /\ req[r].obj.kind # "Case"
    /\ req' = [req EXCEPT ![r].pc = "done"]
    /\ UNCHANGED <<ruleVars, objVars, jobs, restarts>>

\* One transaction per rule; the job carries a copy of the object, and its
\* case comes back with it (JobQueue, PushJob).
Push(r, id) ==
    /\ req[r].pc = "push" /\ id \in req[r].todo
    /\ jobs' = jobs \cup {[req |-> r, rule |-> id, def |-> req[r].list[id],
                           obj |-> req[r].obj, state |-> "scheduled"]}
    /\ req' = [req EXCEPT ![r].todo = @ \ {id}]
    /\ caseRow' = TRUE
    /\ UNCHANGED <<ruleVars, indicators, enriched, late, dropped, restarts>>

\* Wrong variant: a failing push ends the loop.
PushFailsAndStops(r, id) ==
    /\ req[r].pc = "push" /\ id \in req[r].todo
    /\ req' = [req EXCEPT ![r].todo = {}, ![r].failed = @ \cup {id}]
    /\ UNCHANGED <<ruleVars, objVars, jobs, restarts>>

\* It fails: logged, and the loop goes on.
PushFails(r, id) ==
    /\ req[r].pc = "push" /\ id \in req[r].todo
    /\ req' = [req EXCEPT ![r].todo = @ \ {id}, ![r].failed = @ \cup {id}]
    /\ UNCHANGED <<ruleVars, objVars, jobs, restarts>>

Answer(r) ==
    /\ req[r].pc = "push" /\ req[r].todo = {}
    /\ req' = [req EXCEPT ![r].pc = "done"]
    /\ UNCHANGED <<ruleVars, objVars, jobs, restarts>>

-----------------------------------------------------------------------------
(* Indicators change and go while their jobs wait and run.                  *)

IsFor(obj, i) == obj.kind = "Indicator" /\ obj.id = i

\* A job or a trigger may yet come to indicator i.
Pending(i) ==
    \/ \E j \in jobs : IsFor(j.obj, i) /\ j.state # "done"
    \/ \E r \in Requests : IsFor(req[r].obj, i) /\ req[r].pc # "done"

Created(i) == \E r \in Requests : IsFor(req[r].obj, i)

\* IndicatorSave of an indicator that has its id triggers nothing.  It is an
\* upsert: a form opened before the indicator was deleted brings it back.  Its
\* new level is of no consequence: jobs carry a copy of the object.
SaveAgain(i) ==
    /\ caseRow /\ Created(i)
    /\ indicators' = indicators \cup {i}
    /\ UNCHANGED <<ruleVars, caseRow, enriched, late, dropped, req, jobs, restarts>>

\* Wrong variant: only the row goes.
DeleteIndicatorRow(i) ==
    /\ i \in indicators
    /\ indicators' = indicators \ {i}
    /\ late' = IF Pending(i) THEN late \cup {i} ELSE late
    /\ UNCHANGED <<ruleVars, caseRow, enriched, dropped, req, jobs, restarts>>

\* DeleteIndicator: the row and its enrichments, in one transaction.
DeleteIndicator(i) ==
    /\ i \in indicators
    /\ indicators' = indicators \ {i}
    /\ enriched' = enriched \ {i}
    /\ late' = IF Pending(i) THEN late \cup {i} ELSE late
    /\ UNCHANGED <<ruleVars, caseRow, dropped, req, jobs, restarts>>

\* DeleteCase, once: indicators and jobs cascade, a running module goes on
\* without its row, and enrichments, which have no foreign key, stay.
DeleteCase ==
    /\ caseRow /\ caseRow' = FALSE
    /\ ~dropped /\ dropped' = TRUE
    /\ indicators' = {}
    /\ late' = late \cup {i \in Indicators : i \in indicators \/ Pending(i)}
    /\ jobs' = {[j EXCEPT !.state = "detached"] : j \in {k \in jobs : k.state = "sent"}}
    /\ UNCHANGED <<ruleVars, enriched, req, restarts>>

Become(j, state) == jobs' = (jobs \ {j}) \cup {[j EXCEPT !.state = state]}

\* Run hands the copy of the object to the service.
Send(j) ==
    /\ j.state = "scheduled"
    /\ Become(j, IF Supports(j.def.module, j.obj) THEN "sent" ELSE "done")
    /\ UNCHANGED <<ruleVars, objVars, req, restarts>>

\* Wrong variant: the enrichment is filed under the object instead of its id.
FinishUnderObject(j) ==
    /\ j.state \in {"sent", "detached"}
    /\ Become(j, "done")
    /\ enriched' = IF j.def.module = "VirusTotal" THEN enriched \cup {j.obj} ELSE enriched
    /\ UNCHANGED <<ruleVars, caseRow, indicators, late, dropped, req, restarts>>

\* The answer: VirusTotal stores it whether or not the indicator is there.
Finish(j) ==
    /\ j.state \in {"sent", "detached"}
    /\ Become(j, "done")
    /\ enriched' = IF j.def.module = "VirusTotal" THEN enriched \cup {j.obj.id} ELSE enriched
    /\ UNCHANGED <<ruleVars, caseRow, indicators, late, dropped, req, restarts>>

\* An error status, a timeout, a failing store: the job is over.
RunFails(j) ==
    /\ j.state \in {"sent", "detached"}
    /\ Become(j, "done")
    /\ UNCHANGED <<ruleVars, objVars, req, restarts>>

\* A new process: requests are gone, running jobs start again, and the rules
\* are loaded while requests are already served.
Restart ==
    /\ restarts < MaxRestarts
    /\ restarts' = restarts + 1
    /\ rules' = Empty
    /\ lpc' = [l \in Loaders |-> IF l = Start THEN "list"
                                  ELSE IF lpc[l] = "new" THEN "new" ELSE "idle"]
    /\ llist' = [l \in Loaders |-> Empty]
    /\ alone' = {} /\ stale' = FALSE
    /\ req' = [r \in Requests |-> IF req[r].pc = "new" THEN req[r]
                                  ELSE [NewReq EXCEPT !.pc = "done", !.obj = req[r].obj]]
    /\ jobs' = {IF j.state = "sent" THEN [j EXCEPT !.state = "scheduled"] ELSE j :
                    j \in {k \in jobs : k.state # "detached"}}
    /\ UNCHANGED <<hooks, objVars>>

Next ==
    \/ \E a \in Admins : SaveRule(a)
    \/ \E l \in Loaders : ListRules(l) \/ StoreRules(l) \/ ListFails(l)
    \/ \E r \in Requests :
         \/ \E obj \in Objects : SaveObject(r, obj)
         \/ Trigger(r) \/ TriggerFails(r)
         \/ \E id \in RuleIds : Push(r, id) \/ PushFails(r, id)
         \/ Answer(r)
    \/ \E i \in Indicators : SaveAgain(i) \/ DeleteIndicator(i)
    \/ DeleteCase
    \/ \E j \in jobs : Send(j) \/ Finish(j) \/ RunFails(j)
    \/ Restart

Spec == Init /\ [][Next]_vars

-----------------------------------------------------------------------------
(* Properties.                                                              *)

\* Once no load is under way, the rules in memory are the enabled rules of
\* the table, unless the last load failed or had company: a later load that
\* runs alone repairs what overlapping ones left (LoadAutomationRules).
LoadedRulesAreCurrent == Loading = {} /\ ~stale => rules = Enabled(hooks)

\* A rule whose push fails does not cost the others theirs: when the loop has
\* run, every rule that applied has its job or its own failure, unless the
\* case was deleted (triggerAutomationRules, "continue").
EveryMatchIsScheduled ==
    ~dropped => \A r \in Requests : req[r].pc = "done" =>
        \A id \in RuleIds :
            Applies(req[r].list[id], req[r].obj) =>
                id \in req[r].failed \/ \E j \in jobs : j.req = r /\ j.rule = id

\* An enrichment outlives its indicator only if the indicator went with its
\* case, or while a lookup or a trigger was pending (DeleteIndicator,
\* DeleteCase, SetEnrichment).
EnrichmentsHaveIndicators == \A i \in enriched : i \in indicators \/ i \in late
=============================================================================
