------------------------ MODULE AutomationRulesProofs ------------------------
(***************************************************************************)
(* Proofs about AutomationRules, for any number of rules, administrators,  *)
(* requests, indicators and restarts.                                      *)
(*                                                                         *)
(* The four parts of the inductive invariant follow an object through the  *)
(* engine: LoadInv says what a loader that nobody disturbs knows, ReqInv   *)
(* what a request remembers, ScheduleInv where each rule that applied has  *)
(* gone, and LookupInv why a lookup still under way may leave an           *)
(* enrichment behind.                                                      *)
(***************************************************************************)
EXTENDS AutomationRules, TLAPS

\* A loader nobody has disturbed is the only one, and its list is the table.
LoadInv ==
    /\ \A l \in alone :
         /\ lpc[l] \in {"store", "idle"} /\ Loading \subseteq {l}
         /\ lpc[l] = "store" => llist[l] = Enabled(hooks)
    /\ LoadedRulesAreCurrent

\* What is still to be pushed applies; before the trigger nothing is listed.
ReqInv ==
    \A r \in Requests :
        /\ req[r].pc = "new" => req[r] = NewReq
        /\ req[r].pc = "saved" => req[r].list = Empty
        /\ req[r].pc = "done" => req[r].todo = {}
        /\ \A id \in req[r].todo : Applies(req[r].list[id], req[r].obj)

Scheduled(r, id) == \E j \in jobs : j.req = r /\ j.rule = id

\* A rule that applied is still to be pushed, has failed or has its job; jobs
\* are lost only after their case was deleted under them.
ScheduleInv ==
    /\ ~dropped => \A r \in Requests, id \in RuleIds :
         Applies(req[r].list[id], req[r].obj) =>
             id \in req[r].todo \/ id \in req[r].failed \/ Scheduled(r, id)
    /\ \A j \in jobs : j.state = "detached" => dropped

\* While a lookup or a trigger may come to an indicator, this is there or late.
LookupInv ==
    /\ \A j \in jobs : j.state \in {"sent", "detached"} => Supports(j.def.module, j.obj)
    /\ \A i \in Indicators : Pending(i) => i \in indicators \/ i \in late
    /\ EnrichmentsHaveIndicators

RulesInv == TypeOK /\ LoadInv /\ ReqInv /\ ScheduleInv /\ LookupInv

-----------------------------------------------------------------------------
(* What the parts depend on.                                               *)

\* What a request remembers.
ReqType == [pc : {"new", "saved", "push", "done"},
            obj : Objects, list : Table, todo : SUBSET RuleIds, failed : SUBSET RuleIds]

\* Every request is such a record.
LEMMA ReqTyped == TypeOK => req \in [Requests -> ReqType]
  BY DEF TypeOK, ReqType

\* No rule applies where there is none.
LEMMA NothingApplies == \A id \in RuleIds : \A obj : ~Applies(Empty[id], obj)
  BY DEF Applies, Empty

\* A request remembers nothing before it has begun.
LEMMA NewReqFields ==
    /\ NewReq.pc = "new" /\ NewReq.list = Empty /\ NewReq.todo = {} /\ NewReq.failed = {}
    /\ NewReq.obj = [kind |-> "Case"] /\ NewReq.obj.kind = "Case"
  BY DEF NewReq

\* LoadInv is about the rules and their loaders.
LEMMA LoadKept == ASSUME LoadInv, UNCHANGED ruleVars PROVE LoadInv'
  BY DEF LoadInv, LoadedRulesAreCurrent, Loading, ruleVars

\* ReqInv is about the requests.
LEMMA ReqKept == ASSUME ReqInv, UNCHANGED req PROVE ReqInv'
  BY DEF ReqInv

\* ScheduleInv is about the requests, the jobs and the case.
LEMMA ScheduleKept == ASSUME ScheduleInv, UNCHANGED <<req, jobs, dropped>> PROVE ScheduleInv'
  BY DEF ScheduleInv, Scheduled

\* LookupInv is about the indicators, the jobs and the requests.
LEMMA LookupKept ==
    ASSUME LookupInv, UNCHANGED <<indicators, enriched, late, req, jobs>> PROVE LookupInv'
  BY DEF LookupInv, Pending, IsFor, EnrichmentsHaveIndicators

\* The invariant holds initially.
LEMMA InitRules == Init => RulesInv
<1> SUFFICES ASSUME Init PROVE RulesInv
  OBVIOUS
<1> USE RuleAssumption DEF Init
<1>1. TypeOK
  BY DEF TypeOK, Table, Empty, Loaders, NewReq, Objects, Kinds
<1>2. LoadInv
  BY DEF LoadInv, LoadedRulesAreCurrent, Loading, Loaders
<1>3. ReqInv
  BY DEF ReqInv, NewReq
<1>4. ScheduleInv
  BY NothingApplies DEF ScheduleInv, NewReq
<1>5. LookupInv
  BY DEF LookupInv, Pending, IsFor, EnrichmentsHaveIndicators, NewReq
<1> QED BY <1>1, <1>2, <1>3, <1>4, <1>5 DEF RulesInv

-----------------------------------------------------------------------------
(* Saving and loading rules.                                               *)

\* What is loaded is a table of rules.
LEMMA EnabledType == \A tab \in Table : Enabled(tab) \in Table
  BY DEF Enabled, Table

\* A saved rule disturbs every load.
LEMMA SaveRuleKeeps == ASSUME RulesInv, NEW a \in Admins, SaveRule(a) PROVE RulesInv'
<1> USE DEF SaveRule, RulesInv
<1>1. TypeOK'
  BY DEF TypeOK, Table, Loaders, objVars
<1>2. a \in Loading'
  BY DEF Loading, Loaders, TypeOK
<1>3. LoadInv'
  BY <1>2 DEF LoadInv, LoadedRulesAreCurrent
<1> QED BY <1>1, <1>3, ReqKept, ScheduleKept, LookupKept DEF objVars

\* A loader that lists alone has the rules of the table.
LEMMA ListRulesKeeps == ASSUME RulesInv, NEW l \in Loaders, ListRules(l) PROVE RulesInv'
<1> USE DEF ListRules, RulesInv
<1>1. TypeOK'
  BY EnabledType DEF TypeOK, objVars
<1>2. Loading' = Loading /\ l \in Loading
  BY DEF Loading, TypeOK
<1>3. LoadInv'
  BY <1>2 DEF LoadInv, LoadedRulesAreCurrent, TypeOK
<1> QED BY <1>1, <1>3, ReqKept, ScheduleKept, LookupKept DEF objVars

\* What it stores is what the table still says.
LEMMA StoreRulesKeeps == ASSUME RulesInv, NEW l \in Loaders, StoreRules(l) PROVE RulesInv'
<1> USE DEF StoreRules, RulesInv
<1>1. TypeOK'
  BY DEF TypeOK, objVars, Empty, Table
<1>2. Loading' = Loading \ {l}
  BY DEF Loading, TypeOK
<1>3. LoadInv'
  BY <1>2 DEF LoadInv, LoadedRulesAreCurrent, TypeOK
<1> QED BY <1>1, <1>3, ReqKept, ScheduleKept, LookupKept DEF objVars

\* A load that fails leaves a copy that may be stale.
LEMMA ListFailsKeeps == ASSUME RulesInv, NEW l \in Loaders, ListFails(l) PROVE RulesInv'
<1> USE DEF ListFails, RulesInv
<1>1. TypeOK'
  BY DEF TypeOK, objVars
<1>2. Loading' = Loading \ {l}
  BY DEF Loading, TypeOK
<1>3. LoadInv'
  BY <1>2 DEF LoadInv, LoadedRulesAreCurrent, TypeOK
<1> QED BY <1>1, <1>3, ReqKept, ScheduleKept, LookupKept DEF objVars

-----------------------------------------------------------------------------
(* Requests and the rules they trigger.                                    *)

\* A saved object: its indicator is there.
LEMMA SaveObjectKeeps ==
    ASSUME RulesInv, NEW r \in Requests, NEW obj \in Objects, SaveObject(r, obj)
    PROVE  RulesInv'
<1> USE DEF RulesInv
<1>1. req[r].list = Empty /\ req[r].todo = {} /\ req[r].failed = {}
  BY NewReqFields DEF SaveObject, ReqInv
<1>2. /\ req'[r].pc = "saved" /\ req'[r].obj = obj /\ req'[r].list = Empty
      /\ req'[r].todo = {} /\ req'[r].failed = {}
      /\ \A q \in Requests : q # r => req'[q] = req[q]
  BY <1>1 DEF SaveObject, TypeOK
<1>3. TypeOK'
  <2>1. [req[r] EXCEPT !.pc = "saved", !.obj = obj] \in ReqType
    BY ReqTyped DEF ReqType
  <2>2. req' \in [Requests -> ReqType]
    BY <2>1, ReqTyped DEF SaveObject
  <2>3. indicators' \subseteq Indicators
    BY DEF SaveObject, TypeOK, Objects
  <2> QED BY <2>2, <2>3 DEF SaveObject, TypeOK, ReqType, ruleVars
<1>4. ReqInv'
  BY <1>2 DEF ReqInv
<1>5. ScheduleInv'
  BY <1>2, NothingApplies DEF SaveObject, ScheduleInv, Scheduled
<1>6. LookupInv'
  <2>1. indicators \subseteq indicators'
    BY DEF SaveObject
  <2>2. obj.kind = "Indicator" => obj.id \in indicators'
    BY DEF SaveObject
  <2>3. \A i \in Indicators : Pending(i)' => Pending(i) \/ IsFor(obj, i)
    BY <1>2 DEF SaveObject, Pending
  <2> QED BY <2>1, <2>2, <2>3 DEF SaveObject, LookupInv, IsFor, EnrichmentsHaveIndicators, TypeOK
<1> QED BY <1>3, <1>4, <1>5, <1>6, LoadKept DEF SaveObject

\* The trigger lists what applies of the rules in memory.
LEMMA TriggerKeeps == ASSUME RulesInv, NEW r \in Requests, Trigger(r) PROVE RulesInv'
<1> USE DEF RulesInv
<1>1. /\ req'[r].pc = "push" /\ req'[r].obj = req[r].obj /\ req'[r].list = rules
      /\ req'[r].todo = {id \in RuleIds : Applies(rules[id], req[r].obj)}
      /\ req'[r].failed = req[r].failed
      /\ \A q \in Requests : q # r => req'[q] = req[q]
  BY DEF Trigger, TypeOK
<1>2. TypeOK'
  <2> DEFINE todo == {id \in RuleIds : Applies(rules[id], req[r].obj)}
  <2>1. todo \in SUBSET RuleIds /\ rules \in Table
    BY DEF TypeOK
  <2> HIDE DEF todo
  <2>2. [req[r] EXCEPT !.pc = "push", !.list = rules, !.todo = todo] \in ReqType
    BY <2>1, ReqTyped DEF ReqType
  <2>3. req' = [req EXCEPT ![r] = [@ EXCEPT !.pc = "push", !.list = rules, !.todo = todo]]
    BY DEF Trigger, todo
  <2>4. req' \in [Requests -> ReqType]
    BY <2>2, <2>3, ReqTyped
  <2> QED BY <2>4 DEF Trigger, TypeOK, ReqType, ruleVars, objVars
<1>3. ReqInv'
  BY <1>1 DEF ReqInv
<1>4. ScheduleInv'
  BY <1>1 DEF Trigger, ScheduleInv, Scheduled, objVars
<1>5. LookupInv'
  <2>1. \A i \in Indicators : Pending(i)' => Pending(i)
    BY <1>1 DEF Trigger, Pending
  <2> QED BY <2>1 DEF Trigger, LookupInv, EnrichmentsHaveIndicators, objVars
<1> QED BY <1>2, <1>3, <1>4, <1>5, LoadKept DEF Trigger

\* A trigger that fails lists nothing.
LEMMA TriggerFailsKeeps == ASSUME RulesInv, NEW r \in Requests, TriggerFails(r) PROVE RulesInv'
<1> USE DEF RulesInv
<1>1. /\ req'[r].pc = "done" /\ req'[r].obj = req[r].obj /\ req'[r].list = req[r].list
      /\ req'[r].todo = req[r].todo /\ req'[r].failed = req[r].failed
      /\ \A q \in Requests : q # r => req'[q] = req[q]
  BY DEF TriggerFails, TypeOK
<1>2. TypeOK'
  BY DEF TriggerFails, TypeOK, ruleVars, objVars
<1>3. req[r].todo = {}
  BY NothingApplies DEF TriggerFails, ReqInv, TypeOK
<1>4. ReqInv'
  BY <1>1, <1>3 DEF ReqInv
<1>5. ScheduleInv'
  BY <1>1 DEF TriggerFails, ScheduleInv, Scheduled, objVars
<1>6. LookupInv'
  <2>1. \A i \in Indicators : Pending(i)' => Pending(i)
    BY <1>1 DEF TriggerFails, Pending
  <2> QED BY <2>1 DEF TriggerFails, LookupInv, EnrichmentsHaveIndicators, objVars
<1> QED BY <1>2, <1>4, <1>5, <1>6, LoadKept DEF TriggerFails

\* A pushed rule has its job.
LEMMA PushKeeps ==
    ASSUME RulesInv, NEW r \in Requests, NEW id \in RuleIds, Push(r, id) PROVE RulesInv'
<1> USE DEF RulesInv
<1> DEFINE new == [req |-> r, rule |-> id, def |-> req[r].list[id],
                   obj |-> req[r].obj, state |-> "scheduled"]
<1>1. /\ req'[r].pc = "push" /\ req'[r].obj = req[r].obj /\ req'[r].list = req[r].list
      /\ req'[r].todo = req[r].todo \ {id} /\ req'[r].failed = req[r].failed
      /\ \A q \in Requests : q # r => req'[q] = req[q]
  BY DEF Push, TypeOK
<1>2. new \in JobType
  <2>1. req[r].list[id] \in RuleDefs
    <3>1. req[r].list[id] # NoRule
      BY DEF Push, ReqInv, Applies
    <3>2. req[r].list \in Table
      BY DEF TypeOK
    <3> QED BY <3>1, <3>2 DEF Table
  <2>2. req[r].obj \in Objects
    BY DEF TypeOK
  <2> QED BY <2>1, <2>2 DEF JobType
<1>3. jobs' = jobs \cup {new}
  BY DEF Push
<1>4. TypeOK'
  <2> HIDE DEF new
  <2>1. req' \in [Requests -> ReqType]
    BY ReqTyped DEF Push, ReqType
  <2>2. jobs' \subseteq JobType
    BY <1>2, <1>3 DEF TypeOK
  <2> QED BY <2>1, <2>2 DEF Push, TypeOK, ReqType, ruleVars
<1>5. ReqInv'
  BY <1>1 DEF Push, ReqInv
<1>6. ScheduleInv'
  <2>1. \A q \in Requests, k \in RuleIds : Scheduled(q, k) => Scheduled(q, k)'
    BY <1>3 DEF Scheduled
  <2>2. Scheduled(r, id)'
    <3> HIDE DEF new
    <3>1. new.req = r /\ new.rule = id /\ new.state = "scheduled"
      BY DEF new
    <3> QED BY <1>3, <3>1 DEF Scheduled
  <2>3. \A j \in jobs' : j.state = "detached" => j \in jobs
    BY <1>3
  <2> QED BY <1>1, <2>1, <2>2, <2>3 DEF Push, ScheduleInv
<1>7. LookupInv'
  <2>1. new.state = "scheduled" /\ new.obj = req[r].obj /\ req[r].pc = "push"
    BY DEF Push
  <2> HIDE DEF new
  <2>2. \A i \in Indicators : Pending(i)' => Pending(i)
    BY <1>1, <1>3, <2>1 DEF Pending
  <2>3. \A j \in jobs' : j.state \in {"sent", "detached"} => j \in jobs
    BY <1>3, <2>1
  <2> QED BY <2>2, <2>3 DEF Push, LookupInv, EnrichmentsHaveIndicators
<1> QED BY <1>4, <1>5, <1>6, <1>7, LoadKept DEF Push

\* A push that fails is on record.
LEMMA PushFailsKeeps ==
    ASSUME RulesInv, NEW r \in Requests, NEW id \in RuleIds, PushFails(r, id) PROVE RulesInv'
<1> USE DEF RulesInv
<1>1. /\ req'[r].pc = "push" /\ req'[r].obj = req[r].obj /\ req'[r].list = req[r].list
      /\ req'[r].todo = req[r].todo \ {id} /\ req'[r].failed = req[r].failed \cup {id}
      /\ \A q \in Requests : q # r => req'[q] = req[q]
  BY DEF PushFails, TypeOK
<1>2. TypeOK'
  <2> DEFINE todo == [req EXCEPT ![r].todo = @ \ {id}]
  <2>1. todo \in [Requests -> ReqType]
    BY ReqTyped DEF ReqType
  <2>2. req' = [todo EXCEPT ![r].failed = @ \cup {id}]
    BY DEF PushFails
  <2> HIDE DEF todo
  <2>3. req' \in [Requests -> ReqType]
    BY <2>1, <2>2 DEF ReqType
  <2> QED BY <2>3 DEF PushFails, TypeOK, ReqType, ruleVars, objVars
<1>3. ReqInv'
  <2>1. req[r].pc = "push" /\ id \in req[r].todo
    BY DEF PushFails
  <2> QED BY <1>1, <2>1 DEF ReqInv
<1>4. ScheduleInv'
  <2>1. \A q \in Requests, k \in RuleIds : Scheduled(q, k)' = Scheduled(q, k)
    BY DEF PushFails, Scheduled
  <2>2. \A q \in Requests : /\ req'[q].list = req[q].list /\ req'[q].obj = req[q].obj
                            /\ req[q].todo \cup req[q].failed
                                 \subseteq req'[q].todo \cup req'[q].failed
    BY <1>1
  <2> QED BY <2>1, <2>2 DEF PushFails, ScheduleInv, objVars
<1>5. LookupInv'
  <2>1. \A i \in Indicators : Pending(i)' => Pending(i)
    BY <1>1 DEF PushFails, Pending
  <2> QED BY <2>1 DEF PushFails, LookupInv, EnrichmentsHaveIndicators, objVars
<1> QED BY <1>2, <1>3, <1>4, <1>5, LoadKept DEF PushFails

\* The request has pushed all there was.
LEMMA AnswerKeeps == ASSUME RulesInv, NEW r \in Requests, Answer(r) PROVE RulesInv'
<1> USE DEF RulesInv
<1>1. /\ req'[r].pc = "done" /\ req'[r].obj = req[r].obj /\ req'[r].list = req[r].list
      /\ req'[r].todo = req[r].todo /\ req'[r].failed = req[r].failed
      /\ \A q \in Requests : q # r => req'[q] = req[q]
  BY DEF Answer, TypeOK
<1>2. TypeOK'
  BY DEF Answer, TypeOK, ruleVars, objVars
<1>3. ReqInv'
  BY <1>1 DEF Answer, ReqInv
<1>4. ScheduleInv'
  BY <1>1 DEF Answer, ScheduleInv, Scheduled, objVars
<1>5. LookupInv'
  <2>1. \A i \in Indicators : Pending(i)' => Pending(i)
    BY <1>1 DEF Answer, Pending
  <2> QED BY <2>1 DEF Answer, LookupInv, EnrichmentsHaveIndicators, objVars
<1> QED BY <1>2, <1>3, <1>4, <1>5, LoadKept DEF Answer

-----------------------------------------------------------------------------
(* Indicators and jobs.                                                    *)

\* An indicator saved again is there.
LEMMA SaveAgainKeeps == ASSUME RulesInv, NEW i \in Indicators, SaveAgain(i) PROVE RulesInv'
<1> USE DEF SaveAgain, RulesInv
<1>1. TypeOK'
  BY DEF TypeOK, ruleVars
<1>2. LookupInv'
  BY DEF LookupInv, Pending, EnrichmentsHaveIndicators
<1> QED BY <1>1, <1>2, LoadKept, ReqKept, ScheduleKept

\* An indicator that goes takes its enrichment along, and is late if a lookup
\* of it is pending.
LEMMA DeleteIndicatorKeeps ==
    ASSUME RulesInv, NEW i \in Indicators, DeleteIndicator(i) PROVE RulesInv'
<1> USE DEF DeleteIndicator, RulesInv
<1>1. TypeOK'
  BY DEF TypeOK, ruleVars
<1>2. LookupInv'
  <2>1. \A k \in Indicators : Pending(k)' <=> Pending(k)
    BY DEF Pending
  <2> QED BY <2>1 DEF LookupInv, EnrichmentsHaveIndicators, TypeOK
<1> QED BY <1>1, <1>2, LoadKept, ReqKept, ScheduleKept

\* All of a case's indicators go at once.
LEMMA DeleteCaseKeeps == ASSUME RulesInv, DeleteCase PROVE RulesInv'
<1> USE DEF DeleteCase, RulesInv
<1>1. \A j \in jobs' : \E k \in jobs : /\ k.state = "sent" /\ j = [k EXCEPT !.state = "detached"]
                                       /\ j \in JobType /\ j.def = k.def /\ j.obj = k.obj
                                       /\ j.state = "detached"
  BY DEF TypeOK, JobType
<1>2. TypeOK'
  BY <1>1 DEF TypeOK, ruleVars
<1>3. ScheduleInv'
  BY DEF ScheduleInv
<1>4. LookupInv'
  <2>1. \A i \in Indicators : Pending(i)' => Pending(i)
    BY <1>1 DEF Pending
  <2> QED BY <1>1, <2>1 DEF LookupInv, EnrichmentsHaveIndicators, TypeOK
<1> QED BY <1>2, <1>3, <1>4, LoadKept, ReqKept

\* What becomes of the jobs when one changes its state: nothing but that.
LEMMA BecomeJobs ==
    ASSUME jobs \subseteq JobType, NEW j \in jobs,
           NEW state \in {"sent", "done"}, Become(j, state)
    PROVE  /\ jobs' \subseteq JobType
           /\ \A k \in jobs' : k \in jobs \/ k = [j EXCEPT !.state = state]
           /\ \A k \in jobs : k = j \/ k \in jobs'
           /\ \A r, id : Scheduled(r, id) => Scheduled(r, id)'
<1> DEFINE new == [j EXCEPT !.state = state]
<1>1. new \in JobType /\ new.req = j.req /\ new.rule = j.rule
  BY DEF JobType
<1>2. jobs' = (jobs \ {j}) \cup {new}
  BY DEF Become
<1>3. \A r, id : Scheduled(r, id) => Scheduled(r, id)'
  BY <1>1, <1>2 DEF Scheduled
<1> QED BY <1>1, <1>2, <1>3

\* A job is sent only if its module supports the object.
LEMMA SendKeeps == ASSUME RulesInv, NEW j \in jobs, Send(j) PROVE RulesInv'
<1> USE DEF RulesInv
<1> DEFINE to  == IF Supports(j.def.module, j.obj) THEN "sent" ELSE "done"
           new == [j EXCEPT !.state = to]
<1>1. /\ jobs' \subseteq JobType
      /\ \A k \in jobs' : k \in jobs \/ k = new
      /\ \A r, id : Scheduled(r, id) => Scheduled(r, id)'
  BY BecomeJobs DEF Send, TypeOK
<1>2. /\ new.def = j.def /\ new.obj = j.obj
      /\ new.state = "done" \/ (new.state = "sent" /\ Supports(new.def.module, new.obj))
      /\ j.state = "scheduled"
  <2>1. j \in JobType /\ to \in {"sent", "done"}
    BY DEF TypeOK
  <2>2. j.state = "scheduled" /\ (to = "sent" => Supports(j.def.module, j.obj))
    BY DEF Send
  <2> HIDE DEF to
  <2>3. new.def = j.def /\ new.obj = j.obj /\ new.state = to
    BY <2>1 DEF JobType
  <2> HIDE DEF new
  <2> QED BY <2>1, <2>2, <2>3
<1> HIDE DEF to, new
<1>3. TypeOK'
  BY <1>1 DEF Send, TypeOK, ruleVars, objVars
<1>4. ScheduleInv'
  BY <1>1, <1>2 DEF Send, ScheduleInv, objVars
<1>5. LookupInv'
  <2>1. \A i \in Indicators : Pending(i)' => Pending(i)
    BY <1>1, <1>2 DEF Send, Pending
  <2> QED BY <1>1, <1>2, <2>1 DEF Send, LookupInv, EnrichmentsHaveIndicators, objVars
<1> QED BY <1>3, <1>4, <1>5, LoadKept, ReqKept DEF Send

\* An answer is for an indicator that was pending.
LEMMA FinishKeeps == ASSUME RulesInv, NEW j \in jobs, Finish(j) PROVE RulesInv'
<1> USE DEF Finish, RulesInv
<1> DEFINE new == [j EXCEPT !.state = "done"]
<1>1. /\ jobs' \subseteq JobType
      /\ \A k \in jobs' : k \in jobs \/ k = new
      /\ \A r, id : Scheduled(r, id) => Scheduled(r, id)'
  BY BecomeJobs DEF TypeOK
<1>2. new.state = "done"
  BY DEF TypeOK, JobType
<1>3. j.def.module = "VirusTotal" => j.obj.id \in Indicators /\ Pending(j.obj.id)
  BY DEF LookupInv, Supports, TypeOK, JobType, Objects, Pending, IsFor
<1>4. TypeOK'
  BY <1>1, <1>3 DEF TypeOK, ruleVars
<1>5. ScheduleInv'
  BY <1>1, <1>2 DEF ScheduleInv
<1>6. LookupInv'
  <2>1. \A i \in Indicators : Pending(i)' => Pending(i)
    BY <1>1, <1>2 DEF Pending
  <2> QED BY <1>1, <1>2, <1>3, <2>1 DEF LookupInv, EnrichmentsHaveIndicators
<1> QED BY <1>4, <1>5, <1>6, LoadKept, ReqKept

\* A run that fails leaves nothing.
LEMMA RunFailsKeeps == ASSUME RulesInv, NEW j \in jobs, RunFails(j) PROVE RulesInv'
<1> USE DEF RunFails, RulesInv
<1> DEFINE new == [j EXCEPT !.state = "done"]
<1>1. /\ jobs' \subseteq JobType
      /\ \A k \in jobs' : k \in jobs \/ k = new
      /\ \A r, id : Scheduled(r, id) => Scheduled(r, id)'
  BY BecomeJobs DEF TypeOK
<1>2. new.state = "done"
  BY DEF TypeOK, JobType
<1>3. TypeOK'
  BY <1>1 DEF TypeOK, ruleVars, objVars
<1>4. ScheduleInv'
  BY <1>1, <1>2 DEF ScheduleInv, objVars
<1>5. LookupInv'
  <2>1. \A i \in Indicators : Pending(i)' => Pending(i)
    BY <1>1, <1>2 DEF Pending
  <2> QED BY <1>1, <1>2, <2>1 DEF LookupInv, EnrichmentsHaveIndicators, objVars
<1> QED BY <1>3, <1>4, <1>5, LoadKept, ReqKept

\* A restart loads the rules anew, forgets the requests and starts again what
\* ran; runs that had lost their row end.
LEMMA RestartKeeps == ASSUME RulesInv, Restart PROVE RulesInv'
<1> USE DEF Restart, RulesInv
<1>1. \A j \in jobs' : \E k \in jobs : /\ k.state # "detached" /\ j \in JobType
                                       /\ j.obj = k.obj /\ j.req = k.req /\ j.rule = k.rule
                                       /\ j.state = IF k.state = "sent" THEN "scheduled" ELSE k.state
  BY DEF TypeOK, JobType
<1>2. \A k \in jobs : k.state # "detached" => \E j \in jobs' : j.req = k.req /\ j.rule = k.rule
  <2> SUFFICES ASSUME NEW k \in jobs, k.state # "detached"
               PROVE  \E j \in jobs' : j.req = k.req /\ j.rule = k.rule
    OBVIOUS
  <2> DEFINE j == IF k.state = "sent" THEN [k EXCEPT !.state = "scheduled"] ELSE k
  <2>1. j \in jobs'
    OBVIOUS
  <2>2. j.req = k.req /\ j.rule = k.rule
    BY DEF TypeOK, JobType
  <2> QED BY <2>1, <2>2
<1>3. \A r \in Requests :
        \/ req'[r] = req[r] /\ req[r].pc = "new"
        \/ /\ req'[r].pc = "done" /\ req'[r].obj = req[r].obj /\ req'[r].list = Empty
           /\ req'[r].todo = {} /\ req[r].pc # "new"
  BY DEF NewReq
<1>4. TypeOK'
  <2>1. req' \in [Requests -> ReqType]
    BY DEF TypeOK, ReqType, NewReq, Empty, Table
  <2>2. /\ rules' \in Table /\ llist' \in [Loaders -> Table]
        /\ lpc' \in [Loaders -> {"new", "list", "store", "idle"}]
    BY DEF Empty, Table, Loaders
  <2>3. restarts' \in Nat /\ jobs' \subseteq JobType
    <3>1. jobs' \subseteq JobType
      BY <1>1
    <3>2. restarts \in Nat /\ restarts' = restarts + 1
      BY Zenon DEF TypeOK
    <3> HIDE DEF Restart
    <3> QED BY <3>1, <3>2
  <2> QED BY <2>1, <2>2, <2>3 DEF TypeOK, ReqType, objVars
<1>5. LoadInv'
  <2>1. Start \in Loading'
    BY DEF Loading, Loaders
  <2> QED BY <2>1 DEF LoadInv, LoadedRulesAreCurrent
<1>6. ReqInv'
  BY <1>3, NothingApplies DEF ReqInv
<1>7. ScheduleInv'
  <2>1. ~dropped => \A j \in jobs : j.state # "detached"
    BY DEF ScheduleInv
  <2>2. ~dropped => \A r, id : Scheduled(r, id) => Scheduled(r, id)'
    <3> HIDE DEF Restart, RulesInv
    <3> QED BY <1>2, <2>1 DEF Scheduled
  <2>3. \A j \in jobs' : j.state # "detached"
    BY <1>1
  <2> QED BY <1>3, <2>2, <2>3, NothingApplies DEF ScheduleInv, objVars
<1>8. LookupInv'
  <2>1. \A i \in Indicators : Pending(i)' => Pending(i)
    BY <1>1, <1>3 DEF Pending
  <2> QED BY <1>1, <2>1 DEF LookupInv, EnrichmentsHaveIndicators, objVars
<1> QED BY <1>4, <1>5, <1>6, <1>7, <1>8

-----------------------------------------------------------------------------
(* Results.                                                                *)

\* Every behaviour keeps the invariant.
THEOREM RulesInvariant == Spec => []RulesInv
<1>1. RulesInv /\ [Next]_vars => RulesInv'
  <2> SUFFICES ASSUME RulesInv, [Next]_vars PROVE RulesInv'
    OBVIOUS
  <2>1. CASE UNCHANGED vars
    <3>1. TypeOK'
      BY <2>1 DEF RulesInv, TypeOK, vars, ruleVars, objVars
    <3> QED BY <2>1, <3>1, LoadKept, ReqKept, ScheduleKept, LookupKept DEF RulesInv, vars, objVars
  <2>2. ASSUME NEW r \in Requests, NEW obj \in Objects, SaveObject(r, obj)
        PROVE  RulesInv'
    BY <2>2, SaveObjectKeeps
  <2>3. ASSUME NEW r \in Requests, NEW id \in RuleIds, Push(r, id) \/ PushFails(r, id)
        PROVE  RulesInv'
    BY <2>3, PushKeeps, PushFailsKeeps
  <2>4. ASSUME NEW j \in jobs, Send(j) \/ Finish(j) \/ RunFails(j) PROVE RulesInv'
    BY <2>4, SendKeeps, FinishKeeps, RunFailsKeeps
  <2>5. CASE Next
    BY <2>2, <2>3, <2>4, <2>5, SaveRuleKeeps, ListRulesKeeps, StoreRulesKeeps, ListFailsKeeps,
       TriggerKeeps, TriggerFailsKeeps, AnswerKeeps, SaveAgainKeeps, DeleteIndicatorKeeps,
       DeleteCaseKeeps, RestartKeeps DEF Next
  <2> QED BY <2>1, <2>5
<1> QED BY <1>1, InitRules, PTL DEF Spec

\* Jobs carry the copy of an object and of a rule that was in memory once, and
\* an answer is stored under the id of an indicator (triggerAutomationRules,
\* SetEnrichment).
THEOREM RulesTypeCorrect == Spec => []TypeOK
<1>1. RulesInv => TypeOK
  BY DEF RulesInv
<1> QED BY <1>1, RulesInvariant, PTL

\* However loads overlap, one that runs alone leaves the enabled rules of the
\* table in memory (LoadAutomationRules).
THEOREM LoadsSettle == Spec => []LoadedRulesAreCurrent
<1>1. RulesInv => LoadedRulesAreCurrent
  BY DEF RulesInv, LoadInv
<1> QED BY <1>1, RulesInvariant, PTL

\* No failing push costs another rule its job, no restart loses one
\* (triggerAutomationRules).
THEOREM MatchesAreScheduled == Spec => []EveryMatchIsScheduled
<1>1. RulesInv => EveryMatchIsScheduled
  BY DEF RulesInv, ReqInv, ScheduleInv, Scheduled, EveryMatchIsScheduled
<1> QED BY <1>1, RulesInvariant, PTL

\* Only a lookup that was pending when its indicator went, or the deletion of
\* the case, leaves an enrichment without its indicator.
THEOREM EnrichmentsKeepIndicators == Spec => []EnrichmentsHaveIndicators
<1>1. RulesInv => EnrichmentsHaveIndicators
  BY DEF RulesInv, LookupInv
<1> QED BY <1>1, RulesInvariant, PTL
=============================================================================
