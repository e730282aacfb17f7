------------------------------ MODULE CaseLifecycle ------------------------------
(***************************************************************************)
(* A case from its creation, blank or from a template, to its closing, with *)
(* its tasks and notes (internal/handler/{cases,tasks,notes,               *)
(* settings-case-templates}.go, internal/model/{cases,tasks,notes}.go),    *)
(* composed with its records: assets that were not triaged keep a case from *)
(* being closed without a question, and any request may add one while the  *)
(* question is decided.                                                    *)
(***************************************************************************)
EXTENDS CaseRecords

CONSTANTS
    Tasks, Notes,  \* ids of rows
    Editors        \* concurrent requests that save the case

Cases     == [closed : BOOLEAN, dated : BOOLEAN, complete : BOOLEAN]
Templates == [tasks : SUBSET Tasks, notes : SUBSET Notes]

ASSUME CaseAssumption == NoRow \notin Cases

VARIABLES
    kase,      \* the row of the case
    tasks,     \* its tasks
    notes,     \* its notes
    triaged,   \* assets that are no longer under investigation
    template,  \* tasks and notes of the template
    edit,      \* the editors' requests
    \* history
    slipped,   \* editors during whose request something new became outstanding
    unasked    \* whether a case with outstanding items was closed without a question

lifecycle == <<kase, tasks, notes, triaged, template, edit>>
allVars   == <<vars, lifecycle, slipped, unasked>>

NoEdit == [pc |-> "idle", form |-> NoRow, new |-> FALSE, clone |-> FALSE, asked |-> FALSE,
           open |-> FALSE]

CaseTypeOK ==
    /\ TypeOK
    /\ kase \in Cases \cup {NoRow}
    /\ tasks \in [Tasks -> {"none", "open", "done"}]
    /\ notes \subseteq Notes /\ triaged \subseteq Assets
    /\ template \in Templates \cup {NoRow}
    /\ \A e \in Editors :
        /\ edit[e].pc \in {"idle", "prior", "tasks", "assets", "save", "clone"}
        /\ edit[e].pc = "idle" \/ edit[e].form \in Cases
    \* a case has a closing date exactly if it is closed, saved by form or by import
    /\ kase # NoRow => kase.dated = kase.closed

CaseInit ==
    /\ Init
    /\ kase \in {NoRow, [closed |-> FALSE, dated |-> FALSE, complete |-> TRUE]}
    /\ kase = NoRow => \A a \in Assets : assets[a] = NoRow
    /\ tasks = [t \in Tasks |-> "none"] /\ notes = {} /\ triaged = {}
    /\ template \in {NoRow, [tasks |-> Tasks, notes |-> Notes]}
    /\ edit = [e \in Editors |-> NoEdit]
    /\ slipped = {} /\ unasked = FALSE

There == {a \in Assets : assets[a] # NoRow}

\* What outstandingOnClose counts.
OpenTasks   == {t \in Tasks : tasks[t] = "open"}
Untriaged   == There \ triaged
Outstanding == OpenTasks # {} \/ Untriaged # {}

Ed(e, f) == edit' = [edit EXCEPT ![e] = f]
Now(e, pc) == Ed(e, [edit[e] EXCEPT !.pc = pc])

-----------------------------------------------------------------------------
(* Tasks, notes and the triage of assets *)

TaskSave(t, done) ==
    /\ kase # NoRow /\ Request
    /\ tasks' = [tasks EXCEPT ![t] = IF done THEN "done" ELSE "open"]
    /\ UNCHANGED <<records, fails, kase, notes, triaged, template, edit>>

TaskDelete(t) ==
    /\ kase # NoRow /\ Request /\ tasks[t] # "none"
    /\ tasks' = [tasks EXCEPT ![t] = "none"]
    /\ UNCHANGED <<records, fails, kase, notes, triaged, template, edit>>

\* NoteSave, NoteImport and NoteDelete.
NoteChange(ns) ==
    /\ kase # NoRow /\ Request /\ ns # notes /\ notes' = ns
    /\ UNCHANGED <<records, fails, kase, tasks, triaged, template, edit>>

\* AssetSave, or a record of AssetImport, with the status it gives.
Triage(a, name, done) ==
    /\ kase # NoRow /\ AssetSave(a, name)
    /\ triaged' = IF done THEN triaged \cup {a} ELSE triaged \ {a}
    /\ UNCHANGED <<kase, tasks, notes, template, edit>>

\* Any change of the records; an asset made on the way is under investigation.
RecordStep ==
    /\ kase # NoRow /\ Next
    /\ triaged' = triaged \cap {a \in Assets : assets'[a] # NoRow}
    /\ UNCHANGED <<kase, tasks, notes, template, edit>>

-----------------------------------------------------------------------------
(* CaseSave *)

\* Wrong variant: a case that is opened again keeps its closing date.
FilledKeepDate(form) == [form EXCEPT !.dated = @ \/ form.closed]

\* The closing date is filled in, or cleared.
Filled(form) == [form EXCEPT !.dated = form.closed]

\* A form that closes the case without saying so has the outstanding items counted.
CaseSave(e, form, new, clone, confirm) ==
    /\ Request /\ edit[e].pc = "idle"
    /\ new = (kase = NoRow) /\ (clone => new)
    /\ Ed(e, [NoEdit EXCEPT !.pc = IF form.closed /\ ~confirm THEN "prior" ELSE "save",
                            !.form = Filled(form), !.new = new, !.clone = clone,
                            !.asked = confirm])
    /\ UNCHANGED <<records, fails, kase, tasks, notes, triaged, template>>

\* A case that is closed already is not asked about.
Prior(e) ==
    /\ edit[e].pc = "prior"
    /\ IF kase # NoRow /\ kase.closed /\ ~edit[e].new
       THEN Ed(e, [edit[e] EXCEPT !.pc = "save", !.asked = TRUE])
       ELSE Now(e, "tasks")
    /\ UNCHANGED <<vars, kase, tasks, notes, triaged, template>>

\* outstandingOnClose: the tasks are listed, then the assets; a case that is still to
\* be made has none.
CountTasks(e) ==
    /\ edit[e].pc = "tasks"
    /\ Ed(e, [edit[e] EXCEPT !.pc = "assets", !.open = ~edit[e].new /\ OpenTasks # {}])
    /\ UNCHANGED <<vars, kase, tasks, notes, triaged, template>>

\* Wrong variant: assets are not looked at.
CountNoAssets(e) ==
    /\ edit[e].pc = "assets"
    /\ IF edit[e].open \/ ~edit[e].form.complete THEN Ed(e, NoEdit) ELSE Now(e, "save")
    /\ UNCHANGED <<vars, kase, tasks, notes, triaged, template>>

\* With anything outstanding the form is shown again, with the question.
CountAssets(e) ==
    /\ edit[e].pc = "assets"
    /\ IF edit[e].open \/ (~edit[e].new /\ Untriaged # {}) \/ ~edit[e].form.complete
       THEN Ed(e, NoEdit) ELSE Now(e, "save")
    /\ UNCHANGED <<vars, kase, tasks, notes, triaged, template>>

\* SaveCase writes the row whole; a new case may then be filled from a template.
SaveCase(e) ==
    /\ edit[e].pc = "save" /\ (edit[e].new => kase = NoRow)
    /\ kase' = edit[e].form
    /\ IF edit[e].clone THEN Now(e, "clone") ELSE Ed(e, NoEdit)
    /\ unasked' = (unasked \/ ( /\ edit[e].form.closed /\ ~edit[e].asked /\ e \notin slipped
                                /\ (kase = NoRow \/ ~kase.closed)
                                /\ Outstanding \/ ~edit[e].form.complete ))
    /\ UNCHANGED <<vars, tasks, notes, triaged, template>>

\* CloneCaseContents: the case once more, the template's tasks, not done, and its notes;
\* or nothing of it.
CloneCaseContents(e) ==
    /\ edit[e].pc = "clone" /\ Ed(e, NoEdit)
    /\ kase' = edit[e].form
    /\ tasks' = [t \in Tasks |->
                IF template # NoRow /\ t \in template.tasks THEN "open" ELSE tasks[t]]
    /\ notes' = IF template = NoRow THEN notes ELSE notes \cup template.notes
    /\ UNCHANGED <<vars, triaged, template>>

CloneFails(e) ==
    /\ edit[e].pc \in {"save", "clone"} /\ Ed(e, NoEdit)
    /\ fails < MaxFails /\ fails' = fails + 1
    /\ UNCHANGED <<records, ops, kase, tasks, notes, triaged, template>>

\* A record of CaseImport: no question is asked.
CaseImport(form) ==
    /\ Request
    /\ kase = NoRow => \A e \in Editors : ~edit[e].new
    /\ kase' = Filled(form)
    /\ UNCHANGED <<records, fails, tasks, notes, triaged, template, edit>>

-----------------------------------------------------------------------------
(* Templates *)

\* CaseTemplateSave, and edits of a template's own tasks and notes.
CaseTemplateSave(ts, ns) ==
    /\ Request /\ template' = [tasks |-> ts, notes |-> ns]
    /\ UNCHANGED <<records, fails, kase, tasks, notes, triaged, edit>>

CaseTemplateDelete ==
    /\ Request /\ template # NoRow /\ template' = NoRow
    /\ UNCHANGED <<records, fails, kase, tasks, notes, triaged, edit>>

\* CaseTemplatePromote: a case's tasks and notes become a template's.
CaseTemplatePromote ==
    /\ Request /\ kase # NoRow
    /\ template' = [tasks |-> {t \in Tasks : tasks[t] # "none"}, notes |-> notes]
    /\ UNCHANGED <<records, fails, kase, tasks, notes, triaged, edit>>

-----------------------------------------------------------------------------

Keep == UNCHANGED unasked

CaseStep ==
    \/ RecordStep /\ Keep
    \/ \E a \in Assets, n \in Names, d \in BOOLEAN : Triage(a, n, d) /\ Keep
    \/ \E t \in Tasks : (TaskDelete(t) \/ \E d \in BOOLEAN : TaskSave(t, d)) /\ Keep
    \/ \E ns \in SUBSET Notes : NoteChange(ns) /\ Keep
    \/ \E f \in Cases : CaseImport(f) /\ Keep
    \/ CaseTemplateDelete /\ Keep
    \/ CaseTemplatePromote /\ Keep
    \/ \E ts \in SUBSET Tasks, ns \in SUBSET Notes : CaseTemplateSave(ts, ns) /\ Keep
    \/ \E e \in Editors :
        \/ \E f \in Cases, n, c, y \in BOOLEAN : CaseSave(e, f, n, c, y) /\ Keep
        \/ (Prior(e) \/ CountTasks(e) \/ CountAssets(e)) /\ Keep
        \/ (CloneCaseContents(e) \/ CloneFails(e)) /\ Keep
        \/ SaveCase(e)

\* History: what became outstanding during a request slipped past its count.
Slip ==
    LET more == ~(OpenTasks' \subseteq OpenTasks /\ Untriaged' \subseteq Untriaged)
    IN  slipped' = {e \in Editors : edit'[e].pc # "idle" /\ (e \in slipped \/ more)}

CaseNext == CaseStep /\ Slip

CaseSpec == CaseInit /\ [][CaseNext]_allVars

\* A case with outstanding items is closed through the form only after the question was
\* answered, unless the last of them came up while that request was under way: both
\* counts and the check for a case already closed are made before the row is written.
\* (Tasks that a template brings into a case created closed are not asked about.)
ClosedMeansAsked == ~unasked
=============================================================================
