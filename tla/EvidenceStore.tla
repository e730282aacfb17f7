---------------------------- MODULE EvidenceStore ----------------------------
(***************************************************************************)
(* The evidence of one case: the rows of the evidences table, the files in *)
(* data/evidences/<case>, and what the evidence log last said of each row  *)
(* (internal/handler/evidences.go, internal/model/evidences.go), with the  *)
(* analysis modules that write output files next to their input            *)
(* (internal/modules/utils/utils.go, plaso, hayabusa, ...).                *)
(*                                                                         *)
(* The database and the disk share no transaction.  A request is a record  *)
(* with a program counter: one action per statement, transaction or file   *)
(* operation.  Only name, kind and hash of a row are kept; a file's hash   *)
(* is its content (SHA-1 taken as injective).                              *)
(***************************************************************************)
EXTENDS Naturals, FiniteSets

CONSTANTS
    Ids,         \* evidence ids, never reused (fp.Random)
    Names,       \* file names
    Contents,    \* what an uploaded or generated file may hold
    Entered,     \* names a form or a CSV record may give
    Typed,       \* hashes a form or a CSV record may give
    Requests,    \* concurrent requests and module runs
    Outputs(_),  \* what modules derive from the name of their input: the names
                 \* of one file, or of two (plaso)
    Partial,     \* the content of a file whose writer stopped half way
    NoHash,      \* the empty hash of a fileless entry
    NoFile, Absent, NoId,
    MaxBegun,    \* bound on requests, module runs and crashes
    MaxCrashes   \* bound on crashes alone

ASSUME EvidenceAssumption ==
    /\ Entered \subseteq Names
    /\ Typed \subseteq Contents \cup {NoHash}
    /\ \A n \in Names : \A outs \in Outputs(n) :
         outs \subseteq Names /\ \E m, o \in Names : outs = {m, o}
    /\ NoFile \notin Contents \cup {Partial} \cup Requests
    /\ Requests \cap (Contents \cup {Partial, NoHash}) = {}
    /\ Absent \notin [name : Names, fileless : BOOLEAN, hash : Contents \cup {Partial, NoHash}]
    /\ MaxBegun \in Nat /\ MaxCrashes \in Nat

VARIABLES
    row,         \* the evidences table of the case
    caseRow,     \* the case still exists
    disk,        \* its directory; a file being written holds its writer
    told,        \* history: the row when the log's last entry about it was written
    req,         \* what each request remembers
    \* history
    used,        \* ids that have been in the table
    overlapped,  \* two requests have been in flight at once
    foreign,     \* rows whose hash a CSV gave or whose file a tool replaced
    unlogged,    \* rows whose log entries were purged or never written
    begun, crashes

vars == <<row, caseRow, disk, told, req, used, overlapped, foreign, unlogged, begun, crashes>>

Hashes == Contents \cup {Partial, NoHash}
Rows   == [name : Names, fileless : BOOLEAN, hash : Hashes]
Files  == Contents \cup {Partial, NoFile} \cup Requests
Steps  == {"idle", "check", "write", "copy", "stat", "rename", "adopt", "commit",
           "remove", "delete", "rmdir", "tool", "output", "hash", "add", "addlog"}

Idle == [pc |-> "idle", id |-> NoId, new |-> FALSE, old |-> Absent,
         dto |-> Absent, upload |-> NoFile, attached |-> FALSE, outs |-> {}, recs |-> {}]

TypeOK ==
    /\ row \in [Ids -> Rows \cup {Absent}]
    /\ told \in [Ids -> Rows \cup {Absent}]
    /\ caseRow \in BOOLEAN
    /\ disk \in [Names -> Files]
    /\ req \in [Requests -> [pc : Steps, id : Ids \cup {NoId}, new : BOOLEAN,
                             old : Rows \cup {Absent}, dto : Rows \cup {Absent},
                             upload : Contents \cup {NoFile}, attached : BOOLEAN,
                             outs : SUBSET Names, recs : SUBSET Rows]]
    /\ used \subseteq Ids /\ foreign \subseteq Ids /\ unlogged \subseteq Ids
    /\ overlapped \in BOOLEAN
    /\ begun \in Nat /\ crashes \in Nat
    \* No two rows of the case claim one file, in any interleaving, although
    \* EvidenceNameTaken's answer may be stale when the row is saved.
    /\ \A i, j \in Ids : row[i] # Absent /\ row[j] # Absent /\ row[i].name = row[j].name => i = j

Init ==
    /\ row = [i \in Ids |-> Absent] /\ told = [i \in Ids |-> Absent]
    /\ caseRow = TRUE
    /\ disk = [n \in Names |-> NoFile]
    /\ req = [r \in Requests |-> Idle]
    /\ used = {} /\ foreign = {} /\ unlogged = {}
    /\ overlapped = FALSE /\ begun = 0 /\ crashes = 0

-----------------------------------------------------------------------------
Present(i)    == row[i] # Absent
Named(n)      == {i \in Ids : Present(i) /\ row[i].name = n}
FileBacked(i) == Present(i) /\ ~row[i].fileless
InFlight      == {r \in Requests : req[r].pc # "idle"}
Fresh(i)      == i \notin used /\ \A r \in Requests : req[r].id # i

\* The hash of what a reader finds under a name.
HashOf(n) == IF disk[n] \in Requests THEN Partial ELSE disk[n]

Begin(r, rec) ==
    /\ r \notin InFlight
    /\ begun + crashes < MaxBegun /\ begun' = begun + 1
    /\ req' = [req EXCEPT ![r] = rec]
    /\ overlapped' = (overlapped \/ InFlight # {})

Goto(r, step) == req' = [req EXCEPT ![r].pc = step]
End(r)        == req' = [req EXCEPT ![r] = Idle]

\* What a tx statement writing rec for row i needs: the case (foreign key)
\* and a name no other row has (unique index on case and name).
Savable(i, rec) == caseRow /\ Named(rec.name) \subseteq {i}

\* SaveEvidence is an upsert; entry says whether a log row goes with it.
Save(i, rec, entry) ==
    /\ row' = [row EXCEPT ![i] = rec]
    /\ used' = used \cup {i}
    /\ told' = IF entry THEN [told EXCEPT ![i] = rec] ELSE told

-----------------------------------------------------------------------------
(* EvidenceSave.                                                            *)

\* Creation: an upload makes it file-backed, anything else is fileless.
SaveNew(r) ==
    /\ \E i \in Ids, n \in Entered, h \in Typed, u \in Contents \cup {NoFile} :
         /\ Fresh(i)
         /\ Begin(r, [Idle EXCEPT !.pc = "check", !.id = i, !.new = TRUE, !.upload = u,
                        !.dto = [name |-> n, fileless |-> u = NoFile, hash |-> h]])
    /\ UNCHANGED <<row, caseRow, disk, told, used, foreign, unlogged, crashes>>

\* Wrong variant: the submitted hash reaches a file-backed row.
SaveEditFormHash(r) ==
    /\ \E i \in Ids, n \in Entered, h \in Typed, u \in Contents \cup {NoFile} :
         /\ Present(i)
         /\ Begin(r, [Idle EXCEPT !.pc = "check", !.id = i, !.upload = u, !.old = row[i],
                        !.dto = [name |-> n, fileless |-> row[i].fileless, hash |-> h]])
    /\ UNCHANGED <<row, caseRow, disk, told, used, foreign, unlogged, crashes>>

\* Edit: the stored row is read and the submitted fields replace its own;
\* kind, and the hash of a file-backed row, stay as read.
SaveEdit(r) ==
    /\ \E i \in Ids, n \in Entered, h \in Typed, u \in Contents \cup {NoFile} :
         /\ Present(i)
         /\ Begin(r, [Idle EXCEPT !.pc = "check", !.id = i, !.upload = u, !.old = row[i],
                        !.dto = [name |-> n, fileless |-> row[i].fileless,
                                 hash |-> IF row[i].fileless THEN h ELSE row[i].hash]])
    /\ UNCHANGED <<row, caseRow, disk, told, used, foreign, unlogged, crashes>>

\* EvidenceNameTaken, the refusal to replace a stored file, and the choice
\* resolveEvidenceFile makes.
CheckName(r) ==
    LET q == req[r]
        backed == ~q.dto.fileless
        stored == backed /\ q.upload = NoFile
    IN  /\ q.pc = "check"
        /\ IF \/ Named(q.dto.name) \ {q.id} # {}
              \/ backed /\ ~q.new /\ q.upload # NoFile
           THEN End(r)
           ELSE Goto(r, CASE q.upload # NoFile -> "write"
                          [] stored /\ q.dto.name # q.old.name -> "stat"
                          [] stored /\ q.dto.name = q.old.name -> "commit"
                          [] OTHER -> "adopt")
        /\ UNCHANGED <<row, caseRow, disk, told, used, overlapped, foreign, unlogged,
                       begun, crashes>>

\* writeEvidenceFile: O_CREATE|O_EXCL ...
OpenFile(r) ==
    LET n == req[r].dto.name
    IN  /\ req[r].pc = "write"
        /\ IF disk[n] # NoFile
           THEN End(r) /\ UNCHANGED disk
           ELSE Goto(r, "copy") /\ disk' = [disk EXCEPT ![n] = r]
        /\ UNCHANGED <<row, caseRow, told, used, overlapped, foreign, unlogged, begun, crashes>>

\* The files r is writing hold c from now on, wherever they have been moved.
Written(r, c) == [n \in Names |-> IF disk[n] = r THEN c ELSE disk[n]]

\* ... then the copy, hashed on the way.
CopyFile(r) ==
    /\ req[r].pc = "copy"
    /\ disk' = Written(r, req[r].upload)
    /\ req' = [req EXCEPT ![r].pc = "commit",
                          ![r].dto.hash = req[r].upload,
                          ![r].dto.fileless = FALSE,
                          ![r].attached = ~req[r].new]
    /\ UNCHANGED <<row, caseRow, told, used, overlapped, foreign, unlogged, begun, crashes>>

\* The copy stops half way; the file stays.
CopyFails(r) ==
    /\ req[r].pc = "copy"
    /\ disk' = Written(r, Partial)
    /\ End(r)
    /\ UNCHANGED <<row, caseRow, told, used, overlapped, foreign, unlogged, begun, crashes>>

\* attachEvidenceFile without an upload: adopt a file of that name, if any.
Adopt(r) ==
    LET n == req[r].dto.name
    IN  /\ req[r].pc = "adopt"
        /\ req' = IF disk[n] = NoFile
                  THEN [req EXCEPT ![r].pc = "commit"]
                  ELSE [req EXCEPT ![r].pc = "commit",
                                   ![r].dto.hash = HashOf(n),
                                   ![r].dto.fileless = FALSE,
                                   ![r].attached = TRUE]
        /\ UNCHANGED <<row, caseRow, disk, told, used, overlapped, foreign, unlogged,
                       begun, crashes>>

\* renameEvidenceFile: os.Stat on the destination, then os.Rename.
StatTarget(r) ==
    /\ req[r].pc = "stat"
    /\ IF disk[req[r].dto.name] # NoFile THEN End(r) ELSE Goto(r, "rename")
    /\ UNCHANGED <<row, caseRow, disk, told, used, overlapped, foreign, unlogged, begun, crashes>>

RenameFile(r) ==
    LET src == req[r].old.name
        dst == req[r].dto.name
    IN  /\ req[r].pc = "rename"
        /\ IF disk[src] = NoFile
           THEN End(r) /\ UNCHANGED disk
           ELSE Goto(r, "commit") /\ disk' = [disk EXCEPT ![dst] = disk[src], ![src] = NoFile]
        /\ UNCHANGED <<row, caseRow, told, used, overlapped, foreign, unlogged, begun, crashes>>

\* Wrong variants: a creation whose hash is empty passes for a no-op edit; the
\* name is only checked beforehand.
CommitEmptyHashUnlogged(r) ==
    LET q == req[r]
    IN  /\ q.pc = "commit"
        /\ Savable(q.id, q.dto)
        /\ \E other \in BOOLEAN :
             Save(q.id, q.dto, \/ q.attached
                               \/ q.new /\ q.dto.hash # NoHash
                               \/ /\ ~q.new
                                  /\ \/ q.dto.name # q.old.name
                                     \/ q.dto.hash # q.old.hash \/ other)
        /\ foreign' = IF q.attached THEN foreign \ {q.id} ELSE foreign
        /\ End(r)
        /\ UNCHANGED <<caseRow, disk, overlapped, unlogged, begun, crashes>>

CommitUnindexed(r) ==
    LET q == req[r]
    IN  /\ q.pc = "commit"
        /\ caseRow
        /\ \E other \in BOOLEAN :
             Save(q.id, q.dto, \/ q.new \/ q.attached \/ other
                               \/ q.dto.name # q.old.name \/ q.dto.hash # q.old.hash)
        /\ foreign' = IF q.attached THEN foreign \ {q.id} ELSE foreign
        /\ End(r)
        /\ UNCHANGED <<caseRow, disk, overlapped, unlogged, begun, crashes>>

\* The transaction saves the row and logs the creation, the attachment and
\* the difference between what was read and what is saved; an edit without
\* a difference (in these or in "other" fields) is not logged.
Commit(r) ==
    LET q == req[r]
    IN  /\ q.pc = "commit"
        /\ Savable(q.id, q.dto)
        /\ \E other \in BOOLEAN :
             Save(q.id, q.dto, \/ q.new \/ q.attached \/ other
                               \/ q.dto.name # q.old.name \/ q.dto.hash # q.old.hash)
        /\ foreign' = IF q.attached THEN foreign \ {q.id} ELSE foreign
        /\ End(r)
        /\ UNCHANGED <<caseRow, disk, overlapped, unlogged, begun, crashes>>

\* A step that fails ends the request: the tables stay as they were, by the
\* transaction, and the disk as it is.
Fails(r) ==
    /\ req[r].pc \notin {"idle", "copy", "output", "remove"}
    /\ End(r)
    /\ unlogged' = IF req[r].pc = "addlog" THEN unlogged \cup {req[r].id} ELSE unlogged
    /\ UNCHANGED <<row, caseRow, disk, told, used, overlapped, foreign, begun, crashes>>

-----------------------------------------------------------------------------
(* EvidenceImport, EvidenceDelete, EvidenceLogPurge, CaseDelete.            *)

\* One CSV record: the id may be an existing one, a file-backed entry needs
\* a file of its name, and the hash is the record's.  A failing log entry
\* does not undo the row.
Import(r) ==
    /\ r \notin InFlight
    /\ begun + crashes < MaxBegun /\ begun' = begun + 1
    /\ overlapped' = (overlapped \/ InFlight # {})
    /\ \E i \in Ids, rec \in Rows, logged \in BOOLEAN :
         /\ i \in used \/ Fresh(i)
         /\ rec.hash \in Typed /\ rec.name \in Entered
         /\ rec.fileless \/ disk[rec.name] # NoFile
         /\ Savable(i, rec)
         /\ Save(i, rec, logged)
         /\ foreign' = foreign \cup {i}
         /\ unlogged' = IF logged THEN unlogged ELSE unlogged \cup {i}
    /\ UNCHANGED <<caseRow, disk, req, crashes>>

\* The handler reads the row; a file-backed one loses its file first.
DeleteRead(r) ==
    /\ \E i \in Ids :
         /\ Present(i)
         /\ Begin(r, [Idle EXCEPT !.id = i, !.old = row[i],
                        !.pc = IF row[i].fileless THEN "delete" ELSE "remove"])
    /\ UNCHANGED <<row, caseRow, disk, told, used, foreign, unlogged, crashes>>

\* A failing os.Remove is logged and ignored.
RemoveFile(r) ==
    /\ req[r].pc = "remove"
    /\ disk' \in {disk, [disk EXCEPT ![req[r].old.name] = NoFile]}
    /\ Goto(r, "delete")
    /\ UNCHANGED <<row, caseRow, told, used, overlapped, foreign, unlogged, begun, crashes>>

\* Wrong variant: the row goes without a log entry.
DeleteRowUnlogged(r) ==
    /\ req[r].pc = "delete"
    /\ row' = [row EXCEPT ![req[r].id] = Absent]
    /\ End(r)
    /\ UNCHANGED <<caseRow, disk, told, used, overlapped, foreign, unlogged, begun, crashes>>

\* DeleteEvidence: the row and the "deleted" entry, or nothing if it is gone.
DeleteRow(r) ==
    /\ req[r].pc = "delete"
    /\ row' = [row EXCEPT ![req[r].id] = Absent]
    /\ told' = IF Present(req[r].id) THEN [told EXCEPT ![req[r].id] = Absent] ELSE told
    /\ End(r)
    /\ UNCHANGED <<caseRow, disk, used, overlapped, foreign, unlogged, begun, crashes>>

\* An administrator erases the log of one evidence.
PurgeLog(i) ==
    /\ i \in used
    /\ told' = [told EXCEPT ![i] = Absent]
    /\ unlogged' = unlogged \cup {i}
    /\ UNCHANGED <<row, caseRow, disk, req, used, overlapped, foreign, begun, crashes>>

\* The case row goes, the evidence rows cascade, the directory follows.
DeleteCase(r) ==
    /\ caseRow
    /\ Begin(r, [Idle EXCEPT !.pc = "rmdir"])
    /\ caseRow' = FALSE
    /\ row' = [i \in Ids |-> Absent]
    /\ UNCHANGED <<disk, told, used, foreign, unlogged, crashes>>

RemoveDir(r) ==
    /\ req[r].pc = "rmdir"
    /\ disk' = [n \in Names |-> NoFile]
    /\ End(r)
    /\ UNCHANGED <<row, caseRow, told, used, overlapped, foreign, unlogged, begun, crashes>>

-----------------------------------------------------------------------------
(* An analysis module run over one evidence.                                *)

\* The job holds a snapshot of the evidence; the output goes next to it.
ModuleRun(r) ==
    /\ \E i \in Ids :
         /\ Present(i)
         /\ \E outs \in Outputs(row[i].name) :
              Begin(r, [Idle EXCEPT !.pc = "tool", !.old = row[i], !.outs = outs])
    /\ UNCHANGED <<row, caseRow, disk, told, used, foreign, unlogged, crashes>>

\* The tool, or dissect's rewrite of what the tool wrote, truncates and fills its
\* output files, whatever they were; it may stop before it has opened them all.
OpenOutput(r) ==
    /\ req[r].pc = "tool"
    /\ disk[req[r].old.name] # NoFile
    /\ \E opened \in SUBSET req[r].outs :
         /\ opened # {}
         /\ disk' = [n \in Names |-> IF n \in opened THEN r ELSE disk[n]]
         /\ foreign' = foreign \cup UNION {Named(n) : n \in opened}
    /\ Goto(r, "output")
    /\ UNCHANGED <<row, caseRow, told, used, overlapped, unlogged, begun, crashes>>

ToolWrites(r) ==
    /\ req[r].pc = "output"
    /\ \E c \in [Names -> Contents] :
         disk' = [n \in Names |-> IF disk[n] = r THEN c[n] ELSE disk[n]]
    /\ Goto(r, "hash")
    /\ UNCHANGED <<row, caseRow, told, used, overlapped, foreign, unlogged, begun, crashes>>

\* The tool fails; its output files are removed, whatever they were, and a
\* failing os.Remove is ignored.
ToolFails(r) ==
    /\ req[r].pc \in {"tool", "output"}
    /\ \E gone \in SUBSET req[r].outs :
         disk' = [n \in Names |-> IF n \in gone THEN NoFile
                                  ELSE IF disk[n] = r THEN Partial ELSE disk[n]]
    /\ End(r)
    /\ UNCHANGED <<row, caseRow, told, used, overlapped, foreign, unlogged, begun, crashes>>

\* AddFromFS: open and hash an output ...
HashOutput(r) ==
    LET q == req[r]
    IN  /\ q.pc = "hash"
        /\ \E n \in q.outs :
             /\ disk[n] # NoFile
             /\ req' = [req EXCEPT
                         ![r].pc = IF q.outs = {n} THEN "add" ELSE "hash",
                         ![r].outs = q.outs \ {n},
                         ![r].recs = q.recs \cup {[name |-> n, fileless |-> FALSE,
                                                  hash |-> HashOf(n)]}]
        /\ UNCHANGED <<row, caseRow, disk, told, used, overlapped, foreign, unlogged,
                       begun, crashes>>

\* ... insert its row, and log it in a statement of its own ...
AddFromFS(r) ==
    /\ req[r].pc = "add"
    /\ \E i \in Ids, rec \in req[r].recs :
         /\ req[r].recs = {rec}
         /\ Fresh(i) /\ Savable(i, rec)
         /\ Save(i, rec, FALSE)
         /\ req' = [req EXCEPT ![r].pc = "addlog", ![r].id = i, ![r].recs = {}]
    /\ UNCHANGED <<caseRow, disk, overlapped, foreign, unlogged, begun, crashes>>

\* ... or, for plaso's two outputs, both rows and both entries in one transaction.
AddBoth(r) ==
    /\ req[r].pc = "add"
    /\ \E i, j \in Ids : \E p, c \in req[r].recs :
         /\ req[r].recs = {p, c} /\ p.name # c.name
         /\ i # j /\ Fresh(i) /\ Fresh(j) /\ Savable(i, p) /\ Savable(j, c)
         /\ row' = [row EXCEPT ![i] = p, ![j] = c]
         /\ told' = [told EXCEPT ![i] = p, ![j] = c]
         /\ used' = used \cup {i, j}
    /\ End(r)
    /\ UNCHANGED <<caseRow, disk, overlapped, foreign, unlogged, begun, crashes>>

AddLog(r) ==
    /\ req[r].pc = "addlog"
    /\ told' = [told EXCEPT ![req[r].id] = row[req[r].id]]
    /\ End(r)
    /\ UNCHANGED <<row, caseRow, disk, used, overlapped, foreign, unlogged, begun, crashes>>

\* The process dies: requests are forgotten, files being written stay.
Crash ==
    /\ crashes < MaxCrashes /\ begun + crashes < MaxBegun
    /\ crashes' = crashes + 1
    /\ disk' = [n \in Names |-> IF disk[n] \in Requests THEN Partial ELSE disk[n]]
    /\ req' = [r \in Requests |-> Idle]
    /\ unlogged' = unlogged \cup {req[r].id : r \in {q \in Requests : req[q].pc = "addlog"}}
    /\ UNCHANGED <<row, caseRow, told, used, overlapped, foreign, begun>>

Next ==
    \/ \E r \in Requests :
         \/ SaveNew(r) \/ SaveEdit(r) \/ CheckName(r)
         \/ OpenFile(r) \/ CopyFile(r) \/ CopyFails(r)
         \/ Adopt(r) \/ StatTarget(r) \/ RenameFile(r)
         \/ Commit(r) \/ Fails(r)
         \/ Import(r)
         \/ DeleteRead(r) \/ RemoveFile(r) \/ DeleteRow(r)
         \/ DeleteCase(r) \/ RemoveDir(r)
         \/ ModuleRun(r) \/ OpenOutput(r) \/ ToolWrites(r) \/ ToolFails(r)
         \/ HashOutput(r) \/ AddFromFS(r) \/ AddBoth(r) \/ AddLog(r)
    \/ \E i \in Ids : PurgeLog(i)
    \/ Crash

Spec == Init /\ [][Next]_vars

-----------------------------------------------------------------------------
(* Properties.                                                              *)

\* As long as requests do not overlap, the hash of a file-backed row is that
\* of the file under its name, if there is one: through edits, attachments,
\* adopted left-overs, failed transactions and crashes, and except for hashes
\* a CSV gave or files a tool replaced (resolveEvidenceFile, EvidenceSave).
HashMatchesFile ==
    ~overlapped =>
        \A i \in Ids \ foreign :
            FileBacked(i) /\ disk[row[i].name] # NoFile => disk[row[i].name] = row[i].hash

\* As long as requests do not overlap, the last log entry about an evidence
\* describes it as it is: no change goes unlogged, whatever step fails
\* (EvidenceSave, EvidenceDelete, AddFromFS).
LogDescribesRow ==
    ~overlapped /\ caseRow =>
        \A i \in Ids \ unlogged :
            told[i] = row[i] \/ \E r \in Requests : req[r].pc = "addlog" /\ req[r].id = i

\* In any interleaving evidence leaves a case that remains only together
\* with a log entry that says so (DeleteEvidence).
VanishesLogged == caseRow => \A i \in Ids : ~Present(i) => told[i] = Absent

\* The clean-up after a failed tool removes "partial output" only: fails, it
\* removes the registered output of an earlier run of the same module.
CleanupSparesEvidence ==
    [][\A r \in Requests, i \in Ids \ foreign :
         /\ req[r].pc \in {"tool", "output"} /\ req'[r].pc = "idle" /\ crashes' = crashes
         /\ FileBacked(i) /\ disk[row[i].name] # NoFile
         => disk'[row[i].name] # NoFile]_vars
=============================================================================
