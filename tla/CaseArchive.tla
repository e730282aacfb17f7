----------------------------- MODULE CaseArchive -----------------------------
(***************************************************************************)
(* Cases that leave and enter an instance: the export of a case to an      *)
(* archive, the two-stage import (an upload staged under a token, then its *)
(* commit), the fork of a case, and the deletion of cases                  *)
(* (internal/handler/archive.go, internal/model/archive.go,                *)
(* internal/handler/cases.go), while the case is edited.                   *)
(*                                                                         *)
(* An export is a series of queries without a transaction, an import one   *)
(* transaction followed by file operations.  Of the nine child tables four *)
(* stand for all: assets (rows others refer to), events (with links that   *)
(* are foreign keys), comments (whose reference is no foreign key) and     *)
(* evidence logs (no foreign key at all, not even to the case).            *)
(***************************************************************************)
EXTENDS Naturals, FiniteSets, Functions

CONSTANTS
    Source,       \* the case that is there from the start
    Elsewhere,    \* a case of another instance, of which there is an archive
    Forks,        \* ids of cases to be made by forking it (fp.Random)
    AssetIds, EventIds, CommentIds, LogIds,
    Requests,     \* concurrent requests
    Tokens,       \* tokens of staged uploads (fp.Random)
    Slots,        \* binaries an archive may hold; restored in this order
    SourceFiles,  \* sizes of the binaries of Source; 0 is no file
    ForeignFiles, \* and of those of Elsewhere
    Budget,       \* MAX_ARCHIVE_CONTENT_SIZE
    NoArchive, NoCase, NoToken,
    MaxEdits,     \* bound on rows added by edits
    MaxBegun      \* bound on exports, imports, forks and deletions

Cases   == {Source, Elsewhere} \cup Forks
NoFiles == [i \in Slots |-> 0]

\* remap: every row of a fork gets a fresh id, the same for the same old one.
Fresh(dst, id) == <<dst, id>>

ASSUME ArchiveAssumption ==
    /\ IsFiniteSet(Slots) /\ Slots = 1..Cardinality(Slots)
    /\ SourceFiles \in [Slots -> Nat] /\ ForeignFiles \in [Slots -> Nat]
    /\ Budget \in Nat /\ MaxEdits \in Nat /\ MaxBegun \in Nat
    /\ Source # Elsewhere /\ {Source, Elsewhere} \cap Forks = {} /\ NoCase \notin Cases
    /\ \A c \in Cases, id \in AssetIds : Fresh(c, id) \notin AssetIds

VARIABLES
    cases,                           \* the tables
    assets, events, comments, logs,
    disk,         \* bytes of each binary in a case's directories
    staged,       \* tmp/<token>.zip
    downloads,    \* archives users have downloaded
    req,          \* what each request remembers
    \* history
    used,         \* base ids in use or used before
    mixing,       \* exports that an edit has overlapped
    mixed,        \* cases whose rows come from such an export
    disturbed,    \* cases deleted, or not cleaned up, while files were written
    imported,     \* cases whose rows come from an archive
    begun

tables == <<cases, assets, events, comments, logs>>
hist   == <<used, mixing, mixed, disturbed, imported, begun>>
vars   == <<tables, disk, staged, downloads, req, hist>>

AllIds(base)  == base \cup {Fresh(c, id) : c \in Cases \ {Source}, id \in base}
Ids(table)    == {x.id : x \in table}
Of(table, c)  == {x \in table : x.kase = c}

Idle == [pc |-> "idle", kase |-> NoCase, token |-> NoToken,
         arch |-> NoArchive, next |-> 1, left |-> 0]

Exporting(c) == {r \in Requests :
    req[r].pc \in {"assets", "events", "comments", "logs", "files"} /\ req[r].arch.kase = c}
Writing   == {r \in Requests : req[r].pc \in {"restore", "copy"}}

Assets   == [id : AllIds(AssetIds), kase : Cases]
Events   == [id : AllIds(EventIds), kase : Cases, links : SUBSET AllIds(AssetIds)]
Comments == [id : AllIds(CommentIds), kase : Cases, object : AllIds(AssetIds)]
Logs     == [id : AllIds(LogIds), kase : Cases]
Archives == [kase : Cases, assets : SUBSET Assets, events : SUBSET Events,
             comments : SUBSET Comments, logs : SUBSET Logs,
             sizes : [Slots -> Nat], mixed : BOOLEAN]

TypeOK ==
    /\ cases \subseteq Cases
    /\ assets \subseteq Assets /\ events \subseteq Events
    /\ comments \subseteq Comments /\ logs \subseteq Logs
    /\ disk \in [Cases -> [Slots -> Nat]]
    /\ \A a \in downloads \cup {staged[t] : t \in Tokens} \cup {req[r].arch : r \in Requests} :
         a \in Archives \cup {NoArchive}
    /\ \A r \in Requests :
         /\ req[r].pc \in {"idle", "assets", "events", "comments", "logs", "files",
                           "tx", "restore", "copy", "rmdir"}
         /\ req[r].kase \in Cases \cup {NoCase} /\ req[r].token \in Tokens \cup {NoToken}
         /\ req[r].next \in 1..(Cardinality(Slots) + 1) /\ req[r].left \in 0..Budget
    /\ mixing \subseteq Requests
    /\ mixed \subseteq Cases /\ disturbed \subseteq Cases /\ imported \subseteq Cases
    /\ begun \in 0..MaxBegun

\* The archive from elsewhere: every event is linked to every asset.
Foreign ==
    [kase     |-> Elsewhere,
     assets   |-> {[id |-> Fresh(Elsewhere, a), kase |-> Elsewhere] : a \in AssetIds},
     events   |-> {[id |-> Fresh(Elsewhere, e), kase |-> Elsewhere,
                    links |-> {Fresh(Elsewhere, a) : a \in AssetIds}] : e \in EventIds},
     comments |-> {},
     logs     |-> {[id |-> Fresh(Elsewhere, g), kase |-> Elsewhere] : g \in LogIds},
     sizes    |-> ForeignFiles,
     mixed    |-> FALSE]

Init ==
    /\ cases = {Source}
    /\ assets = {} /\ events = {} /\ comments = {} /\ logs = {}
    /\ disk = [c \in Cases |-> IF c = Source THEN SourceFiles ELSE NoFiles]
    /\ staged = [t \in Tokens |-> NoArchive] /\ downloads = {Foreign}
    /\ req = [r \in Requests |-> Idle]
    /\ used = {} /\ mixing = {} /\ mixed = {}
    /\ disturbed = {} /\ imported = {} /\ begun = 0

Begin(r, rec) ==
    /\ req[r].pc = "idle"
    /\ begun < MaxBegun /\ begun' = begun + 1
    /\ req' = [req EXCEPT ![r] = rec]

End(r)        == req' = [req EXCEPT ![r] = Idle]

-----------------------------------------------------------------------------
(* Edits of the case that is exported: single statements or transactions.   *)

Base    == AssetIds \cup EventIds \cup CommentIds \cup LogIds
New(id) == id \notin used /\ Cardinality(used \cap Base) < MaxEdits /\ used' = used \cup {id}

\* An edit of case c is seen in part by the exports that are reading it.
Touch(c) == mixing' = mixing \cup Exporting(c)

AddAsset(c) ==
    /\ c \in cases
    /\ \E id \in AssetIds : New(id) /\ assets' = assets \cup {[id |-> id, kase |-> c]}
    /\ Touch(c)
    /\ UNCHANGED <<cases, events, comments, logs, disk, staged, downloads, req,
                   mixed, disturbed, imported, begun>>

AddEvent(c) ==
    /\ c \in cases
    /\ \E id \in EventIds, links \in SUBSET Ids(Of(assets, c)) :
         /\ New(id)
         /\ events' = events \cup {[id |-> id, kase |-> c, links |-> links]}
    /\ Touch(c)
    /\ UNCHANGED <<cases, assets, comments, logs, disk, staged, downloads, req,
                   mixed, disturbed, imported, begun>>

\* Every download, edit and run over an evidence logs.
AddLog(c) ==
    /\ c \in cases
    /\ \E id \in LogIds : New(id) /\ logs' = logs \cup {[id |-> id, kase |-> c]}
    /\ Touch(c)
    /\ UNCHANGED <<cases, assets, events, comments, disk, staged, downloads, req,
                   mixed, disturbed, imported, begun>>

\* Wrong variant: the comments stay.
DeleteAssetOnly(a) ==
    /\ assets' = assets \ {a}
    /\ events' = {[e EXCEPT !.links = @ \ {a.id}] : e \in events}
    /\ Touch(a.kase)
    /\ UNCHANGED <<cases, comments, logs, disk, staged, downloads, req,
                   used, mixed, disturbed, imported, begun>>

\* DeleteAsset: the links cascade, the comments are deleted with it.
DeleteAsset(a) ==
    /\ assets' = assets \ {a}
    /\ events' = {[e EXCEPT !.links = @ \ {a.id}] : e \in events}
    /\ comments' = {m \in comments : m.kase # a.kase \/ m.object # a.id}
    /\ Touch(a.kase)
    /\ UNCHANGED <<cases, logs, disk, staged, downloads, req,
                   used, mixed, disturbed, imported, begun>>

\* CommentSave, for an object that is there.
AddComment(a) ==
    /\ \E id \in CommentIds :
         /\ New(id)
         /\ comments' = comments \cup {[id |-> id, kase |-> a.kase, object |-> a.id]}
    /\ Touch(a.kase)
    /\ UNCHANGED <<cases, assets, events, logs, disk, staged, downloads, req,
                   mixed, disturbed, imported, begun>>

-----------------------------------------------------------------------------
(* ExportCaseArchive, for a download or for a fork.                         *)

\* The case row is read first; dst is the case the rows are for.
BeginExport(r, dst) ==
    /\ Source \in cases
    /\ dst = Source \/ dst \in Forks \ used
    /\ used' = used \cup ({dst} \cap Forks)
    /\ Begin(r, [Idle EXCEPT !.pc = "assets", !.kase = dst,
                   !.arch = [kase |-> Source, assets |-> {}, events |-> {}, comments |-> {},
                             logs |-> {}, sizes |-> NoFiles, mixed |-> FALSE]])
    /\ UNCHANGED <<tables, disk, staged, downloads, mixing, mixed, disturbed, imported>>

Read(r, from, a, to) ==
    /\ req[r].pc = from
    /\ req' = [req EXCEPT ![r].pc = to, ![r].arch = a]
    /\ UNCHANGED <<tables, disk, staged, downloads, hist>>

ReadAssets(r)   == Read(r, "assets", [req[r].arch EXCEPT !.assets = Of(assets, Source)], "events")
ReadEvents(r)   == Read(r, "events", [req[r].arch EXCEPT !.events = Of(events, Source)], "comments")
ReadComments(r) == Read(r, "comments", [req[r].arch EXCEPT !.comments = Of(comments, Source)], "logs")

\* Wrong variant: links keep the ids of the source.
RemapKeepsLinks(a, dst) ==
    [a EXCEPT
        !.kase     = dst,
        !.assets   = {[id |-> Fresh(dst, x.id), kase |-> dst] : x \in @},
        !.events   = {[id |-> Fresh(dst, x.id), kase |-> dst, links |-> x.links] : x \in @},
        !.comments = {[id |-> Fresh(dst, x.id), kase |-> dst, object |-> Fresh(dst, x.object)] : x \in @},
        !.logs     = {[id |-> Fresh(dst, x.id), kase |-> dst] : x \in @}]

\* ForkCase: fresh ids throughout.
Remap(a, dst) ==
    [a EXCEPT
        !.kase     = dst,
        !.assets   = {[id |-> Fresh(dst, x.id), kase |-> dst] : x \in @},
        !.events   = {[id |-> Fresh(dst, x.id), kase |-> dst,
                       links |-> {Fresh(dst, l) : l \in x.links}] : x \in @},
        !.comments = {[id |-> Fresh(dst, x.id), kase |-> dst, object |-> Fresh(dst, x.object)] : x \in @},
        !.logs     = {[id |-> Fresh(dst, x.id), kase |-> dst] : x \in @}]

ReadLogs(r) ==
    LET a == [req[r].arch EXCEPT !.logs = Of(logs, Source), !.mixed = r \in mixing \/ Source \in mixed]
    IN  /\ req[r].pc = "logs"
        /\ req' = IF req[r].kase = Source
                  THEN [req EXCEPT ![r].pc = "files", ![r].arch = a]
                  ELSE [req EXCEPT ![r].pc = "tx", ![r].arch = Remap(a, req[r].kase)]
        /\ mixing' = mixing \ {r}
        /\ UNCHANGED <<tables, disk, staged, downloads, used, mixed, disturbed, imported, begun>>

\* writeCaseArchive: the binaries that are there, if they were asked for.
Download(r) ==
    /\ req[r].pc = "files"
    /\ \E sizes \in {NoFiles, disk[Source]} :
         downloads' = downloads \cup {[req[r].arch EXCEPT !.sizes = sizes]}
    /\ mixing' = mixing \ {r}
    /\ End(r)
    /\ UNCHANGED <<tables, disk, staged, used, mixed, disturbed, imported, begun>>

-----------------------------------------------------------------------------
(* PreviewImport and CommitImport.                                          *)

\* A valid archive is staged under a fresh token.
Upload(t) ==
    /\ t \notin used /\ used' = used \cup {t}
    /\ \E a \in downloads : staged' = [staged EXCEPT ![t] = a]
    /\ UNCHANGED <<tables, disk, downloads, req, mixing, mixed, disturbed, imported, begun>>

\* The staged file is opened; removing it later does not disturb who has it.
BeginCommit(r, t) ==
    /\ staged[t] # NoArchive
    /\ Begin(r, [Idle EXCEPT !.pc = "tx", !.kase = staged[t].kase, !.token = t, !.arch = staged[t]])
    /\ UNCHANGED <<tables, disk, staged, downloads, used, mixing, mixed, disturbed, imported>>

\* The deferred removeStaged.
Unstage(r) == staged' = [t \in Tokens |-> IF t = req[r].token THEN NoArchive ELSE staged[t]]

\* Wrong variant: the case row itself is not looked for.
CollidesRowsOnly(a) ==
    \/ Ids(a.assets) \cap Ids(assets) # {}
    \/ Ids(a.events) \cap Ids(events) # {}
    \/ Ids(a.comments) \cap Ids(comments) # {}
    \/ Ids(a.logs) \cap Ids(logs) # {}

\* assertNoCollisions.
Collides(a) ==
    \/ a.kase \in cases
    \/ Ids(a.assets) \cap Ids(assets) # {}
    \/ Ids(a.events) \cap Ids(events) # {}
    \/ Ids(a.comments) \cap Ids(comments) # {}
    \/ Ids(a.logs) \cap Ids(logs) # {}

\* SaveEvent writes a stub for each linked asset, which does nothing if the
\* asset is there and breaks the foreign key to its case otherwise.
LinksHold(a) == \A e \in a.events : e.links \subseteq Ids(a.assets) \cup Ids(assets)

\* ImportCaseArchive: one transaction.
ImportTx(r) ==
    LET a == req[r].arch
    IN  /\ req[r].pc = "tx"
        /\ ~Collides(a) /\ LinksHold(a)
        /\ cases' = cases \cup {a.kase}
        /\ assets' = assets \cup a.assets
        /\ events' = events \cup a.events
        /\ comments' = comments \cup a.comments
        /\ logs' = logs \cup a.logs
        /\ req' = [req EXCEPT ![r].pc = IF req[r].token = NoToken THEN "copy" ELSE "restore",
                              ![r].left = Budget]
        /\ mixed' = IF a.mixed THEN mixed \cup {a.kase} ELSE mixed \ {a.kase}
        /\ imported' = IF req[r].token # NoToken THEN imported \cup {a.kase} ELSE imported
        /\ disturbed' = IF \E q \in Requests : req[q].pc = "rmdir" /\ req[q].kase = a.kase
                        THEN disturbed \cup {a.kase} ELSE disturbed
        /\ UNCHANGED <<disk, staged, downloads, used, mixing, begun>>

\* Wrong variant: the files are restored although the transaction failed.
ImportRefusedGoesOn(r) ==
    /\ req[r].pc = "tx" /\ Collides(req[r].arch)
    /\ req' = [req EXCEPT ![r].pc = "restore", ![r].left = Budget]
    /\ UNCHANGED <<tables, disk, staged, downloads, hist>>

ImportRefused(r) ==
    /\ req[r].pc = "tx"
    /\ Collides(req[r].arch) \/ ~LinksHold(req[r].arch)
    /\ End(r) /\ Unstage(r)
    /\ UNCHANGED <<tables, disk, downloads, hist>>

Smaller(m, n) == IF m < n THEN m ELSE n

\* Wrong variants: an overrun is not noticed; the copy stops at the budget.
RestoreFileUnchecked(r) ==
    LET i == req[r].next
        n == Smaller(req[r].arch.sizes[i], req[r].left + 1)
    IN  /\ req[r].pc = "restore" /\ i \in Slots
        /\ disk' = IF req[r].arch.sizes[i] = 0 THEN disk ELSE [disk EXCEPT ![req[r].kase][i] = n]
        /\ req' = [req EXCEPT ![r].next = i + 1, ![r].left = @ - n]
        /\ UNCHANGED <<tables, staged, downloads, hist>>

RestoreFileToBudget(r) ==
    LET i == req[r].next
        n == Smaller(req[r].arch.sizes[i], req[r].left)
    IN  /\ req[r].pc = "restore" /\ i \in Slots
        /\ disk' = IF req[r].arch.sizes[i] = 0 THEN disk ELSE [disk EXCEPT ![req[r].kase][i] = n]
        /\ req' = [req EXCEPT ![r].next = i + 1, ![r].left = @ - n]
        /\ UNCHANGED <<tables, staged, downloads, hist>>

\* writeZipFile reads one byte past the budget to tell that a file is too
\* large; what it has written stays.
RestoreFile(r) ==
    LET i == req[r].next
        n == Smaller(req[r].arch.sizes[i], req[r].left + 1)
    IN  /\ req[r].pc = "restore" /\ i \in Slots
        /\ disk' = IF req[r].arch.sizes[i] = 0 THEN disk ELSE [disk EXCEPT ![req[r].kase][i] = n]
        /\ IF n > req[r].left
           THEN End(r) /\ Unstage(r)
           ELSE req' = [req EXCEPT ![r].next = i + 1, ![r].left = @ - n] /\ UNCHANGED staged
        /\ UNCHANGED <<tables, downloads, hist>>

\* The importer is given access to the case (or is not, by an error).
Grant(r) ==
    /\ req[r].pc = "restore" /\ req[r].next \notin Slots
    /\ End(r) /\ Unstage(r)
    /\ UNCHANGED <<tables, disk, downloads, hist>>

\* os.CopyFS from the source's directories: an error, logged, stops it.
CopyFiles(r) ==
    /\ req[r].pc = "copy"
    /\ \E done \in SUBSET Slots :
         disk' = [disk EXCEPT ![req[r].kase] = [i \in Slots |-> IF i \in done THEN disk[Source][i] ELSE @[i]]]
    /\ End(r)
    /\ UNCHANGED <<tables, staged, downloads, hist>>

\* A query, the transaction or a file operation fails: the request is over.
Fails(r) ==
    /\ req[r].pc \notin {"idle", "copy", "rmdir"}
    /\ \/ req[r].pc # "restore" /\ UNCHANGED disk
       \/ /\ req[r].pc = "restore" /\ req[r].next \in Slots
          /\ LET size == req[r].arch.sizes[req[r].next]
             IN  /\ size > 0
                 /\ \E n \in 0..Smaller(size, req[r].left) : disk' = [disk EXCEPT ![req[r].kase][req[r].next] = n]
    /\ End(r) /\ Unstage(r)
    /\ mixing' = mixing \ {r}
    /\ UNCHANGED <<tables, downloads, used, mixed, disturbed, imported, begun>>

-----------------------------------------------------------------------------
(* CaseDelete.                                                              *)

\* DeleteCase: rows cascade, comments are deleted, evidence logs stay.
Delete(r, c) ==
    /\ c \in cases
    /\ Begin(r, [Idle EXCEPT !.pc = "rmdir", !.kase = c])
    /\ cases' = cases \ {c}
    /\ assets' = assets \ Of(assets, c)
    /\ events' = events \ Of(events, c)
    /\ comments' = comments \ Of(comments, c)
    /\ Touch(c)
    /\ disturbed' = IF \E q \in Writing : req[q].kase = c THEN disturbed \cup {c} ELSE disturbed
    /\ imported' = imported \ {c}
    /\ UNCHANGED <<logs, disk, staged, downloads, used, mixed>>

RemoveDir(r) ==
    /\ req[r].pc = "rmdir"
    /\ disk' = [disk EXCEPT ![req[r].kase] = NoFiles]
    /\ End(r)
    /\ UNCHANGED <<tables, staged, downloads, hist>>

\* An error is logged; the files stay.
RemoveDirFails(r) ==
    /\ req[r].pc = "rmdir"
    /\ disturbed' = disturbed \cup {req[r].kase}
    /\ End(r)
    /\ UNCHANGED <<tables, disk, staged, downloads, used, mixing, mixed, imported, begun>>

\* The process dies; it counts as one of the MaxBegun.
Crash ==
    /\ begun < MaxBegun /\ begun' = begun + 1
    /\ req' = [r \in Requests |-> Idle]
    /\ disturbed' = disturbed \cup {req[r].kase : r \in {q \in Requests : req[q].pc = "rmdir"}}
    /\ mixing' = {}
    /\ UNCHANGED <<tables, disk, staged, downloads, used, mixed, imported>>

Next ==
    \/ AddAsset(Source) \/ AddEvent(Source) \/ AddLog(Source)
    \/ \E a \in Of(assets, Source) : DeleteAsset(a) \/ AddComment(a)
    \/ \E t \in Tokens : Upload(t)
    \/ \E r \in Requests :
         \/ \E dst \in Cases : BeginExport(r, dst)
         \/ ReadAssets(r) \/ ReadEvents(r) \/ ReadComments(r) \/ ReadLogs(r) \/ Download(r)
         \/ \E t \in Tokens : BeginCommit(r, t)
         \/ ImportTx(r) \/ ImportRefused(r) \/ RestoreFile(r) \/ Grant(r)
         \/ CopyFiles(r) \/ Fails(r)
         \/ \E c \in Cases : Delete(r, c)
         \/ RemoveDir(r) \/ RemoveDirFails(r)
    \/ Crash

Spec == Init /\ [][Next]_vars

-----------------------------------------------------------------------------
(* Properties.                                                              *)

\* Whatever an edit did to an export that was under way, and whatever ids a
\* fork or an import brings, no event ends up linked to an asset of another
\* case or of none (ExportCaseArchive, ForkCase, ImportCaseArchive).
LinksStayInCase ==
    \A e \in events : \A l \in e.links : [id |-> l, kase |-> e.kase] \in assets

\* Comments have no foreign key; still no deletion, fork or import leaves one
\* without its object, unless the case was edited while it was exported
\* (DeleteAsset, DeleteCase, ForkCase).
CommentsHaveObjects ==
    \A m \in comments :
        [id |-> m.object, kase |-> m.kase] \in assets \/ m.kase \in mixed

\* A refused or failed import never leaves files behind ("do them last so a
\* DB failure never strands files on disk"): there are files of a case that
\* does not exist only until its deletion ends, or if that was disturbed.
NoStrayFiles ==
    \A c \in Cases \ cases :
        \/ disk[c] = NoFiles
        \/ c \in disturbed
        \/ \E r \in Requests : req[r].pc = "rmdir" /\ req[r].kase = c

\* However often an archive is uploaded and committed, only one request at
\* a time fills a case's directories (assertNoCollisions, CommitImport).
OneWriterPerCase ==
    \A r, q \in Writing : r # q /\ req[r].kase = req[q].kase => req[r].kase \in disturbed

\* A file the import takes for restored is complete, one cut off by the size
\* budget ends it (restoreBinaries, writeZipFile) ...
FilesAreWhole ==
    \A r \in Requests : req[r].pc = "restore" /\ req[r].kase \notin disturbed =>
        \A i \in Slots : i < req[r].next => disk[req[r].kase][i] = req[r].arch.sizes[i]

\* ... and all the binaries of an import together take no more than the
\* budget and the one byte that is read past it.
WithinBudget == \A c \in imported \ disturbed : SumFunction(disk[c]) <= Budget + 1

\* Both: what an import restores is whole and within bounds.
RestoredFilesAreWhole == FilesAreWhole /\ WithinBudget

=============================================================================
