--------------------------- MODULE CaseArchiveProofs ---------------------------
(***************************************************************************)
(* Proofs about CaseArchive, for any number of requests, forks, tokens,    *)
(* rows and binaries.                                                      *)
(*                                                                         *)
(* What carries them: every row and every archive has only ids that belong *)
(* to its case (RowsInv, StoreInv); an export that no edit has overlapped  *)
(* still sees the rows it has read (ViewInv); a case that is filled exists *)
(* or was disturbed (WriterInv); the binaries an import has not come to    *)
(* are not there yet (FilesInv); and what it has written and what is left  *)
(* of its budget add up to the budget (BudgetInv), for which sums are      *)
(* dealt with by induction over the subsets of Slots.                      *)
(***************************************************************************)
EXTENDS CaseArchive, FiniteSetTheorems, WellFoundedInduction, TLAPS

\* The ids a row of a case can have: those of another case are all fresh.
IdsOf(base, c) == IF c = Source THEN base ELSE {Fresh(c, b) : b \in base}

AssetsOf(c)   == [id : IdsOf(AssetIds, c), kase : {c}]
EventsOf(c)   == [id : IdsOf(EventIds, c), kase : {c}, links : SUBSET IdsOf(AssetIds, c)]
CommentsOf(c) == [id : IdsOf(CommentIds, c), kase : {c}, object : IdsOf(AssetIds, c)]
LogsOf(c)     == [id : IdsOf(LogIds, c), kase : {c}]

\* An archive with the rows of its case only ...
OwnRows(a) ==
    /\ a.assets \subseteq AssetsOf(a.kase) /\ a.events \subseteq EventsOf(a.kase)
    /\ a.comments \subseteq CommentsOf(a.kase) /\ a.logs \subseteq LogsOf(a.kase)

\* ... and, unless an edit overlapped its export, no comment without its object.
Stored == {a \in Archives :
    /\ OwnRows(a)
    /\ a.mixed \/ \A m \in a.comments : [id |-> m.object, kase |-> a.kase] \in a.assets}

Reading == {"assets", "events", "comments", "logs"}

Records ==
    [pc : {"idle", "files", "tx", "restore", "copy", "rmdir"} \cup Reading,
     kase : Cases \cup {NoCase}, token : Tokens \cup {NoToken},
     arch : Archives \cup {NoArchive}, next : 1..(Cardinality(Slots) + 1), left : 0..Budget]

\* What a request remembers depends on how far it has come.
Remembered == {q \in Records :
    /\ q.pc \in Reading =>
         q.arch \in Archives /\ q.arch.kase = Source /\ OwnRows(q.arch) /\ q.kase \in {Source} \cup Forks
    /\ q.pc = "files" => q.arch \in Stored /\ q.arch.kase = Source
    /\ q.pc \in {"tx", "restore", "copy"} => q.arch \in Stored /\ q.arch.kase = q.kase
    /\ q.pc = "rmdir" => q.kase \in Cases
    /\ q.pc # "restore" => q.next = 1}

TablesInv ==
    /\ cases \subseteq Cases
    /\ \A x \in assets   : x.kase \in cases /\ x \in AssetsOf(x.kase)
    /\ \A x \in events   : x.kase \in cases /\ x \in EventsOf(x.kase)
    /\ \A x \in comments : x.kase \in cases /\ x \in CommentsOf(x.kase)
    /\ \A x \in logs     : x.kase \in Cases /\ x \in LogsOf(x.kase)

RowsInv == TablesInv /\ LinksStayInCase /\ CommentsHaveObjects

StoreInv == downloads \subseteq Stored /\ staged \in [Tokens -> Stored \cup {NoArchive}]

ReqInv == req \in [Requests -> Remembered]

\* What an export has read is what is there, unless an edit has overlapped it.
Views(q) ==
    /\ Source \in cases
    /\ q.pc # "assets" => q.arch.assets = Of(assets, Source)
    /\ q.pc = "logs" => q.arch.comments = Of(comments, Source)

ViewInv == \A r \in Requests \ mixing : req[r].pc \in Reading => Views(req[r])

\* A case that is being filled is there, or was deleted meanwhile.
WritersHaveCases ==
    \A r \in Writing :
        /\ req[r].kase \in cases \cup disturbed
        /\ \A q \in Requests : req[q].pc = "rmdir" /\ req[q].kase = req[r].kase => req[r].kase \in disturbed

WriterInv == WritersHaveCases /\ OneWriterPerCase

\* Of an import's binaries those before the next are there, the others not yet.
RestoredSoFar ==
    \A r \in Requests : req[r].pc = "restore" /\ req[r].kase \notin disturbed =>
        \A i \in Slots : disk[req[r].kase][i] = IF i < req[r].next THEN req[r].arch.sizes[i] ELSE 0

FilesInv == disk \in [Cases -> [Slots -> Nat]] /\ NoStrayFiles /\ RestoredSoFar

HistInv ==
    /\ mixing \subseteq Requests /\ mixed \subseteq Cases
    /\ disturbed \subseteq Cases /\ imported \subseteq Cases /\ begun \in 0..MaxBegun

ArchiveInv == RowsInv /\ StoreInv /\ ReqInv /\ ViewInv /\ WriterInv /\ FilesInv /\ HistInv

-----------------------------------------------------------------------------
(* Ids, archives and types.                                                 *)

\* Two cases share no id of an asset.
LEMMA IdsApart ==
    ASSUME NEW c \in Cases, NEW d \in Cases, NEW l \in IdsOf(AssetIds, c), l \in IdsOf(AssetIds, d)
    PROVE  c = d
<1>1. CASE c = Source /\ d = Source BY <1>1
<1>2. CASE c # Source /\ d # Source
  <2>1. PICK b \in AssetIds : l = Fresh(c, b) BY <1>2 DEF IdsOf
  <2>2. PICK e \in AssetIds : l = Fresh(d, e) BY <1>2 DEF IdsOf
  <2> QED BY <2>1, <2>2 DEF Fresh
<1>3. CASE c = Source /\ d # Source
  <2>1. PICK e \in AssetIds : l = Fresh(d, e) BY <1>3 DEF IdsOf
  <2> QED BY <2>1, <1>3, ArchiveAssumption DEF IdsOf
<1>4. CASE c # Source /\ d = Source
  <2>1. PICK e \in AssetIds : l = Fresh(c, e) BY <1>4 DEF IdsOf
  <2> QED BY <2>1, <1>4, ArchiveAssumption DEF IdsOf
<1> QED BY <1>1, <1>2, <1>3, <1>4

\* The rows of a case are rows, its ids ids.
LEMMA RowsTyped ==
    ASSUME NEW c \in Cases
    PROVE  /\ AssetsOf(c) \subseteq Assets /\ EventsOf(c) \subseteq Events
           /\ CommentsOf(c) \subseteq Comments /\ LogsOf(c) \subseteq Logs
<1>1. ASSUME NEW base PROVE IdsOf(base, c) \subseteq AllIds(base)
  <2>1. CASE c = Source BY <2>1 DEF IdsOf, AllIds
  <2>2. CASE c # Source
    <3> SUFFICES ASSUME NEW b \in base PROVE Fresh(c, b) \in AllIds(base) BY <2>2 DEF IdsOf
    <3> QED BY <2>2 DEF AllIds
  <2> QED BY <2>1, <2>2
<1>2. /\ IdsOf(AssetIds, c) \subseteq AllIds(AssetIds) /\ IdsOf(EventIds, c) \subseteq AllIds(EventIds)
      /\ IdsOf(CommentIds, c) \subseteq AllIds(CommentIds) /\ IdsOf(LogIds, c) \subseteq AllIds(LogIds)
  BY <1>1
<1> QED BY <1>2 DEF AssetsOf, EventsOf, CommentsOf, LogsOf, Assets, Events, Comments, Logs

LEMMA SlotsNat == Cardinality(Slots) \in Nat /\ Slots = 1..Cardinality(Slots)
BY ArchiveAssumption, FS_CardinalityType

LEMMA SourceIsCase == Source \in Cases /\ Elsewhere \in Cases /\ Forks \subseteq Cases BY DEF Cases

LEMMA NoFilesTyped == NoFiles \in [Slots -> Nat] BY DEF NoFiles

\* An idle request remembers nothing.
LEMMA IdleRemembered == Idle \in Remembered
<1>1. Idle \in Records
  <2>1. 1 \in 1..(Cardinality(Slots) + 1) BY SlotsNat
  <2>2. 0 \in 0..Budget BY ArchiveAssumption
  <2> QED BY <2>1, <2>2 DEF Idle, Records
<1> QED BY <1>1 DEF Idle, Remembered, Reading

\* The properties and the types follow from the invariant.
LEMMA InvTypes == ArchiveInv => TypeOK
<1> SUFFICES ASSUME ArchiveInv PROVE TypeOK OBVIOUS
<1>1. cases \subseteq Cases BY DEF ArchiveInv, RowsInv, TablesInv
<1>2. assets \subseteq Assets /\ events \subseteq Events
  BY <1>1, RowsTyped DEF ArchiveInv, RowsInv, TablesInv
<1>3. comments \subseteq Comments /\ logs \subseteq Logs
  BY <1>1, RowsTyped DEF ArchiveInv, RowsInv, TablesInv
<1>4. disk \in [Cases -> [Slots -> Nat]] BY DEF ArchiveInv, FilesInv
<1>5. \A r \in Requests : req[r] \in Records BY DEF ArchiveInv, ReqInv, Remembered
<1>6. ASSUME NEW a \in downloads \cup {staged[t] : t \in Tokens} \cup {req[r].arch : r \in Requests}
      PROVE  a \in Archives \cup {NoArchive}
  <2>1. CASE a \in downloads BY <2>1 DEF ArchiveInv, StoreInv, Stored
  <2>2. CASE a \in {staged[t] : t \in Tokens} BY <2>2 DEF ArchiveInv, StoreInv, Stored
  <2>3. CASE a \in {req[r].arch : r \in Requests} BY <2>3, <1>5 DEF Records
  <2> QED BY <1>6, <2>1, <2>2, <2>3
<1>7. ASSUME NEW r \in Requests
      PROVE  /\ req[r].pc \in {"idle", "assets", "events", "comments", "logs", "files",
                               "tx", "restore", "copy", "rmdir"}
             /\ req[r].kase \in Cases \cup {NoCase} /\ req[r].token \in Tokens \cup {NoToken}
             /\ req[r].next \in 1..(Cardinality(Slots) + 1) /\ req[r].left \in 0..Budget
  BY <1>5 DEF Records, Reading
<1>8. HistInv BY DEF ArchiveInv
<1> QED BY <1>1, <1>2, <1>3, <1>4, <1>6, <1>7, <1>8 DEF TypeOK, HistInv

-----------------------------------------------------------------------------
(* Edits.                                                                   *)

\* An edit of Source, which every export that reads Source is told of, has
\* only to keep the rows in order.
LEMMA EditKeeps ==
    ASSUME ArchiveInv, Touch(Source), RowsInv',
           UNCHANGED <<cases, disk, staged, downloads, req, mixed, disturbed, imported, begun>>
    PROVE  ArchiveInv'
<1>1. StoreInv' /\ ReqInv' BY DEF ArchiveInv, StoreInv, ReqInv
<1>2. ViewInv'
  <2> SUFFICES ASSUME NEW r \in Requests \ mixing', req[r].pc \in Reading PROVE FALSE
    BY DEF ViewInv
  <2>1. req[r] \in Remembered BY DEF ArchiveInv, ReqInv
  <2>2. req[r].arch.kase = Source BY <2>1 DEF Remembered
  <2>3. r \in Exporting(Source) BY <2>2 DEF Exporting, Reading
  <2> QED BY <2>3 DEF Touch
<1>3. WriterInv' BY DEF ArchiveInv, WriterInv, WritersHaveCases, OneWriterPerCase, Writing
<1>4. FilesInv' BY DEF ArchiveInv, FilesInv, NoStrayFiles, RestoredSoFar
<1>5. HistInv'
  <2>1. Exporting(Source) \subseteq Requests BY DEF Exporting
  <2> QED BY <2>1 DEF ArchiveInv, HistInv, Touch
<1> QED BY <1>1, <1>2, <1>3, <1>4, <1>5 DEF ArchiveInv

LEMMA AddAssetKeeps == ASSUME ArchiveInv, AddAsset(Source) PROVE ArchiveInv'
<1>1. PICK id \in AssetIds : assets' = assets \cup {[id |-> id, kase |-> Source]} BY DEF AddAsset
<1>2. [id |-> id, kase |-> Source] \in AssetsOf(Source) BY DEF AssetsOf, IdsOf
<1>3. TablesInv'
  BY <1>1, <1>2 DEF ArchiveInv, RowsInv, TablesInv, AddAsset
<1>4. LinksStayInCase' BY <1>1 DEF ArchiveInv, RowsInv, LinksStayInCase, AddAsset
<1>5. CommentsHaveObjects' BY <1>1 DEF ArchiveInv, RowsInv, CommentsHaveObjects, AddAsset
<1>6. RowsInv' BY <1>3, <1>4, <1>5 DEF RowsInv
<1> QED BY <1>6, EditKeeps DEF AddAsset

LEMMA AddEventKeeps == ASSUME ArchiveInv, AddEvent(Source) PROVE ArchiveInv'
<1>1. PICK id \in EventIds, links \in SUBSET Ids(Of(assets, Source)) :
        events' = events \cup {[id |-> id, kase |-> Source, links |-> links]} BY DEF AddEvent
<1>2. ASSUME NEW l \in links
      PROVE  l \in IdsOf(AssetIds, Source) /\ [id |-> l, kase |-> Source] \in assets
  <2>1. PICK x \in assets : x.kase = Source /\ x.id = l BY DEF Ids, Of
  <2>2. x \in AssetsOf(Source) BY <2>1 DEF ArchiveInv, RowsInv, TablesInv
  <2>3. l \in IdsOf(AssetIds, Source) BY <2>1, <2>2 DEF AssetsOf
  <2>4. x = [id |-> l, kase |-> Source] BY <2>1, <2>2 DEF AssetsOf
  <2> QED BY <2>3, <2>4
<1>3. [id |-> id, kase |-> Source, links |-> links] \in EventsOf(Source)
  <2>1. links \in SUBSET IdsOf(AssetIds, Source) BY <1>2
  <2>2. id \in IdsOf(EventIds, Source) BY DEF IdsOf
  <2> QED BY <2>1, <2>2 DEF EventsOf
<1>4. TablesInv' BY <1>1, <1>3 DEF ArchiveInv, RowsInv, TablesInv, AddEvent
<1>5. LinksStayInCase'
  <2> SUFFICES ASSUME NEW e \in events', NEW l \in e.links
               PROVE  [id |-> l, kase |-> e.kase] \in assets
    BY DEF LinksStayInCase, AddEvent
  <2>1. CASE e \in events BY <2>1 DEF ArchiveInv, RowsInv, LinksStayInCase
  <2>2. CASE e = [id |-> id, kase |-> Source, links |-> links]
    <3>1. l \in links /\ e.kase = Source BY <2>2
    <3> QED BY <3>1, <1>2
  <2> QED BY <2>1, <2>2, <1>1
<1>6. CommentsHaveObjects' BY DEF ArchiveInv, RowsInv, CommentsHaveObjects, AddEvent
<1>7. RowsInv' BY <1>4, <1>5, <1>6 DEF RowsInv
<1> QED BY <1>7, EditKeeps DEF AddEvent

LEMMA AddLogKeeps == ASSUME ArchiveInv, AddLog(Source) PROVE ArchiveInv'
<1>1. PICK id \in LogIds : logs' = logs \cup {[id |-> id, kase |-> Source]} BY DEF AddLog
<1>2. [id |-> id, kase |-> Source] \in LogsOf(Source) BY DEF LogsOf, IdsOf
<1>3. TablesInv' BY <1>1, <1>2, SourceIsCase DEF ArchiveInv, RowsInv, TablesInv, AddLog
<1>4. LinksStayInCase' BY DEF ArchiveInv, RowsInv, LinksStayInCase, AddLog
<1>5. CommentsHaveObjects' BY DEF ArchiveInv, RowsInv, CommentsHaveObjects, AddLog
<1>6. RowsInv' BY <1>3, <1>4, <1>5 DEF RowsInv
<1> QED BY <1>6, EditKeeps DEF AddLog

LEMMA DeleteAssetKeeps ==
    ASSUME ArchiveInv, NEW a \in Of(assets, Source), DeleteAsset(a) PROVE ArchiveInv'
<1>1. a.kase = Source /\ a = [id |-> a.id, kase |-> a.kase]
  BY DEF Of, ArchiveInv, RowsInv, TablesInv, AssetsOf
<1>2. ASSUME NEW e \in events'
      PROVE  \E o \in events : e.id = o.id /\ e.kase = o.kase /\ e.links = o.links \ {a.id} /\ e \in EventsOf(e.kase)
  <2>1. PICK o \in events : e = [o EXCEPT !.links = @ \ {a.id}] BY DEF DeleteAsset
  <2>2. o \in EventsOf(o.kase) BY DEF ArchiveInv, RowsInv, TablesInv
  <2>3. e.id = o.id /\ e.kase = o.kase /\ e.links = o.links \ {a.id} BY <2>1, <2>2 DEF EventsOf
  <2>4. e \in EventsOf(o.kase) BY <2>1, <2>2 DEF EventsOf
  <2> QED BY <2>3, <2>4
<1>3. TablesInv'
  <2>1. cases' \subseteq Cases BY DEF ArchiveInv, RowsInv, TablesInv, DeleteAsset
  <2>2. \A x \in assets' : x.kase \in cases' /\ x \in AssetsOf(x.kase)
    BY DEF ArchiveInv, RowsInv, TablesInv, DeleteAsset
  <2>3. \A x \in events' : x.kase \in cases' /\ x \in EventsOf(x.kase)
    BY <1>2 DEF ArchiveInv, RowsInv, TablesInv, DeleteAsset
  <2>4. \A x \in comments' : x.kase \in cases' /\ x \in CommentsOf(x.kase)
    BY DEF ArchiveInv, RowsInv, TablesInv, DeleteAsset
  <2>5. \A x \in logs' : x.kase \in Cases /\ x \in LogsOf(x.kase)
    BY DEF ArchiveInv, RowsInv, TablesInv, DeleteAsset
  <2> QED BY <2>1, <2>2, <2>3, <2>4, <2>5 DEF TablesInv
<1>4. LinksStayInCase'
  <2> SUFFICES ASSUME NEW e \in events', NEW l \in e.links
               PROVE  [id |-> l, kase |-> e.kase] \in assets'
    BY DEF LinksStayInCase
  <2>1. PICK o \in events : e.kase = o.kase /\ e.links = o.links \ {a.id} BY <1>2
  <2>2. [id |-> l, kase |-> e.kase] \in assets BY <2>1 DEF ArchiveInv, RowsInv, LinksStayInCase
  <2>3. l # a.id BY <2>1
  <2>4. [id |-> l, kase |-> e.kase].id = l OBVIOUS
  <2> QED BY <2>2, <2>3, <2>4 DEF DeleteAsset
<1>5. CommentsHaveObjects'
  <2> SUFFICES ASSUME NEW m \in comments', m.kase \notin mixed
               PROVE  [id |-> m.object, kase |-> m.kase] \in assets'
    BY DEF CommentsHaveObjects, DeleteAsset
  <2>1. m \in comments /\ (m.kase # a.kase \/ m.object # a.id) BY DEF DeleteAsset
  <2>2. [id |-> m.object, kase |-> m.kase] \in assets
    BY <2>1 DEF ArchiveInv, RowsInv, CommentsHaveObjects
  <2>3. [id |-> m.object, kase |-> m.kase].id = m.object /\ [id |-> m.object, kase |-> m.kase].kase = m.kase OBVIOUS
  <2> QED BY <2>1, <2>2, <2>3 DEF DeleteAsset
<1>6. RowsInv' BY <1>3, <1>4, <1>5 DEF RowsInv
<1> QED BY <1>1, <1>6, EditKeeps DEF DeleteAsset

LEMMA AddCommentKeeps ==
    ASSUME ArchiveInv, NEW a \in Of(assets, Source), AddComment(a) PROVE ArchiveInv'
<1>1. a \in AssetsOf(Source) /\ a.kase = Source /\ a \in assets
  BY DEF Of, ArchiveInv, RowsInv, TablesInv
<1>2. a = [id |-> a.id, kase |-> Source] /\ a.id \in IdsOf(AssetIds, Source) BY <1>1 DEF AssetsOf
<1>3. PICK id \in CommentIds :
        comments' = comments \cup {[id |-> id, kase |-> Source, object |-> a.id]}
  BY <1>1 DEF AddComment
<1>4. [id |-> id, kase |-> Source, object |-> a.id] \in CommentsOf(Source)
  <2>1. id \in IdsOf(CommentIds, Source) BY DEF IdsOf
  <2> QED BY <2>1, <1>2 DEF CommentsOf
<1>5. Source \in cases BY <1>1 DEF ArchiveInv, RowsInv, TablesInv
<1>6. TablesInv' BY <1>3, <1>4, <1>5 DEF ArchiveInv, RowsInv, TablesInv, AddComment
<1>7. LinksStayInCase' BY DEF ArchiveInv, RowsInv, LinksStayInCase, AddComment
<1>8. CommentsHaveObjects'
  <2> SUFFICES ASSUME NEW m \in comments'
               PROVE  [id |-> m.object, kase |-> m.kase] \in assets \/ m.kase \in mixed
    BY DEF CommentsHaveObjects, AddComment
  <2>1. CASE m \in comments BY <2>1 DEF ArchiveInv, RowsInv, CommentsHaveObjects
  <2>2. CASE m = [id |-> id, kase |-> Source, object |-> a.id]
    <3>1. m.object = a.id /\ m.kase = Source BY <2>2
    <3> QED BY <3>1, <1>1, <1>2
  <2> QED BY <2>1, <2>2, <1>3
<1>9. RowsInv' BY <1>6, <1>7, <1>8 DEF RowsInv
<1> QED BY <1>1, <1>9, EditKeeps DEF AddComment

-----------------------------------------------------------------------------
(* One request moves on.                                                    *)

LEMMA OneChanges ==
    ASSUME ReqInv, NEW r \in Requests, NEW q \in Remembered, req' = [req EXCEPT ![r] = q]
    PROVE  ReqInv' /\ req'[r] = q /\ \A p \in Requests : p # r => req'[p] = req[p]
BY DEF ReqInv

LEMMA RowsKeep == ASSUME RowsInv, UNCHANGED <<tables, mixed>> PROVE RowsInv'
BY DEF RowsInv, TablesInv, LinksStayInCase, CommentsHaveObjects, tables

\* The other exports see what they saw.
LEMMA ViewKeeps ==
    ASSUME ArchiveInv, NEW r \in Requests, NEW q \in Remembered, req' = [req EXCEPT ![r] = q],
           UNCHANGED tables, mixing \ {r} \subseteq mixing',
           q.pc \in Reading /\ r \notin mixing' => Views(q)
    PROVE  ViewInv'
<1>1. req'[r] = q /\ \A p \in Requests : p # r => req'[p] = req[p]
  BY OneChanges DEF ArchiveInv
<1> SUFFICES ASSUME NEW p \in Requests \ mixing', req'[p].pc \in Reading PROVE Views(req'[p])
  BY DEF ViewInv, Views, Of, tables
<1>2. CASE p = r BY <1>1, <1>2
<1>3. CASE p # r
  <2>1. p \in Requests \ mixing /\ req'[p] = req[p] BY <1>1, <1>3
  <2> QED BY <2>1 DEF ArchiveInv, ViewInv
<1> QED BY <1>2, <1>3

\* A step that begins neither to write files nor to remove them.
LEMMA WritersKeep ==
    ASSUME ArchiveInv, NEW r \in Requests, NEW q \in Remembered, req' = [req EXCEPT ![r] = q],
           cases \subseteq cases', disturbed \subseteq disturbed',
           q.pc \in {"restore", "copy", "rmdir"} => q.pc = req[r].pc /\ q.kase = req[r].kase
    PROVE  WriterInv'
<1>1. req'[r] = q /\ \A p \in Requests : p # r => req'[p] = req[p]
  BY OneChanges DEF ArchiveInv
<1>2. ASSUME NEW p \in Requests, req'[p].pc \in {"restore", "copy", "rmdir"}
      PROVE  req[p].pc = req'[p].pc /\ req[p].kase = req'[p].kase
  BY <1>1, <1>2
<1>3. Writing' \subseteq Writing BY <1>2 DEF Writing
<1>4. WritersHaveCases'
  <2> SUFFICES ASSUME NEW p \in Writing'
               PROVE  /\ req'[p].kase \in cases' \cup disturbed'
                      /\ \A s \in Requests : req'[s].pc = "rmdir" /\ req'[s].kase = req'[p].kase =>
                           req'[p].kase \in disturbed'
    BY DEF WritersHaveCases
  <2>1. p \in Writing /\ req[p].kase = req'[p].kase BY <1>2, <1>3 DEF Writing
  <2>2. req'[p].kase \in cases' \cup disturbed'
    BY <2>1 DEF ArchiveInv, WriterInv, WritersHaveCases
  <2>3. ASSUME NEW s \in Requests, req'[s].pc = "rmdir", req'[s].kase = req'[p].kase
        PROVE  req'[p].kase \in disturbed'
    BY <2>1, <2>3, <1>2 DEF ArchiveInv, WriterInv, WritersHaveCases
  <2> QED BY <2>2, <2>3
<1>5. OneWriterPerCase'
  <2> SUFFICES ASSUME NEW p \in Writing', NEW s \in Writing', p # s, req'[p].kase = req'[s].kase
               PROVE  req'[p].kase \in disturbed'
    BY DEF OneWriterPerCase
  <2>1. p \in Writing /\ s \in Writing /\ req[p].kase = req'[p].kase /\ req[s].kase = req'[s].kase
    BY <1>2, <1>3 DEF Writing
  <2> QED BY <2>1 DEF ArchiveInv, WriterInv, OneWriterPerCase
<1> QED BY <1>4, <1>5 DEF WriterInv

\* A step that leaves the files alone, and does not end a removal undone.
LEMMA FilesKeep ==
    ASSUME ArchiveInv, NEW r \in Requests, NEW q \in Remembered, req' = [req EXCEPT ![r] = q],
           cases \subseteq cases', disturbed \subseteq disturbed', UNCHANGED disk,
           q.pc # "restore", req[r].pc = "rmdir" => req[r].kase \in disturbed'
    PROVE  FilesInv'
<1>1. req'[r] = q /\ \A p \in Requests : p # r => req'[p] = req[p]
  BY OneChanges DEF ArchiveInv
<1>2. NoStrayFiles'
  <2> SUFFICES ASSUME NEW c \in Cases \ cases', disk[c] # NoFiles, c \notin disturbed'
               PROVE  \E p \in Requests : req'[p].pc = "rmdir" /\ req'[p].kase = c
    BY DEF NoStrayFiles, NoFiles
  <2>1. PICK p \in Requests : req[p].pc = "rmdir" /\ req[p].kase = c
    BY DEF ArchiveInv, FilesInv, NoStrayFiles
  <2> QED BY <1>1, <2>1
<1>3. RestoredSoFar'
  <2> SUFFICES ASSUME NEW p \in Requests, req'[p].pc = "restore", req'[p].kase \notin disturbed', NEW i \in Slots
               PROVE  disk[req'[p].kase][i] = IF i < req'[p].next THEN req'[p].arch.sizes[i] ELSE 0
    BY DEF RestoredSoFar
  <2>1. req'[p] = req[p] BY <1>1
  <2> QED BY <2>1 DEF ArchiveInv, FilesInv, RestoredSoFar
<1>4. (disk \in [Cases -> [Slots -> Nat]])' BY DEF ArchiveInv, FilesInv
<1> QED BY <1>2, <1>3, <1>4 DEF FilesInv

-----------------------------------------------------------------------------
(* The export of a case.                                                    *)

LEMMA BeginExportKeeps ==
    ASSUME ArchiveInv, NEW r \in Requests, NEW dst \in Cases, BeginExport(r, dst) PROVE ArchiveInv'
<1> DEFINE a == [kase |-> Source, assets |-> {}, events |-> {}, comments |-> {},
                 logs |-> {}, sizes |-> NoFiles, mixed |-> FALSE]
           q == [Idle EXCEPT !.pc = "assets", !.kase = dst, !.arch = a]
<1>1. /\ req[r].pc = "idle" /\ req' = [req EXCEPT ![r] = q]
      /\ begun < MaxBegun /\ begun' = begun + 1 /\ Source \in cases /\ dst \in {Source} \cup Forks
  BY DEF BeginExport, Begin
<1>2. UNCHANGED <<tables, disk, staged, downloads, mixing, mixed, disturbed, imported>> BY DEF BeginExport
<1>3. a \in Archives /\ a.kase = Source /\ OwnRows(a)
  BY SourceIsCase, NoFilesTyped DEF Archives, OwnRows
<1>4. /\ q.pc = "assets" /\ q.kase = dst /\ q.arch = a
      /\ q.token = NoToken /\ q.next = 1 /\ q \in Records
  <2>1. Idle \in Records /\ Idle.token = NoToken /\ Idle.next = 1
    BY IdleRemembered DEF Remembered, Idle
  <2> QED BY <1>3, <2>1 DEF Records, Reading
<1> HIDE DEF a, q
<1>5. q \in Remembered BY <1>1, <1>3, <1>4 DEF Remembered, Reading
<1>6. RowsInv' BY <1>2, RowsKeep DEF ArchiveInv
<1>7. StoreInv' BY <1>2 DEF ArchiveInv, StoreInv
<1>8. ReqInv' BY <1>1, <1>5, OneChanges DEF ArchiveInv
<1>9. Views(q) BY <1>1, <1>4 DEF Views
<1>10. ViewInv' BY <1>1, <1>2, <1>5, <1>9, ViewKeeps
<1>11. cases \subseteq cases' /\ disturbed \subseteq disturbed' /\ disk' = disk BY <1>2 DEF tables
<1>12. WriterInv' BY <1>1, <1>4, <1>5, <1>11, WritersKeep
<1>13. FilesInv' BY <1>1, <1>4, <1>5, <1>11, FilesKeep
<1>14. HistInv' BY <1>1, <1>2, ArchiveAssumption DEF ArchiveInv, HistInv
<1> QED BY <1>6, <1>7, <1>8, <1>10, <1>12, <1>13, <1>14 DEF ArchiveInv

\* A query of the export.
LEMMA ReadKeeps ==
    ASSUME ArchiveInv, NEW r \in Requests, NEW from \in Reading, NEW to \in Reading,
           NEW a \in Archives, Read(r, from, a, to), a.kase = Source, OwnRows(a),
           r \notin mixing => Views([req[r] EXCEPT !.pc = to, !.arch = a])
    PROVE  ArchiveInv'
<1> DEFINE q == [req[r] EXCEPT !.pc = to, !.arch = a]
<1>1. req[r].pc = from /\ UNCHANGED <<tables, disk, staged, downloads, hist>> BY DEF Read
<1>2. req' = [req EXCEPT ![r] = q] BY DEF Read
<1>3. req[r] \in Remembered /\ req[r] \in Records BY DEF ArchiveInv, ReqInv, Remembered
<1>4. /\ q.pc = to /\ q.kase = req[r].kase /\ q.arch = a /\ q \in Records
      /\ q.token = req[r].token /\ q.next = req[r].next
  BY <1>3 DEF Records, Reading
<1>5. r \notin mixing => Views(q) OBVIOUS
<1> HIDE DEF q
<1>6. q \in Remembered BY <1>1, <1>3, <1>4 DEF Remembered, Reading
<1>7. cases \subseteq cases' /\ disturbed \subseteq disturbed' /\ disk' = disk /\ mixing' = mixing /\ mixed' = mixed
  BY <1>1 DEF tables, hist
<1>8. RowsInv' BY <1>1, <1>7, RowsKeep DEF ArchiveInv
<1>9. StoreInv' BY <1>1 DEF ArchiveInv, StoreInv
<1>10. ReqInv' BY <1>2, <1>6, OneChanges DEF ArchiveInv
<1>11. ViewInv' BY <1>1, <1>2, <1>5, <1>6, <1>7, ViewKeeps
<1>12. WriterInv' BY <1>2, <1>4, <1>6, <1>7, WritersKeep DEF Reading
<1>13. FilesInv' BY <1>1, <1>2, <1>4, <1>6, <1>7, FilesKeep DEF Reading
<1>14. HistInv' BY <1>1 DEF ArchiveInv, HistInv, hist
<1> QED BY <1>8, <1>9, <1>10, <1>11, <1>12, <1>13, <1>14 DEF ArchiveInv

\* What is in the tables for Source are rows of its own.
LEMMA OfSource ==
    ASSUME RowsInv
    PROVE  /\ Of(assets, Source) \subseteq AssetsOf(Source)
           /\ Of(events, Source) \subseteq EventsOf(Source)
           /\ Of(comments, Source) \subseteq CommentsOf(Source)
           /\ Of(logs, Source) \subseteq LogsOf(Source)
BY DEF RowsInv, TablesInv, Of

LEMMA ReadingHolds ==
    ASSUME ArchiveInv, NEW r \in Requests, req[r].pc \in Reading
    PROVE  /\ req[r] \in Records /\ req[r].arch \in Archives /\ req[r].arch.kase = Source
           /\ OwnRows(req[r].arch) /\ req[r].kase \in {Source} \cup Forks
           /\ r \notin mixing => Views(req[r])
<1>1. req[r] \in Remembered BY DEF ArchiveInv, ReqInv
<1> QED BY <1>1 DEF Remembered, ArchiveInv, ViewInv

LEMMA ReadAssetsKeeps == ASSUME ArchiveInv, NEW r \in Requests, ReadAssets(r) PROVE ArchiveInv'
<1> DEFINE a == [req[r].arch EXCEPT !.assets = Of(assets, Source)]
           q == [req[r] EXCEPT !.pc = "events", !.arch = a]
<1>1. Read(r, "assets", a, "events") /\ req[r].pc \in Reading BY DEF ReadAssets, Read, Reading
<1>2. RowsInv BY DEF ArchiveInv
<1>3. Of(assets, Source) \subseteq AssetsOf(Source) /\ AssetsOf(Source) \subseteq Assets
  BY <1>2, OfSource, RowsTyped, SourceIsCase
<1>4. a \in Archives /\ a.kase = Source /\ OwnRows(a) /\ a.assets = Of(assets, Source)
  BY <1>1, <1>3, ReadingHolds DEF Archives, OwnRows
<1>5. q.pc = "events" /\ q.arch = a BY <1>1, ReadingHolds DEF Records
<1>6. r \notin mixing => Views(q) BY <1>1, <1>4, <1>5, ReadingHolds DEF Views
<1> HIDE DEF a
<1> QED BY <1>1, <1>4, <1>6, ReadKeeps DEF Reading

LEMMA ReadEventsKeeps == ASSUME ArchiveInv, NEW r \in Requests, ReadEvents(r) PROVE ArchiveInv'
<1> DEFINE a == [req[r].arch EXCEPT !.events = Of(events, Source)]
           q == [req[r] EXCEPT !.pc = "comments", !.arch = a]
<1>1. Read(r, "events", a, "comments") /\ req[r].pc = "events" /\ req[r].pc \in Reading
  BY DEF ReadEvents, Read, Reading
<1>2. RowsInv BY DEF ArchiveInv
<1>3. Of(events, Source) \subseteq EventsOf(Source) /\ EventsOf(Source) \subseteq Events
  BY <1>2, OfSource, RowsTyped, SourceIsCase
<1>4. a \in Archives /\ a.kase = Source /\ OwnRows(a) /\ a.assets = req[r].arch.assets
  BY <1>1, <1>3, ReadingHolds DEF Archives, OwnRows
<1>5. q.pc = "comments" /\ q.arch = a BY <1>1, ReadingHolds DEF Records
<1>6. r \notin mixing => Views(q) BY <1>1, <1>4, <1>5, ReadingHolds DEF Views
<1> HIDE DEF a
<1> QED BY <1>1, <1>4, <1>6, ReadKeeps DEF Reading

LEMMA ReadCommentsKeeps == ASSUME ArchiveInv, NEW r \in Requests, ReadComments(r) PROVE ArchiveInv'
<1> DEFINE a == [req[r].arch EXCEPT !.comments = Of(comments, Source)]
           q == [req[r] EXCEPT !.pc = "logs", !.arch = a]
<1>1. Read(r, "comments", a, "logs") /\ req[r].pc = "comments" /\ req[r].pc \in Reading
  BY DEF ReadComments, Read, Reading
<1>2. RowsInv BY DEF ArchiveInv
<1>3. Of(comments, Source) \subseteq CommentsOf(Source) /\ CommentsOf(Source) \subseteq Comments
  BY <1>2, OfSource, RowsTyped, SourceIsCase
<1>4. /\ a \in Archives /\ a.kase = Source /\ OwnRows(a)
      /\ a.assets = req[r].arch.assets /\ a.comments = Of(comments, Source)
  BY <1>1, <1>3, ReadingHolds DEF Archives, OwnRows
<1>5. q.pc = "logs" /\ q.arch = a BY <1>1, ReadingHolds DEF Records
<1>6. r \notin mixing => Views(q) BY <1>1, <1>4, <1>5, ReadingHolds DEF Views
<1> HIDE DEF a
<1> QED BY <1>1, <1>4, <1>6, ReadKeeps DEF Reading

\* A fork has the rows of what it was made from, under its own ids.
LEMMA RemapStored ==
    ASSUME NEW a \in Stored, a.kase = Source, NEW dst \in Forks
    PROVE  Remap(a, dst) \in Stored /\ Remap(a, dst).kase = dst
<1> DEFINE as == {[id |-> Fresh(dst, x.id), kase |-> dst] : x \in a.assets}
           es == {[id |-> Fresh(dst, x.id), kase |-> dst,
                   links |-> {Fresh(dst, l) : l \in x.links}] : x \in a.events}
           ms == {[id |-> Fresh(dst, x.id), kase |-> dst, object |-> Fresh(dst, x.object)] : x \in a.comments}
           gs == {[id |-> Fresh(dst, x.id), kase |-> dst] : x \in a.logs}
<1>1. a \in Archives /\ OwnRows(a) BY DEF Stored
<1>2. dst \in Cases /\ dst # Source BY SourceIsCase, ArchiveAssumption
<1>3. \A base, b : b \in IdsOf(base, Source) => Fresh(dst, b) \in IdsOf(base, dst) BY <1>2 DEF IdsOf
<1>4. as \subseteq AssetsOf(dst) BY <1>1, <1>3 DEF OwnRows, AssetsOf
<1>5. es \subseteq EventsOf(dst)
  <2> SUFFICES ASSUME NEW x \in a.events
               PROVE  /\ Fresh(dst, x.id) \in IdsOf(EventIds, dst)
                      /\ {Fresh(dst, l) : l \in x.links} \in SUBSET IdsOf(AssetIds, dst)
    BY DEF EventsOf
  <2>1. x \in EventsOf(Source) BY <1>1 DEF OwnRows
  <2>2. x.id \in IdsOf(EventIds, Source) /\ x.links \subseteq IdsOf(AssetIds, Source) BY <2>1 DEF EventsOf
  <2> QED BY <1>3, <2>2
<1>6. ms \subseteq CommentsOf(dst) BY <1>1, <1>3 DEF OwnRows, CommentsOf
<1>7. gs \subseteq LogsOf(dst) BY <1>1, <1>3 DEF OwnRows, LogsOf
<1>8. as \in SUBSET Assets /\ es \in SUBSET Events /\ ms \in SUBSET Comments /\ gs \in SUBSET Logs
  BY <1>2, <1>4, <1>5, <1>6, <1>7, RowsTyped
<1>9. a.mixed \/ \A m \in ms : [id |-> m.object, kase |-> dst] \in as
  <2> SUFFICES ASSUME ~a.mixed, NEW x \in a.comments
               PROVE  [id |-> Fresh(dst, x.object), kase |-> dst] \in as
    OBVIOUS
  <2>1. [id |-> x.object, kase |-> Source] \in a.assets BY DEF Stored
  <2>2. [id |-> x.object, kase |-> Source].id = x.object OBVIOUS
  <2> QED BY <2>1, <2>2
<1>10. Remap(a, dst) = [a EXCEPT !.kase = dst, !.assets = as, !.events = es, !.comments = ms, !.logs = gs]
  BY DEF Remap
<1> HIDE DEF as, es, ms, gs
<1> DEFINE f == Remap(a, dst)
<1>11. /\ f.kase = dst /\ f.assets = as /\ f.events = es /\ f.comments = ms /\ f.logs = gs
       /\ f.mixed = a.mixed /\ f \in Archives
  BY <1>1, <1>2, <1>8, <1>10 DEF Archives
<1> HIDE DEF f
<1>12. OwnRows(f) BY <1>4, <1>5, <1>6, <1>7, <1>11 DEF OwnRows
<1>13. f \in Stored BY <1>9, <1>11, <1>12 DEF Stored
<1> QED BY <1>11, <1>13 DEF f

LEMMA ReadLogsKeeps == ASSUME ArchiveInv, NEW r \in Requests, ReadLogs(r) PROVE ArchiveInv'
<1> DEFINE was == r \in mixing \/ Source \in mixed
           a   == [req[r].arch EXCEPT !.logs = Of(logs, Source), !.mixed = was]
<1>1. /\ req[r].pc = "logs" /\ req[r].pc \in Reading
      /\ mixing' = mixing \ {r}
      /\ UNCHANGED <<tables, disk, staged, downloads, used, mixed, disturbed, imported, begun>>
  BY DEF ReadLogs, Reading
<1>2. RowsInv BY DEF ArchiveInv
<1>3. Of(logs, Source) \subseteq LogsOf(Source) /\ LogsOf(Source) \subseteq Logs
  BY <1>2, OfSource, RowsTyped, SourceIsCase
<1>4. /\ a \in Archives /\ a.kase = Source /\ OwnRows(a)
      /\ a.assets = req[r].arch.assets /\ a.comments = req[r].arch.comments /\ a.mixed = was
  <2>1. was \in BOOLEAN OBVIOUS
  <2> HIDE DEF was
  <2> QED BY <1>1, <1>3, <2>1, ReadingHolds DEF Archives, OwnRows
<1>5. a \in Stored
  <2> SUFFICES ASSUME ~was, NEW m \in a.comments
               PROVE  [id |-> m.object, kase |-> a.kase] \in a.assets
    BY <1>4 DEF Stored
  <2>1. a.assets = Of(assets, Source) /\ a.comments = Of(comments, Source)
    BY <1>1, <1>4, ReadingHolds DEF Views
  <2>2. m \in comments /\ m.kase = Source BY <2>1 DEF Of
  <2>3. [id |-> m.object, kase |-> Source] \in assets BY <1>2, <2>2 DEF RowsInv, CommentsHaveObjects
  <2> QED BY <1>4, <2>1, <2>3 DEF Of
<1>6. req' = IF req[r].kase = Source
             THEN [req EXCEPT ![r].pc = "files", ![r].arch = a]
             ELSE [req EXCEPT ![r].pc = "tx", ![r].arch = Remap(a, req[r].kase)]
  BY DEF ReadLogs
<1> HIDE DEF a
<1>7. req[r] \in Records /\ req[r].next = 1 /\ req[r].kase \in {Source} \cup Forks
  <2>1. req[r] \in Remembered BY DEF ArchiveInv, ReqInv
  <2> QED BY <1>1, <2>1 DEF Remembered
<1>8. PICK q \in Remembered : req' = [req EXCEPT ![r] = q] /\ q.pc \in {"files", "tx"}
  <2>1. CASE req[r].kase = Source
    <3> DEFINE q == [req[r] EXCEPT !.pc = "files", !.arch = a]
    <3>1. req' = [req EXCEPT ![r] = q] BY <1>6, <2>1
    <3>2. q \in Records /\ q.pc = "files" /\ q.arch = a /\ q.next = 1 BY <1>4, <1>7 DEF Records
    <3> HIDE DEF q
    <3>3. q \in Remembered BY <1>4, <1>5, <3>2 DEF Remembered, Reading
    <3> QED BY <3>1, <3>2, <3>3
  <2>2. CASE req[r].kase # Source
    <3> DEFINE f == Remap(a, req[r].kase)
               q == [req[r] EXCEPT !.pc = "tx", !.arch = f]
    <3>1. req' = [req EXCEPT ![r] = q] BY <1>6, <2>2
    <3>2. f \in Stored /\ f.kase = req[r].kase BY <1>4, <1>5, <1>7, <2>2, RemapStored
    <3> HIDE DEF f
    <3>3. f \in Archives BY <3>2 DEF Stored
    <3>4. q \in Records /\ q.pc = "tx" /\ q.arch = f /\ q.next = 1 /\ q.kase = req[r].kase
      BY <1>7, <3>3 DEF Records
    <3> HIDE DEF q
    <3>5. q \in Remembered BY <3>2, <3>4 DEF Remembered, Reading
    <3> QED BY <3>1, <3>4, <3>5
  <2> QED BY <2>1, <2>2
<1>9. cases \subseteq cases' /\ disturbed \subseteq disturbed' /\ disk' = disk BY <1>1 DEF tables
<1>10. RowsInv' BY <1>1, <1>2, RowsKeep
<1>11. StoreInv' BY <1>1 DEF ArchiveInv, StoreInv
<1>12. ReqInv' BY <1>8, OneChanges DEF ArchiveInv
<1>13. ViewInv' BY <1>1, <1>8, ViewKeeps DEF Reading
<1>14. WriterInv' BY <1>8, <1>9, WritersKeep
<1>15. FilesInv' BY <1>1, <1>8, <1>9, FilesKeep
<1>16. HistInv' BY <1>1 DEF ArchiveInv, HistInv
<1> QED BY <1>10, <1>11, <1>12, <1>13, <1>14, <1>15, <1>16 DEF ArchiveInv

-----------------------------------------------------------------------------
(* Requests that end, uploads and refusals.                                 *)

\* A request that was not removing files ends, whatever staged file goes.
LEMMA EndKeeps ==
    ASSUME ArchiveInv, NEW r \in Requests, End(r), req[r].pc # "rmdir",
           UNCHANGED <<tables, mixed, disturbed, imported, begun>>, StoreInv', FilesInv',
           mixing \ {r} \subseteq mixing', mixing' \subseteq mixing
    PROVE  ArchiveInv'
<1>1. req' = [req EXCEPT ![r] = Idle] /\ Idle \in Remembered /\ Idle.pc = "idle"
  BY IdleRemembered DEF End, Idle
<1>2. cases \subseteq cases' /\ disturbed \subseteq disturbed' BY DEF tables
<1>3. RowsInv' BY RowsKeep DEF ArchiveInv
<1>4. ReqInv' BY <1>1, OneChanges DEF ArchiveInv
<1>5. ViewInv' BY <1>1, ViewKeeps DEF Reading
<1>6. WriterInv' BY <1>1, <1>2, WritersKeep
<1>7. HistInv' BY DEF ArchiveInv, HistInv
<1> QED BY <1>3, <1>4, <1>5, <1>6, <1>7 DEF ArchiveInv

LEMMA EndFiles ==
    ASSUME ArchiveInv, NEW r \in Requests, End(r), req[r].pc # "rmdir",
           UNCHANGED <<tables, disturbed, disk>>
    PROVE  FilesInv'
<1>1. req' = [req EXCEPT ![r] = Idle] /\ Idle \in Remembered /\ Idle.pc = "idle"
  BY IdleRemembered DEF End, Idle
<1>2. cases \subseteq cases' /\ disturbed \subseteq disturbed' BY DEF tables
<1> QED BY <1>1, <1>2, FilesKeep

LEMMA UnstageStores ==
    ASSUME StoreInv, NEW r \in Requests, Unstage(r), downloads' = downloads PROVE StoreInv'
BY DEF StoreInv, Unstage

LEMMA DownloadKeeps == ASSUME ArchiveInv, NEW r \in Requests, Download(r) PROVE ArchiveInv'
<1>1. /\ req[r].pc = "files" /\ End(r) /\ mixing' = mixing \ {r}
      /\ UNCHANGED <<tables, disk, staged, used, mixed, disturbed, imported, begun>>
  BY DEF Download
<1>2. PICK sizes \in {NoFiles, disk[Source]} : downloads' = downloads \cup {[req[r].arch EXCEPT !.sizes = sizes]}
  BY DEF Download
<1>3. sizes \in [Slots -> Nat] BY NoFilesTyped, SourceIsCase DEF ArchiveInv, FilesInv
<1> DEFINE a == [req[r].arch EXCEPT !.sizes = sizes]
<1>4. req[r] \in Remembered BY DEF ArchiveInv, ReqInv
<1>5. req[r].arch \in Stored BY <1>1, <1>4 DEF Remembered
<1>6. req[r].arch \in Archives BY <1>5 DEF Stored
<1>7. /\ a \in Archives /\ a.kase = req[r].arch.kase /\ a.assets = req[r].arch.assets
      /\ a.events = req[r].arch.events /\ a.comments = req[r].arch.comments
      /\ a.logs = req[r].arch.logs /\ a.mixed = req[r].arch.mixed
  BY <1>3, <1>6 DEF Archives
<1> HIDE DEF a
<1>8. a \in Stored BY <1>5, <1>7 DEF Stored, OwnRows
<1>9. StoreInv' BY <1>1, <1>2, <1>8 DEF ArchiveInv, StoreInv, a
<1>10. FilesInv' BY <1>1, EndFiles
<1> QED BY <1>1, <1>9, <1>10, EndKeeps

LEMMA UploadKeeps == ASSUME ArchiveInv, NEW t \in Tokens, Upload(t) PROVE ArchiveInv'
<1>1. UNCHANGED <<tables, disk, downloads, req, mixing, mixed, disturbed, imported, begun>> BY DEF Upload
<1>2. StoreInv' BY DEF Upload, ArchiveInv, StoreInv
<1>3. RowsInv' BY <1>1, RowsKeep DEF ArchiveInv
<1>4. ReqInv' /\ HistInv' BY <1>1 DEF ArchiveInv, ReqInv, HistInv
<1>5. ViewInv' BY <1>1 DEF ArchiveInv, ViewInv, Views, Of, tables
<1>6. WriterInv' BY <1>1 DEF ArchiveInv, WriterInv, WritersHaveCases, OneWriterPerCase, Writing, tables
<1>7. FilesInv' BY <1>1 DEF ArchiveInv, FilesInv, NoStrayFiles, RestoredSoFar, tables
<1> QED BY <1>2, <1>3, <1>4, <1>5, <1>6, <1>7 DEF ArchiveInv

LEMMA BeginCommitKeeps ==
    ASSUME ArchiveInv, NEW r \in Requests, NEW t \in Tokens, BeginCommit(r, t) PROVE ArchiveInv'
<1> DEFINE a == staged[t]
           q == [Idle EXCEPT !.pc = "tx", !.kase = a.kase, !.token = t, !.arch = a]
<1>1. /\ req[r].pc = "idle" /\ req' = [req EXCEPT ![r] = q] /\ a # NoArchive
      /\ begun < MaxBegun /\ begun' = begun + 1
  BY DEF BeginCommit, Begin
<1>2. UNCHANGED <<tables, disk, staged, downloads, used, mixing, mixed, disturbed, imported>>
  BY DEF BeginCommit
<1>3. a \in Stored BY <1>1 DEF ArchiveInv, StoreInv
<1>4. a \in Archives /\ a.kase \in Cases BY <1>3 DEF Stored, Archives
<1> HIDE DEF a
<1>5. q.pc = "tx" /\ q.kase = a.kase /\ q.arch = a /\ q.next = 1 /\ q \in Records
  <2>1. Idle \in Records /\ Idle.next = 1 BY IdleRemembered DEF Remembered, Idle
  <2> QED BY <1>4, <2>1 DEF Records
<1> HIDE DEF q
<1>6. q \in Remembered BY <1>3, <1>5 DEF Remembered, Reading
<1>7. cases \subseteq cases' /\ disturbed \subseteq disturbed' /\ disk' = disk BY <1>2 DEF tables
<1>8. RowsInv' BY <1>2, RowsKeep DEF ArchiveInv
<1>9. StoreInv' BY <1>2 DEF ArchiveInv, StoreInv
<1>10. ReqInv' BY <1>1, <1>6, OneChanges DEF ArchiveInv
<1>11. ViewInv' BY <1>1, <1>2, <1>5, <1>6, ViewKeeps DEF Reading
<1>12. WriterInv' BY <1>1, <1>5, <1>6, <1>7, WritersKeep
<1>13. FilesInv' BY <1>1, <1>5, <1>6, <1>7, FilesKeep
<1>14. HistInv' BY <1>1, <1>2, ArchiveAssumption DEF ArchiveInv, HistInv
<1> QED BY <1>8, <1>9, <1>10, <1>11, <1>12, <1>13, <1>14 DEF ArchiveInv

LEMMA ImportRefusedKeeps == ASSUME ArchiveInv, NEW r \in Requests, ImportRefused(r) PROVE ArchiveInv'
<1>1. req[r].pc = "tx" /\ End(r) /\ Unstage(r) /\ UNCHANGED <<tables, disk, downloads, hist>>
  BY DEF ImportRefused
<1>2. UNCHANGED <<tables, disk, downloads, mixing, mixed, disturbed, imported, begun>> BY <1>1 DEF hist
<1>3. FilesInv' BY <1>1, <1>2, EndFiles
<1>4. StoreInv' BY <1>1, UnstageStores DEF ArchiveInv
<1> QED BY <1>1, <1>2, <1>3, <1>4, EndKeeps

LEMMA GrantKeeps == ASSUME ArchiveInv, NEW r \in Requests, Grant(r) PROVE ArchiveInv'
<1>1. req[r].pc = "restore" /\ End(r) /\ Unstage(r) /\ UNCHANGED <<tables, disk, downloads, hist>>
  BY DEF Grant
<1>2. UNCHANGED <<tables, disk, downloads, mixing, mixed, disturbed, imported, begun>> BY <1>1 DEF hist
<1>3. FilesInv' BY <1>1, <1>2, EndFiles
<1>4. StoreInv' BY <1>1, UnstageStores DEF ArchiveInv
<1> QED BY <1>1, <1>2, <1>3, <1>4, EndKeeps

-----------------------------------------------------------------------------
(* Imports.                                                                 *)

LEMMA SentHolds ==
    ASSUME ArchiveInv, NEW r \in Requests, req[r].pc \in {"tx", "restore", "copy"}
    PROVE  /\ req[r] \in Records /\ req[r].arch \in Stored /\ req[r].arch \in Archives
           /\ req[r].arch.kase = req[r].kase /\ req[r].kase \in Cases
           /\ OwnRows(req[r].arch)
<1>1. req[r] \in Remembered BY DEF ArchiveInv, ReqInv
<1>2. req[r].arch \in Stored /\ req[r].arch.kase = req[r].kase BY <1>1 DEF Remembered
<1>3. req[r].arch \in Archives /\ OwnRows(req[r].arch) BY <1>2 DEF Stored
<1> QED BY <1>1, <1>2, <1>3 DEF Remembered, Archives

\* What the transaction adds are rows of the new case, linked to each other.
LEMMA ImportedRows == ASSUME ArchiveInv, NEW r \in Requests, ImportTx(r) PROVE RowsInv'
<1> DEFINE a == req[r].arch
<1>1. /\ req[r].pc = "tx" /\ ~Collides(a) /\ LinksHold(a)
      /\ cases' = cases \cup {a.kase} /\ assets' = assets \cup a.assets
      /\ events' = events \cup a.events /\ comments' = comments \cup a.comments
      /\ logs' = logs \cup a.logs
      /\ mixed' = IF a.mixed THEN mixed \cup {a.kase} ELSE mixed \ {a.kase}
  BY DEF ImportTx
<1>2. a \in Stored /\ OwnRows(a) /\ a.kase \in Cases BY <1>1, SentHolds
<1> HIDE DEF a
<1>3. a.kase \notin cases BY <1>1 DEF Collides
<1>4. /\ \A x \in a.assets   : x.kase = a.kase /\ x \in AssetsOf(a.kase)
      /\ \A x \in a.events   : x.kase = a.kase /\ x \in EventsOf(a.kase)
      /\ \A x \in a.comments : x.kase = a.kase /\ x \in CommentsOf(a.kase)
      /\ \A x \in a.logs     : x.kase = a.kase /\ x \in LogsOf(a.kase)
  BY <1>2 DEF OwnRows, AssetsOf, EventsOf, CommentsOf, LogsOf
<1>5. TablesInv'
  <2>1. cases' \subseteq Cases BY <1>1, <1>2 DEF ArchiveInv, RowsInv, TablesInv
  <2>2. \A x \in assets' : x.kase \in cases' /\ x \in AssetsOf(x.kase)
    BY <1>1, <1>4 DEF ArchiveInv, RowsInv, TablesInv
  <2>3. \A x \in events' : x.kase \in cases' /\ x \in EventsOf(x.kase)
    BY <1>1, <1>4 DEF ArchiveInv, RowsInv, TablesInv
  <2>4. \A x \in comments' : x.kase \in cases' /\ x \in CommentsOf(x.kase)
    BY <1>1, <1>4 DEF ArchiveInv, RowsInv, TablesInv
  <2>5. \A x \in logs' : x.kase \in Cases /\ x \in LogsOf(x.kase)
    BY <1>1, <1>2, <1>4 DEF ArchiveInv, RowsInv, TablesInv
  <2> QED BY <2>1, <2>2, <2>3, <2>4, <2>5 DEF TablesInv
<1>6. LinksStayInCase'
  <2> SUFFICES ASSUME NEW e \in events', NEW l \in e.links
               PROVE  [id |-> l, kase |-> e.kase] \in assets'
    BY DEF LinksStayInCase
  <2>1. CASE e \in events BY <1>1, <2>1 DEF ArchiveInv, RowsInv, LinksStayInCase
  <2>2. CASE e \in a.events
    <3>1. e.kase = a.kase /\ l \in IdsOf(AssetIds, a.kase) BY <1>4, <2>2 DEF EventsOf
    <3>2. PICK x \in assets \cup a.assets : x.id = l
      BY <1>1, <2>2 DEF LinksHold, Ids
    <3>3. x \notin assets
      <4> SUFFICES ASSUME x \in assets PROVE FALSE OBVIOUS
      <4>1. x.kase \in cases /\ x \in AssetsOf(x.kase) /\ x.kase \in Cases
        BY DEF ArchiveInv, RowsInv, TablesInv
      <4>2. l \in IdsOf(AssetIds, x.kase) BY <3>2, <4>1 DEF AssetsOf
      <4> QED BY <1>2, <1>3, <3>1, <4>1, <4>2, IdsApart
    <3>4. x \in a.assets /\ x.kase = a.kase /\ x \in AssetsOf(a.kase) BY <1>4, <3>2, <3>3
    <3>5. x = [id |-> l, kase |-> e.kase] BY <3>1, <3>2, <3>4 DEF AssetsOf
    <3> QED BY <1>1, <3>4, <3>5
  <2> QED BY <1>1, <2>1, <2>2
<1>7. CommentsHaveObjects'
  <2> SUFFICES ASSUME NEW m \in comments', m.kase \notin mixed'
               PROVE  [id |-> m.object, kase |-> m.kase] \in assets'
    BY DEF CommentsHaveObjects
  <2>1. CASE m \in comments
    <3>1. m.kase \in cases BY <2>1 DEF ArchiveInv, RowsInv, TablesInv
    <3>2. m.kase \notin mixed BY <1>1, <1>3, <3>1
    <3> QED BY <1>1, <2>1, <3>2 DEF ArchiveInv, RowsInv, CommentsHaveObjects
  <2>2. CASE m \in a.comments
    <3>1. m.kase = a.kase BY <1>4, <2>2
    <3>2. ~a.mixed BY <1>1, <3>1
    <3> QED BY <1>1, <1>2, <2>2, <3>1, <3>2 DEF Stored
  <2> QED BY <1>1, <2>1, <2>2
<1> QED BY <1>5, <1>6, <1>7 DEF RowsInv

LEMMA ImportTxKeeps == ASSUME ArchiveInv, NEW r \in Requests, ImportTx(r) PROVE ArchiveInv'
<1> DEFINE a  == req[r].arch
           to == IF req[r].token = NoToken THEN "copy" ELSE "restore"
           q  == [req[r] EXCEPT !.pc = to, !.left = Budget]
           k  == req[r].kase
<1>1. /\ req[r].pc = "tx" /\ a.kase \notin cases
      /\ cases' = cases \cup {a.kase} /\ assets' = assets \cup a.assets
      /\ comments' = comments \cup a.comments
      /\ imported' = IF req[r].token # NoToken THEN imported \cup {a.kase} ELSE imported
      /\ mixed' = IF a.mixed THEN mixed \cup {a.kase} ELSE mixed \ {a.kase}
      /\ disturbed' = IF \E p \in Requests : req[p].pc = "rmdir" /\ req[p].kase = a.kase
                      THEN disturbed \cup {a.kase} ELSE disturbed
      /\ UNCHANGED <<disk, staged, downloads, used, mixing, begun>>
  BY DEF ImportTx, Collides
<1>2. req' = [req EXCEPT ![r] = q] BY DEF ImportTx
<1>3. req[r] \in Records /\ a \in Stored /\ a.kase = k /\ k \in Cases /\ OwnRows(a) BY <1>1, SentHolds
<1>4. to \in {"copy", "restore"} OBVIOUS
<1> HIDE DEF to
<1>5. req[r].next = 1
  <2>1. req[r] \in Remembered BY DEF ArchiveInv, ReqInv
  <2> QED BY <1>1, <2>1 DEF Remembered
<1>6. q.pc = to /\ q.kase = k /\ q.arch = a /\ q.next = 1 /\ q \in Records
  <2>1. Budget \in 0..Budget BY ArchiveAssumption
  <2> QED BY <1>3, <1>4, <1>5, <2>1 DEF Records
<1> HIDE DEF a, q, k
<1>7. q \in Remembered BY <1>3, <1>4, <1>6 DEF Remembered, Reading
<1>8. ReqInv' BY <1>2, <1>7, OneChanges DEF ArchiveInv
<1>9. req'[r] = q /\ \A p \in Requests : p # r => req'[p] = req[p]
  BY <1>2, <1>7, OneChanges DEF ArchiveInv
<1>10. RowsInv' BY ImportedRows
<1>11. StoreInv' BY <1>1 DEF ArchiveInv, StoreInv
<1>12. ViewInv'
  <2> SUFFICES ASSUME NEW p \in Requests \ mixing, req'[p].pc \in Reading
               PROVE  /\ Source \in cases'
                      /\ req'[p].pc # "assets" => req'[p].arch.assets = Of(assets', Source)
                      /\ req'[p].pc = "logs" => req'[p].arch.comments = Of(comments', Source)
    BY <1>1 DEF ViewInv, Views, Of
  <2>1. p # r BY <1>4, <1>6, <1>9 DEF Reading
  <2>2. req'[p] = req[p] /\ Views(req[p]) BY <1>9, <2>1 DEF ArchiveInv, ViewInv
  <2>3. Source \in cases BY <2>2 DEF Views
  <2>4. a.kase # Source BY <1>1, <2>3
  <2>5. Of(assets', Source) = Of(assets, Source) /\ Of(comments', Source) = Of(comments, Source)
    BY <1>1, <1>3, <2>4 DEF Of, OwnRows, AssetsOf, CommentsOf
  <2> QED BY <1>1, <2>2, <2>5 DEF Views
<1>13. disturbed \subseteq disturbed' /\ cases \subseteq cases' BY <1>1
<1>14. ASSUME NEW p \in Requests, p # r, req[p].pc \in {"restore", "copy"}, req[p].kase = k
       PROVE  k \in disturbed'
  BY <1>1, <1>3, <1>14 DEF ArchiveInv, WriterInv, WritersHaveCases, Writing
<1>15. ASSUME NEW p \in Requests, req[p].pc = "rmdir", req[p].kase = k PROVE k \in disturbed'
  BY <1>1, <1>3, <1>15
<1>16. WritersHaveCases'
  <2> SUFFICES ASSUME NEW p \in Writing'
               PROVE  /\ req'[p].kase \in cases' \cup disturbed'
                      /\ \A s \in Requests : req'[s].pc = "rmdir" /\ req'[s].kase = req'[p].kase =>
                           req'[p].kase \in disturbed'
    BY DEF WritersHaveCases
  <2>1. CASE p = r
    <3>1. req'[p].kase = k /\ k \in cases' BY <1>1, <1>3, <1>6, <1>9, <2>1
    <3>2. ASSUME NEW s \in Requests, req'[s].pc = "rmdir", req'[s].kase = k PROVE k \in disturbed'
      <4>1. s # r BY <1>4, <1>6, <1>9, <3>2
      <4> QED BY <1>9, <1>15, <3>2, <4>1
    <3> QED BY <3>1, <3>2
  <2>2. CASE p # r
    <3>1. p \in Writing /\ req'[p] = req[p] BY <1>9, <2>2 DEF Writing
    <3>2. ASSUME NEW s \in Requests, req'[s].pc = "rmdir", req'[s].kase = req'[p].kase
          PROVE  req'[p].kase \in disturbed'
      <4>1. s # r BY <1>4, <1>6, <1>9, <3>2
      <4>2. req'[s] = req[s] BY <1>9, <4>1
      <4> QED BY <1>13, <3>1, <3>2, <4>2 DEF ArchiveInv, WriterInv, WritersHaveCases
    <3> QED BY <1>13, <3>1, <3>2 DEF ArchiveInv, WriterInv, WritersHaveCases
  <2> QED BY <2>1, <2>2
<1>17. OneWriterPerCase'
  <2> SUFFICES ASSUME NEW p \in Writing', NEW s \in Writing', p # s, req'[p].kase = req'[s].kase
               PROVE  req'[p].kase \in disturbed'
    BY DEF OneWriterPerCase
  <2>1. p # r => p \in Writing /\ req'[p] = req[p] BY <1>9 DEF Writing
  <2>2. s # r => s \in Writing /\ req'[s] = req[s] BY <1>9 DEF Writing
  <2>3. CASE p = r BY <1>6, <1>9, <1>14, <2>2, <2>3 DEF Writing
  <2>4. CASE s = r BY <1>6, <1>9, <1>14, <2>1, <2>4 DEF Writing
  <2>5. CASE p # r /\ s # r
    BY <1>13, <2>1, <2>2, <2>5 DEF ArchiveInv, WriterInv, OneWriterPerCase
  <2> QED BY <2>3, <2>4, <2>5
<1>18. FilesInv'
  <2>1. (disk \in [Cases -> [Slots -> Nat]])' BY <1>1 DEF ArchiveInv, FilesInv
  <2>2. NoStrayFiles'
    <3> SUFFICES ASSUME NEW c \in Cases \ cases', disk[c] # NoFiles, c \notin disturbed'
                 PROVE  \E p \in Requests : req'[p].pc = "rmdir" /\ req'[p].kase = c
      BY <1>1 DEF NoStrayFiles, NoFiles
    <3>1. PICK p \in Requests : req[p].pc = "rmdir" /\ req[p].kase = c
      BY <1>13 DEF ArchiveInv, FilesInv, NoStrayFiles
    <3>2. p # r BY <1>1, <3>1
    <3> QED BY <1>9, <3>1, <3>2
  <2>3. RestoredSoFar'
    <3> SUFFICES ASSUME NEW p \in Requests, req'[p].pc = "restore", req'[p].kase \notin disturbed', NEW i \in Slots
                 PROVE  disk[req'[p].kase][i] = IF i < req'[p].next THEN req'[p].arch.sizes[i] ELSE 0
      BY <1>1 DEF RestoredSoFar
    <3>1. CASE p = r
      <4>1. req'[p].kase = k /\ req'[p].next = 1 /\ k \notin disturbed /\ k \notin cases
        BY <1>1, <1>3, <1>6, <1>9, <1>13, <3>1
      <4>2. disk[k] = NoFiles BY <1>3, <1>15, <4>1, <1>9, <1>6, <3>1 DEF ArchiveInv, FilesInv, NoStrayFiles
      <4>3. ~(i < 1) BY SlotsNat
      <4> QED BY <4>1, <4>2, <4>3 DEF NoFiles
    <3>2. CASE p # r
      <4>1. req'[p] = req[p] BY <1>9, <3>2
      <4> QED BY <1>13, <4>1 DEF ArchiveInv, FilesInv, RestoredSoFar
    <3> QED BY <3>1, <3>2
  <2> QED BY <2>1, <2>2, <2>3 DEF FilesInv
<1>19. HistInv' BY <1>1, <1>3 DEF ArchiveInv, HistInv
<1>20. WriterInv' BY <1>16, <1>17 DEF WriterInv
<1> QED BY <1>8, <1>10, <1>11, <1>12, <1>18, <1>19, <1>20 DEF ArchiveInv

-----------------------------------------------------------------------------
(* Files.                                                                   *)

\* Who fills a case's directories changes only them, and nobody else who is
\* undisturbed is filling them.
LEMMA WrittenFiles ==
    ASSUME ArchiveInv, NEW r \in Requests, req[r].pc \in {"restore", "copy"},
           NEW q \in Remembered, req' = [req EXCEPT ![r] = q], UNCHANGED <<cases, disturbed>>,
           NEW f \in [Slots -> Nat], disk' = [disk EXCEPT ![req[r].kase] = f],
           q.pc = "restore" =>
             /\ q.kase = req[r].kase
             /\ req[r].kase \notin disturbed =>
                  \A i \in Slots : f[i] = IF i < q.next THEN q.arch.sizes[i] ELSE 0
    PROVE  FilesInv'
<1> DEFINE k == req[r].kase
<1>1. req'[r] = q /\ \A p \in Requests : p # r => req'[p] = req[p]
  BY OneChanges DEF ArchiveInv
<1>2. k \in Cases BY SentHolds
<1>3. k \in cases \cup disturbed BY DEF ArchiveInv, WriterInv, WritersHaveCases, Writing
<1>4. (disk \in [Cases -> [Slots -> Nat]])' BY DEF ArchiveInv, FilesInv
<1>5. disk'[k] = f /\ \A c \in Cases : c # k => disk'[c] = disk[c]
  BY <1>2 DEF ArchiveInv, FilesInv
<1> HIDE DEF k
<1>6. NoStrayFiles'
  <2> SUFFICES ASSUME NEW c \in Cases \ cases, disk'[c] # NoFiles, c \notin disturbed
               PROVE  \E p \in Requests : req'[p].pc = "rmdir" /\ req'[p].kase = c
    BY DEF NoStrayFiles, NoFiles
  <2>1. c # k BY <1>3
  <2>2. disk[c] # NoFiles BY <1>5, <2>1
  <2>3. PICK p \in Requests : req[p].pc = "rmdir" /\ req[p].kase = c
    BY <2>2 DEF ArchiveInv, FilesInv, NoStrayFiles
  <2>4. p # r BY <2>3
  <2> QED BY <1>1, <2>3, <2>4
<1>7. RestoredSoFar'
  <2> SUFFICES ASSUME NEW p \in Requests, req'[p].pc = "restore", req'[p].kase \notin disturbed, NEW i \in Slots
               PROVE  disk'[req'[p].kase][i] = IF i < req'[p].next THEN req'[p].arch.sizes[i] ELSE 0
    BY DEF RestoredSoFar
  <2>1. CASE p = r BY <1>1, <1>5, <2>1 DEF k
  <2>2. CASE p # r
    <3>1. req'[p] = req[p] BY <1>1, <2>2
    <3>2. req[p].kase # k
      BY <2>2, <3>1 DEF k, ArchiveInv, WriterInv, OneWriterPerCase, Writing
    <3>3. req[p].kase \in Cases BY <3>1, SentHolds
    <3>4. disk'[req[p].kase] = disk[req[p].kase] BY <1>5, <3>2, <3>3
    <3> QED BY <3>1, <3>4 DEF ArchiveInv, FilesInv, RestoredSoFar
  <2> QED BY <2>1, <2>2
<1> QED BY <1>4, <1>6, <1>7 DEF FilesInv

LEMMA RestoreFileKeeps == ASSUME ArchiveInv, NEW r \in Requests, RestoreFile(r) PROVE ArchiveInv'
<1> DEFINE i == req[r].next
           k == req[r].kase
           size == req[r].arch.sizes[i]
           n == Smaller(size, req[r].left + 1)
           f == IF size = 0 THEN disk[k] ELSE [disk[k] EXCEPT ![i] = n]
<1>1. /\ req[r].pc = "restore" /\ i \in Slots
      /\ disk' = IF size = 0 THEN disk ELSE [disk EXCEPT ![k][i] = n]
      /\ UNCHANGED <<tables, downloads, hist>>
  BY DEF RestoreFile
<1>2. \/ n > req[r].left /\ End(r) /\ Unstage(r)
      \/ /\ ~(n > req[r].left) /\ UNCHANGED staged
         /\ req' = [req EXCEPT ![r].next = i + 1, ![r].left = @ - n]
  BY DEF RestoreFile
<1>3. /\ req[r] \in Records /\ req[r].arch \in Stored /\ req[r].arch \in Archives
      /\ req[r].arch.kase = k /\ k \in Cases
  BY <1>1, SentHolds
<1>4. size \in Nat /\ req[r].left \in 0..Budget /\ req[r].left \in Nat BY <1>1, <1>3, ArchiveAssumption DEF Archives, Records
<1>5. n \in Nat /\ n <= req[r].left + 1 /\ (n <= req[r].left => n = size) BY <1>4 DEF Smaller
<1>6. disk[k] \in [Slots -> Nat] BY <1>3 DEF ArchiveInv, FilesInv
<1> HIDE DEF n
<1>7. f \in [Slots -> Nat] BY <1>1, <1>5, <1>6
<1>8. disk' = [disk EXCEPT ![k] = f]
  <2>1. disk \in [Cases -> [Slots -> Nat]] BY DEF ArchiveInv, FilesInv
  <2>2. CASE size = 0 BY <1>1, <1>3, <2>1, <2>2
  <2>3. CASE size # 0 BY <1>1, <1>3, <2>1, <2>3
  <2> QED BY <2>2, <2>3
<1>9. k \notin disturbed => \A j \in Slots : disk[k][j] = IF j < i THEN req[r].arch.sizes[j] ELSE 0
  BY <1>1 DEF ArchiveInv, FilesInv, RestoredSoFar
<1>10. UNCHANGED <<cases, mixing, mixed, disturbed, imported, begun>> BY <1>1 DEF tables, hist
<1>11. CASE n > req[r].left /\ End(r) /\ Unstage(r)
  <2>1. req' = [req EXCEPT ![r] = Idle] /\ Idle \in Remembered /\ Idle.pc = "idle"
    BY <1>11, IdleRemembered DEF End, Idle
  <2> HIDE DEF f, k
  <2>2. FilesInv' BY <1>1, <1>7, <1>8, <1>10, <2>1, WrittenFiles DEF k
  <2>3. StoreInv' BY <1>1, <1>11, UnstageStores DEF ArchiveInv
  <2> QED BY <1>1, <1>10, <1>11, <2>2, <2>3, EndKeeps
<1>12. CASE /\ ~(n > req[r].left) /\ UNCHANGED staged
            /\ req' = [req EXCEPT ![r].next = i + 1, ![r].left = @ - n]
  <2> DEFINE q == [req[r] EXCEPT !.next = i + 1, !.left = @ - n]
  <2>1. req' = [req EXCEPT ![r] = q] BY <1>12
  <2>2. i + 1 \in 1..(Cardinality(Slots) + 1) /\ i \in Nat BY <1>1, SlotsNat
  <2>3. req[r].left - n \in 0..Budget BY <1>4, <1>5, <1>12, ArchiveAssumption
  <2>4. /\ q.pc = "restore" /\ q.kase = k /\ q.arch = req[r].arch /\ q.next = i + 1
        /\ q \in Records
    BY <1>1, <1>3, <2>2, <2>3 DEF Records
  <2> HIDE DEF q
  <2>5. q \in Remembered BY <1>3, <2>4 DEF Remembered, Reading
  <2>6. n = size BY <1>4, <1>5, <1>12
  <2>7. k \notin disturbed => \A j \in Slots : f[j] = IF j < i + 1 THEN req[r].arch.sizes[j] ELSE 0
    <3> SUFFICES ASSUME k \notin disturbed, NEW j \in Slots
                 PROVE  f[j] = IF j < i + 1 THEN req[r].arch.sizes[j] ELSE 0
      OBVIOUS
    <3>1. j \in Nat BY SlotsNat
    <3>2. CASE j = i BY <1>1, <1>6, <1>9, <2>2, <2>6, <3>2
    <3>3. CASE j # i
      <4>1. f[j] = disk[k][j] BY <1>6, <3>3
      <4>2. j < i + 1 <=> j < i BY <2>2, <3>1, <3>3
      <4> QED BY <1>9, <4>1, <4>2
    <3> QED BY <3>2, <3>3
  <2> HIDE DEF f, k
  <2>8. FilesInv'
    <3>1. q.kase = req[r].kase /\ (req[r].kase \notin disturbed =>
            \A j \in Slots : f[j] = IF j < q.next THEN q.arch.sizes[j] ELSE 0)
      BY <2>4, <2>7 DEF k
    <3>2. disk' = [disk EXCEPT ![req[r].kase] = f] BY <1>8 DEF k
    <3> QED BY <1>1, <1>7, <1>10, <2>1, <2>5, <3>1, <3>2, WrittenFiles
  <2>9. cases \subseteq cases' /\ disturbed \subseteq disturbed' BY <1>10
  <2>10. RowsInv' BY <1>1, <1>10, RowsKeep DEF ArchiveInv
  <2>11. StoreInv' BY <1>1, <1>12 DEF ArchiveInv, StoreInv
  <2>12. ReqInv' BY <2>1, <2>5, OneChanges DEF ArchiveInv
  <2>13. ViewInv' BY <1>1, <1>10, <2>1, <2>4, <2>5, ViewKeeps DEF Reading
  <2>14. WriterInv' BY <1>1, <2>1, <2>4, <2>5, <2>9, WritersKeep DEF k
  <2>15. HistInv' BY <1>10 DEF ArchiveInv, HistInv
  <2> QED BY <2>8, <2>10, <2>11, <2>12, <2>13, <2>14, <2>15 DEF ArchiveInv
<1> QED BY <1>2, <1>11, <1>12

LEMMA CopyFilesKeeps == ASSUME ArchiveInv, NEW r \in Requests, CopyFiles(r) PROVE ArchiveInv'
<1>1. req[r].pc = "copy" /\ End(r) /\ UNCHANGED <<tables, staged, downloads, hist>> BY DEF CopyFiles
<1>2. UNCHANGED <<cases, mixing, mixed, disturbed, imported, begun>> BY <1>1 DEF tables, hist
<1> DEFINE k == req[r].kase
<1>3. PICK done \in SUBSET Slots :
        disk' = [disk EXCEPT ![k] = [i \in Slots |-> IF i \in done THEN disk[Source][i] ELSE @[i]]]
  BY DEF CopyFiles
<1> DEFINE f == [i \in Slots |-> IF i \in done THEN disk[Source][i] ELSE disk[k][i]]
<1>4. k \in Cases BY <1>1, SentHolds
<1>5. f \in [Slots -> Nat] BY <1>4, SourceIsCase DEF ArchiveInv, FilesInv
<1>6. disk' = [disk EXCEPT ![k] = f]
  <2>1. disk \in [Cases -> [Slots -> Nat]] BY DEF ArchiveInv, FilesInv
  <2> QED BY <1>3, <1>4, <2>1
<1> HIDE DEF f
<1>7. req' = [req EXCEPT ![r] = Idle] /\ Idle \in Remembered /\ Idle.pc = "idle"
  BY <1>1, IdleRemembered DEF End, Idle
<1>8. FilesInv' BY <1>1, <1>2, <1>5, <1>6, <1>7, WrittenFiles
<1>9. StoreInv' BY <1>1 DEF ArchiveInv, StoreInv
<1> QED BY <1>1, <1>2, <1>8, <1>9, EndKeeps

LEMMA FailsKeeps == ASSUME ArchiveInv, NEW r \in Requests, Fails(r) PROVE ArchiveInv'
<1>1. /\ req[r].pc \notin {"idle", "copy", "rmdir"} /\ End(r) /\ Unstage(r) /\ mixing' = mixing \ {r}
      /\ UNCHANGED <<tables, downloads, used, mixed, disturbed, imported, begun>>
  BY DEF Fails
<1>2. req' = [req EXCEPT ![r] = Idle] /\ Idle \in Remembered /\ Idle.pc = "idle"
  BY <1>1, IdleRemembered DEF End, Idle
<1>3. StoreInv' BY <1>1, UnstageStores DEF ArchiveInv
<1>4. cases' = cases BY <1>1 DEF tables
<1>5. FilesInv'
  <2>1. CASE UNCHANGED disk BY <1>1, <2>1, EndFiles
  <2>2. CASE disk' # disk
    <3> DEFINE i == req[r].next
               k == req[r].kase
    <3>1. req[r].pc = "restore" /\ i \in Slots BY <2>2 DEF Fails
    <3>2. PICK n \in 0..Smaller(req[r].arch.sizes[i], req[r].left) : disk' = [disk EXCEPT ![k][i] = n]
      BY <2>2 DEF Fails
    <3>3. n \in Nat
      <4>1. req[r].arch \in Archives /\ req[r] \in Records BY <3>1, SentHolds
      <4>2. req[r].arch.sizes[i] \in Nat /\ req[r].left \in Nat
        BY <3>1, <4>1, ArchiveAssumption DEF Archives, Records
      <4> QED BY <3>2, <4>2 DEF Smaller
    <3>4. k \in Cases BY <3>1, SentHolds
    <3> DEFINE f == [disk[k] EXCEPT ![i] = n]
    <3>5. disk \in [Cases -> [Slots -> Nat]] BY DEF ArchiveInv, FilesInv
    <3>6. f \in [Slots -> Nat] BY <3>1, <3>3, <3>4, <3>5
    <3>7. disk' = [disk EXCEPT ![k] = f] BY <3>2, <3>4, <3>5
    <3> HIDE DEF f
    <3> QED BY <1>1, <1>2, <1>4, <3>1, <3>6, <3>7, WrittenFiles
  <2> QED BY <2>1, <2>2
<1> QED BY <1>1, <1>3, <1>5, EndKeeps

-----------------------------------------------------------------------------
(* The deletion of a case, and a crash.                                     *)

LEMMA DeletedRows ==
    ASSUME ArchiveInv, NEW r \in Requests, NEW c \in Cases, Delete(r, c) PROVE RowsInv'
<1>1. /\ cases' = cases \ {c} /\ assets' = assets \ Of(assets, c) /\ events' = events \ Of(events, c)
      /\ comments' = comments \ Of(comments, c) /\ logs' = logs /\ mixed' = mixed
  BY DEF Delete
<1>2. TablesInv'
  <2>1. cases' \subseteq Cases /\ \A x \in logs' : x.kase \in Cases /\ x \in LogsOf(x.kase)
    BY <1>1 DEF ArchiveInv, RowsInv, TablesInv
  <2>2. \A x \in assets' : x.kase \in cases' /\ x \in AssetsOf(x.kase)
    BY <1>1 DEF ArchiveInv, RowsInv, TablesInv, Of
  <2>3. \A x \in events' : x.kase \in cases' /\ x \in EventsOf(x.kase)
    BY <1>1 DEF ArchiveInv, RowsInv, TablesInv, Of
  <2>4. \A x \in comments' : x.kase \in cases' /\ x \in CommentsOf(x.kase)
    BY <1>1 DEF ArchiveInv, RowsInv, TablesInv, Of
  <2> QED BY <2>1, <2>2, <2>3, <2>4 DEF TablesInv
<1>3. LinksStayInCase'
  <2> SUFFICES ASSUME NEW e \in events', NEW l \in e.links
               PROVE  [id |-> l, kase |-> e.kase] \in assets'
    BY DEF LinksStayInCase
  <2>1. e \in events /\ e.kase # c BY <1>1 DEF Of
  <2>2. [id |-> l, kase |-> e.kase] \in assets BY <2>1 DEF ArchiveInv, RowsInv, LinksStayInCase
  <2>3. [id |-> l, kase |-> e.kase].kase = e.kase OBVIOUS
  <2> QED BY <1>1, <2>1, <2>2, <2>3 DEF Of
<1>4. CommentsHaveObjects'
  <2> SUFFICES ASSUME NEW m \in comments', m.kase \notin mixed
               PROVE  [id |-> m.object, kase |-> m.kase] \in assets'
    BY <1>1 DEF CommentsHaveObjects
  <2>1. m \in comments /\ m.kase # c BY <1>1 DEF Of
  <2>2. [id |-> m.object, kase |-> m.kase] \in assets BY <2>1 DEF ArchiveInv, RowsInv, CommentsHaveObjects
  <2>3. [id |-> m.object, kase |-> m.kase].kase = m.kase OBVIOUS
  <2> QED BY <1>1, <2>1, <2>2, <2>3 DEF Of
<1> QED BY <1>2, <1>3, <1>4 DEF RowsInv

LEMMA DeleteKeeps ==
    ASSUME ArchiveInv, NEW r \in Requests, NEW c \in Cases, Delete(r, c) PROVE ArchiveInv'
<1> DEFINE q == [Idle EXCEPT !.pc = "rmdir", !.kase = c]
<1>1. /\ req[r].pc = "idle" /\ req' = [req EXCEPT ![r] = q] /\ begun < MaxBegun /\ begun' = begun + 1
      /\ cases' = cases \ {c} /\ assets' = assets \ Of(assets, c) /\ comments' = comments \ Of(comments, c)
      /\ mixing' = mixing \cup Exporting(c) /\ imported' = imported \ {c}
      /\ disturbed' = IF \E p \in Writing : req[p].kase = c THEN disturbed \cup {c} ELSE disturbed
      /\ UNCHANGED <<disk, staged, downloads, mixed>>
  BY DEF Delete, Begin, Touch
<1>2. q.pc = "rmdir" /\ q.kase = c /\ q.next = 1 /\ q \in Records
  <2>1. Idle \in Records /\ Idle.next = 1 BY IdleRemembered DEF Remembered, Idle
  <2> QED BY <2>1 DEF Records
<1> HIDE DEF q
<1>3. q \in Remembered BY <1>2 DEF Remembered, Reading
<1>4. ReqInv' BY <1>1, <1>3, OneChanges DEF ArchiveInv
<1>5. req'[r] = q /\ \A p \in Requests : p # r => req'[p] = req[p]
  BY <1>1, <1>3, OneChanges DEF ArchiveInv
<1>6. RowsInv' BY DeletedRows
<1>7. StoreInv' BY <1>1 DEF ArchiveInv, StoreInv
<1>8. ViewInv'
  <2> SUFFICES ASSUME NEW p \in Requests \ mixing', req'[p].pc \in Reading
               PROVE  /\ Source \in cases'
                      /\ req'[p].pc # "assets" => req'[p].arch.assets = Of(assets', Source)
                      /\ req'[p].pc = "logs" => req'[p].arch.comments = Of(comments', Source)
    BY DEF ViewInv, Views, Of
  <2>1. p # r BY <1>2, <1>5 DEF Reading
  <2>2. req'[p] = req[p] /\ p \in Requests \ mixing BY <1>1, <1>5, <2>1
  <2>3. Views(req[p]) /\ req[p].arch.kase = Source BY <2>2, ReadingHolds
  <2>4. c # Source BY <1>1, <2>2, <2>3 DEF Exporting, Reading
  <2>5. Of(assets', Source) = Of(assets, Source) /\ Of(comments', Source) = Of(comments, Source)
    BY <1>1, <2>4 DEF Of
  <2> QED BY <1>1, <2>2, <2>3, <2>4, <2>5 DEF Views
<1>9. disturbed \subseteq disturbed' BY <1>1
<1>10. ASSUME NEW p \in Writing, req[p].kase = c PROVE c \in disturbed' BY <1>1, <1>10
<1>11. ASSUME NEW p \in Writing' PROVE p # r /\ p \in Writing /\ req'[p] = req[p]
  BY <1>2, <1>5 DEF Writing
<1>12. WritersHaveCases'
  <2> SUFFICES ASSUME NEW p \in Writing'
               PROVE  /\ req'[p].kase \in cases' \cup disturbed'
                      /\ \A s \in Requests : req'[s].pc = "rmdir" /\ req'[s].kase = req'[p].kase =>
                           req'[p].kase \in disturbed'
    BY DEF WritersHaveCases
  <2>1. p \in Writing /\ req'[p] = req[p] BY <1>11
  <2>2. CASE req[p].kase = c BY <1>10, <2>1, <2>2
  <2>3. CASE req[p].kase # c
    <3>1. req'[p].kase \in cases' \cup disturbed'
      BY <1>1, <1>9, <2>1, <2>3 DEF ArchiveInv, WriterInv, WritersHaveCases
    <3>2. ASSUME NEW s \in Requests, req'[s].pc = "rmdir", req'[s].kase = req'[p].kase
          PROVE  req'[p].kase \in disturbed'
      <4>1. s # r BY <1>2, <1>5, <2>1, <2>3, <3>2
      <4>2. req'[s] = req[s] BY <1>5, <4>1
      <4> QED BY <1>9, <2>1, <3>2, <4>2 DEF ArchiveInv, WriterInv, WritersHaveCases
    <3> QED BY <3>1, <3>2
  <2> QED BY <2>2, <2>3
<1>13. OneWriterPerCase'
  <2> SUFFICES ASSUME NEW p \in Writing', NEW s \in Writing', p # s, req'[p].kase = req'[s].kase
               PROVE  req'[p].kase \in disturbed'
    BY DEF OneWriterPerCase
  <2> QED BY <1>9, <1>11 DEF ArchiveInv, WriterInv, OneWriterPerCase
<1>14. FilesInv'
  <2>1. (disk \in [Cases -> [Slots -> Nat]])' BY <1>1 DEF ArchiveInv, FilesInv
  <2>2. NoStrayFiles'
    <3> SUFFICES ASSUME NEW d \in Cases \ cases', disk[d] # NoFiles, d \notin disturbed'
                 PROVE  \E p \in Requests : req'[p].pc = "rmdir" /\ req'[p].kase = d
      BY <1>1 DEF NoStrayFiles, NoFiles
    <3>1. CASE d = c BY <1>2, <1>5, <3>1
    <3>2. CASE d # c
      <4>1. PICK p \in Requests : req[p].pc = "rmdir" /\ req[p].kase = d
        BY <1>1, <1>9, <3>2 DEF ArchiveInv, FilesInv, NoStrayFiles
      <4>2. p # r BY <1>1, <4>1
      <4> QED BY <1>5, <4>1, <4>2
    <3> QED BY <3>1, <3>2
  <2>3. RestoredSoFar'
    <3> SUFFICES ASSUME NEW p \in Requests, req'[p].pc = "restore", req'[p].kase \notin disturbed', NEW i \in Slots
                 PROVE  disk[req'[p].kase][i] = IF i < req'[p].next THEN req'[p].arch.sizes[i] ELSE 0
      BY <1>1 DEF RestoredSoFar
    <3>1. p # r BY <1>2, <1>5
    <3>2. req'[p] = req[p] BY <1>5, <3>1
    <3> QED BY <1>9, <3>2 DEF ArchiveInv, FilesInv, RestoredSoFar
  <2> QED BY <2>1, <2>2, <2>3 DEF FilesInv
<1>15. HistInv'
  <2>1. Exporting(c) \subseteq Requests BY DEF Exporting
  <2>2. begun' \in 0..MaxBegun BY <1>1, ArchiveAssumption DEF ArchiveInv, HistInv
  <2> QED BY <1>1, <2>1, <2>2 DEF ArchiveInv, HistInv
<1>16. WriterInv' BY <1>12, <1>13 DEF WriterInv
<1> QED BY <1>4, <1>6, <1>7, <1>8, <1>14, <1>15, <1>16 DEF ArchiveInv

LEMMA RemoveDirKeeps == ASSUME ArchiveInv, NEW r \in Requests, RemoveDir(r) PROVE ArchiveInv'
<1> DEFINE k == req[r].kase
<1>1. /\ req[r].pc = "rmdir" /\ disk' = [disk EXCEPT ![k] = NoFiles] /\ End(r)
      /\ UNCHANGED <<tables, staged, downloads, hist>>
  BY DEF RemoveDir
<1>2. req' = [req EXCEPT ![r] = Idle] /\ Idle \in Remembered /\ Idle.pc = "idle"
  BY <1>1, IdleRemembered DEF End, Idle
<1>3. k \in Cases
  <2>1. req[r] \in Remembered BY DEF ArchiveInv, ReqInv
  <2> QED BY <1>1, <2>1 DEF Remembered
<1>4. disk'[k] = NoFiles /\ \A c \in Cases : c # k => disk'[c] = disk[c]
  BY <1>1, <1>3 DEF ArchiveInv, FilesInv
<1>5. (disk \in [Cases -> [Slots -> Nat]])' BY <1>1, NoFilesTyped DEF ArchiveInv, FilesInv
<1>6. UNCHANGED <<cases, mixing, mixed, disturbed, imported, begun>> BY <1>1 DEF tables, hist
<1>7. req'[r] = Idle /\ \A p \in Requests : p # r => req'[p] = req[p]
  BY <1>2, OneChanges DEF ArchiveInv
<1>8. NoStrayFiles'
  <2> SUFFICES ASSUME NEW c \in Cases \ cases, disk'[c] # NoFiles, c \notin disturbed
               PROVE  \E p \in Requests : req'[p].pc = "rmdir" /\ req'[p].kase = c
    BY <1>6 DEF NoStrayFiles, NoFiles
  <2>1. c # k /\ disk[c] # NoFiles BY <1>4
  <2>2. PICK p \in Requests : req[p].pc = "rmdir" /\ req[p].kase = c
    BY <2>1 DEF ArchiveInv, FilesInv, NoStrayFiles
  <2>3. p # r BY <2>1, <2>2
  <2> QED BY <1>7, <2>2, <2>3
<1>9. RestoredSoFar'
  <2> SUFFICES ASSUME NEW p \in Requests, req'[p].pc = "restore", req'[p].kase \notin disturbed, NEW i \in Slots
               PROVE  disk'[req'[p].kase][i] = IF i < req'[p].next THEN req'[p].arch.sizes[i] ELSE 0
    BY <1>6 DEF RestoredSoFar
  <2>1. p # r BY <1>2, <1>7
  <2>2. req'[p] = req[p] BY <1>7, <2>1
  <2>3. req[p].kase # k BY <1>1, <2>2 DEF ArchiveInv, WriterInv, WritersHaveCases, Writing
  <2>4. req[p].kase \in Cases BY <2>2, SentHolds
  <2>5. disk'[req[p].kase] = disk[req[p].kase] BY <1>4, <2>3, <2>4
  <2> QED BY <2>2, <2>5 DEF ArchiveInv, FilesInv, RestoredSoFar
<1>10. FilesInv' BY <1>5, <1>8, <1>9 DEF FilesInv
<1>11. cases \subseteq cases' /\ disturbed \subseteq disturbed' BY <1>6
<1>12. RowsInv' BY <1>1, <1>6, RowsKeep DEF ArchiveInv
<1>13. StoreInv' /\ HistInv' BY <1>1, <1>6 DEF ArchiveInv, StoreInv, HistInv
<1>14. ReqInv' BY <1>2, OneChanges DEF ArchiveInv
<1>15. ViewInv' BY <1>1, <1>2, <1>6, ViewKeeps DEF Reading
<1>16. WriterInv' BY <1>2, <1>11, WritersKeep
<1> QED BY <1>10, <1>12, <1>13, <1>14, <1>15, <1>16 DEF ArchiveInv

LEMMA RemoveDirFailsKeeps ==
    ASSUME ArchiveInv, NEW r \in Requests, RemoveDirFails(r) PROVE ArchiveInv'
<1>1. /\ req[r].pc = "rmdir" /\ disturbed' = disturbed \cup {req[r].kase} /\ End(r)
      /\ UNCHANGED <<tables, disk, staged, downloads, used, mixing, mixed, imported, begun>>
  BY DEF RemoveDirFails
<1>2. req' = [req EXCEPT ![r] = Idle] /\ Idle \in Remembered /\ Idle.pc = "idle"
  BY <1>1, IdleRemembered DEF End, Idle
<1>3. req[r].kase \in Cases
  <2>1. req[r] \in Remembered BY DEF ArchiveInv, ReqInv
  <2> QED BY <1>1, <2>1 DEF Remembered
<1>4. cases \subseteq cases' /\ disturbed \subseteq disturbed' /\ req[r].kase \in disturbed' BY <1>1 DEF tables
<1>5. RowsInv' BY <1>1, RowsKeep DEF ArchiveInv
<1>6. StoreInv' /\ HistInv' BY <1>1, <1>3 DEF ArchiveInv, StoreInv, HistInv
<1>7. ReqInv' BY <1>2, OneChanges DEF ArchiveInv
<1>8. ViewInv' BY <1>1, <1>2, ViewKeeps DEF Reading
<1>9. WriterInv' BY <1>2, <1>4, WritersKeep
<1>10. FilesInv' BY <1>1, <1>2, <1>4, FilesKeep
<1> QED BY <1>5, <1>6, <1>7, <1>8, <1>9, <1>10 DEF ArchiveInv

LEMMA CrashKeeps == ASSUME ArchiveInv, Crash PROVE ArchiveInv'
<1>1. /\ begun < MaxBegun /\ begun' = begun + 1 /\ req' = [r \in Requests |-> Idle] /\ mixing' = {}
      /\ disturbed' = disturbed \cup {req[r].kase : r \in {p \in Requests : req[p].pc = "rmdir"}}
      /\ UNCHANGED <<tables, disk, staged, downloads, used, mixed, imported>>
  BY DEF Crash
<1>2. Idle.pc = "idle" BY DEF Idle
<1>3. RowsInv' BY <1>1, RowsKeep DEF ArchiveInv
<1>4. StoreInv' BY <1>1 DEF ArchiveInv, StoreInv
<1>5. ReqInv' BY <1>1, IdleRemembered DEF ReqInv
<1>6. ViewInv' BY <1>1, <1>2 DEF ViewInv, Reading
<1>7. WriterInv' BY <1>1, <1>2 DEF WriterInv, WritersHaveCases, OneWriterPerCase, Writing
<1>8. FilesInv'
  <2>1. (disk \in [Cases -> [Slots -> Nat]])' BY <1>1 DEF ArchiveInv, FilesInv
  <2>2. NoStrayFiles' BY <1>1 DEF ArchiveInv, FilesInv, NoStrayFiles, NoFiles, tables
  <2>3. RestoredSoFar' BY <1>1, <1>2 DEF RestoredSoFar
  <2> QED BY <2>1, <2>2, <2>3 DEF FilesInv
<1>9. HistInv'
  <2>1. begun' \in 0..MaxBegun BY <1>1, ArchiveAssumption DEF ArchiveInv, HistInv
  <2>2. \A r \in Requests : req[r].pc = "rmdir" => req[r].kase \in Cases
    BY DEF ArchiveInv, ReqInv, Remembered
  <2>3. disturbed' \subseteq Cases BY <1>1, <2>2 DEF ArchiveInv, HistInv
  <2> QED BY <1>1, <2>1, <2>3 DEF ArchiveInv, HistInv
<1> QED BY <1>3, <1>4, <1>5, <1>6, <1>7, <1>8, <1>9 DEF ArchiveInv

-----------------------------------------------------------------------------
(* Induction over the subsets of a finite set, and what SumFunction adds up.*)

\* Induction over the subsets of a finite set, without an operator parameter:
\* P is a set that has every subset all of whose proper subsets it has.
LEMMA SubsetInduction ==
    ASSUME NEW S, IsFiniteSet(S), NEW P,
           \A T \in SUBSET S : (\A U \in SUBSET T : U # T => U \in P) => T \in P
    PROVE  SUBSET S \subseteq P
<1> SUFFICES ASSUME NEW T0 \in SUBSET S, T0 \notin P PROVE FALSE
  OBVIOUS
<1> DEFINE Bad == (SUBSET S) \ P
<1>1. IsWellFoundedOn(StrictSubsetOrdering(S), SUBSET S)
  <2>1. FiniteSubsetsOf(S) = SUBSET S
    BY FS_FiniteSubsetsOfFinite
  <2>2. IsWellFoundedOn(StrictSubsetOrdering(S), FiniteSubsetsOf(S))
    BY FS_StrictSubsetOrderingWellFounded
  <2> QED BY <2>1, <2>2
<1>2. Bad \subseteq SUBSET S /\ Bad # {}
  OBVIOUS
<1> HIDE DEF Bad
<1>3. PICK T \in Bad : \A U \in Bad : <<U, T>> \notin StrictSubsetOrdering(S)
  BY <1>1, <1>2, WFMin
<1>4. \A U \in SUBSET T : U # T => U \in P
  <2> SUFFICES ASSUME NEW U \in SUBSET T, U # T, U \notin P PROVE FALSE
    OBVIOUS
  <2>1. U \in Bad /\ T \in SUBSET S
    BY <1>2 DEF Bad
  <2>2. <<U, T>> \in (SUBSET S) \X (SUBSET S)
    BY <2>1
  <2>3. <<U, T>>[1] \subseteq <<U, T>>[2] /\ <<U, T>>[1] # <<U, T>>[2]
    OBVIOUS
  <2>4. <<U, T>> \in StrictSubsetOrdering(S)
    BY <2>2, <2>3, Zenon DEF StrictSubsetOrdering
  <2> QED BY <1>3, <2>1, <2>4
<1> QED BY <1>2, <1>4 DEF Bad

\* The same for natural numbers.
LEMMA NatInduct ==
    ASSUME NEW P, 0 \in P, \A n \in Nat : n \in P => n + 1 \in P
    PROVE  Nat \subseteq P
<1> SUFFICES ASSUME NEW m \in Nat PROVE m \in P
  OBVIOUS
<1> DEFINE S == 0..m
           Q == {T \in SUBSET S : \A n \in Nat : T = 0..n => n \in P}
<1>1. IsFiniteSet(S)
  BY FS_Interval
<1>2. ASSUME NEW T \in SUBSET S, \A U \in SUBSET T : U # T => U \in Q
      PROVE  T \in Q
  <2> SUFFICES ASSUME NEW n \in Nat, T = 0..n PROVE n \in P
    OBVIOUS
  <2>1. CASE n = 0
    BY <2>1
  <2>2. CASE n # 0
    <3>1. n - 1 \in Nat /\ 0..(n - 1) \in SUBSET T /\ n \in T /\ n \notin 0..(n - 1)
      BY <2>2
    <3>2. 0..(n - 1) \in Q
      BY <1>2, <3>1
    <3>3. n - 1 \in P
      BY <3>1, <3>2
    <3> QED BY <3>1, <3>3
  <2> QED BY <2>1, <2>2
<1> HIDE DEF Q, S
<1>3. SUBSET S \subseteq Q
  BY <1>1, <1>2, SubsetInduction
<1> USE DEF Q, S
<1>4. 0..m \in Q
  BY <1>3
<1> QED BY <1>4

Pick(s) == CHOOSE x \in s : TRUE

\* One step of the fold behind SumFunctionOnSet.
Added(f, g, s) == IF s = {} THEN 0 ELSE f[Pick(s)] + g[s \ {Pick(s)}]

\* What the fold adds up, for every subset.
Iter(f, S) == CHOOSE iter : iter = [s \in SUBSET S |-> Added(f, iter, s)]

LEMMA SumIs == ASSUME NEW f, NEW S PROVE SumFunctionOnSet(f, S) = Iter(f, S)[S]
  BY Zenon DEF SumFunctionOnSet, FoldFunctionOnSet, MapThenFoldSet, Iter, Added, Pick

\* The fold is defined: on the subsets of up to n elements for every n.
LEMMA IterDefined ==
    ASSUME NEW f, NEW S, IsFiniteSet(S)
    PROVE  Iter(f, S) = [s \in SUBSET S |-> Added(f, Iter(f, S), s)]
<1> DEFINE Upto(g, n) == \A s \in SUBSET S : Cardinality(s) <= n => g[s] = Added(f, g, s)
           P == {n \in Nat : \E g : Upto(g, n)}
<1>1. \A s \in SUBSET S : IsFiniteSet(s) /\ Cardinality(s) \in Nat
  BY FS_Subset, FS_CardinalityType
<1>2. \A s \in SUBSET S : s # {} => /\ Pick(s) \in s /\ s \ {Pick(s)} \in SUBSET S
                                   /\ Cardinality(s \ {Pick(s)}) = Cardinality(s) - 1
                                   /\ Cardinality(s) >= 1
  <2> SUFFICES ASSUME NEW s \in SUBSET S, s # {}
               PROVE  /\ Pick(s) \in s /\ s \ {Pick(s)} \in SUBSET S
                      /\ Cardinality(s \ {Pick(s)}) = Cardinality(s) - 1
                      /\ Cardinality(s) >= 1
    OBVIOUS
  <2>1. Pick(s) \in s
    BY DEF Pick
  <2>2. Cardinality(s) # 0
    BY <1>1, FS_EmptySet
  <2>3. Cardinality(s \ {Pick(s)}) = Cardinality(s) - 1
    BY <1>1, <2>1, FS_RemoveElement
  <2> QED BY <1>1, <2>1, <2>2, <2>3
<1>3. 0 \in P
  <2>1. ASSUME NEW s \in SUBSET S, Cardinality(s) <= 0 PROVE s = {}
    <3> SUFFICES ASSUME s # {} PROVE FALSE
      OBVIOUS
    <3>1. Cardinality(s) >= 1
      BY <1>2
    <3>2. Cardinality(s) \in Nat
      BY <1>1
    <3> QED BY <2>1, <3>1, <3>2
  <2>2. Upto([s \in SUBSET S |-> 0], 0)
    BY <2>1 DEF Added
  <2> QED BY <2>2
<1>4. ASSUME NEW n \in Nat, n \in P PROVE n + 1 \in P
  <2>1. PICK g : Upto(g, n)
    BY <1>4
  <2> DEFINE h == [s \in SUBSET S |-> IF Cardinality(s) <= n THEN g[s] ELSE Added(f, g, s)]
  <2>2. ASSUME NEW s \in SUBSET S, Cardinality(s) <= n + 1 PROVE h[s] = Added(f, h, s)
    <3>1. h[s] = Added(f, g, s)
      BY <2>1
    <3>2. s # {} => h[s \ {Pick(s)}] = g[s \ {Pick(s)}]
      BY <1>1, <1>2, <2>2
    <3> HIDE DEF h
    <3> QED BY <3>1, <3>2 DEF Added
  <2> HIDE DEF h
  <2>3. Upto(h, n + 1)
    BY <2>2
  <2> QED BY <2>3
<1>5. PICK g : \A s \in SUBSET S : g[s] = Added(f, g, s)
  <2> HIDE DEF P
  <2>1. Nat \subseteq P
    BY <1>3, <1>4, NatInduct
  <2> USE DEF P
  <2>2. PICK g : Upto(g, Cardinality(S))
    BY <1>1, <2>1
  <2>3. \A s \in SUBSET S : Cardinality(s) <= Cardinality(S)
    BY FS_Subset
  <2> QED BY <2>2, <2>3
<1>6. \E iter : iter = [s \in SUBSET S |-> Added(f, iter, s)]
  <2> DEFINE h == [s \in SUBSET S |-> g[s]]
  <2>1. \A s \in SUBSET S : Added(f, h, s) = Added(f, g, s)
    BY <1>2 DEF Added
  <2>2. h = [s \in SUBSET S |-> Added(f, h, s)]
    BY <1>5, <2>1
  <2> QED BY <2>2
<1> QED BY <1>6, Zenon DEF Iter

LEMMA IterStep ==
    ASSUME NEW f, NEW S, IsFiniteSet(S), NEW s \in SUBSET S
    PROVE  /\ s = {} => Iter(f, S)[s] = 0
           /\ s # {} => /\ Pick(s) \in s
                       /\ Iter(f, S)[s] = f[Pick(s)] + Iter(f, S)[s \ {Pick(s)}]
<1>1. s # {} => Pick(s) \in s
  BY DEF Pick
<1>2. \A g : g = [t \in SUBSET S |-> Added(f, g, t)] => g[s] = Added(f, g, s)
  OBVIOUS
<1> DEFINE It == Iter(f, S)
<1>3. It[s] = Added(f, It, s)
  <2>1. Iter(f, S) = [t \in SUBSET S |-> Added(f, Iter(f, S), t)]
    BY IterDefined, ZenonT(60)
  <2> QED BY <1>2, <2>1, Zenon
<1> HIDE DEF It
<1>4. /\ s = {} => It[s] = 0
      /\ s # {} => It[s] = f[Pick(s)] + It[s \ {Pick(s)}]
  BY <1>3 DEF Added
<1> QED BY <1>1, <1>4 DEF It

LEMMA IterNat ==
    ASSUME NEW S, IsFiniteSet(S), NEW f \in [S -> Nat]
    PROVE  \A s \in SUBSET S : Iter(f, S)[s] \in Nat
<1> DEFINE P == {s \in SUBSET S : Iter(f, S)[s] \in Nat}
<1>1. ASSUME NEW T \in SUBSET S, \A U \in SUBSET T : U # T => U \in P PROVE T \in P
  <2>1. CASE T = {}
    BY <2>1, IterStep
  <2>2. CASE T # {}
    <3>1. Pick(T) \in T /\ Iter(f, S)[T] = f[Pick(T)] + Iter(f, S)[T \ {Pick(T)}]
      BY <2>2, IterStep
    <3>2. T \ {Pick(T)} \in P
      BY <1>1, <3>1
    <3>3. f[Pick(T)] \in Nat
      BY <3>1
    <3> QED BY <3>1, <3>2, <3>3
  <2> QED BY <2>1, <2>2
<1> HIDE DEF P
<1>2. SUBSET S \subseteq P
  BY <1>1, SubsetInduction
<1> USE DEF P
<1> QED BY <1>2

\* The order does not matter: any element may be taken first.
LEMMA IterAny ==
    ASSUME NEW S, IsFiniteSet(S), NEW f \in [S -> Nat]
    PROVE  \A s \in SUBSET S : \A x \in s : Iter(f, S)[s] = f[x] + Iter(f, S)[s \ {x}]
<1> DEFINE It == Iter(f, S)
           P == {s \in SUBSET S : \A x \in s : It[s] = f[x] + It[s \ {x}]}
<1>1. ASSUME NEW T \in SUBSET S, \A U \in SUBSET T : U # T => U \in P PROVE T \in P
  <2> SUFFICES ASSUME NEW x \in T PROVE It[T] = f[x] + It[T \ {x}]
    OBVIOUS
  <2>1. Pick(T) \in T /\ It[T] = f[Pick(T)] + It[T \ {Pick(T)}]
    BY IterStep
  <2>2. CASE x = Pick(T)
    BY <2>1, <2>2
  <2>3. CASE x # Pick(T)
    <3> DEFINE y == Pick(T)
               U == (T \ {x}) \ {y}
    <3>1. T \ {y} \in P /\ T \ {x} \in P /\ x \in T \ {y} /\ y \in T \ {x}
      BY <1>1, <2>1, <2>3
    <3>2. (T \ {y}) \ {x} = U
      OBVIOUS
    <3> HIDE DEF U, y, It
    <3>3. It[T \ {y}] = f[x] + It[U]
      BY <3>1, <3>2
    <3>4. It[T \ {x}] = f[y] + It[U]
      BY <3>1, Zenon DEF U
    <3>5. f[x] \in Nat /\ f[y] \in Nat
      BY <3>1
    <3>6. It[U] \in Nat
      BY IterNat DEF It, U
    <3>7. It[T] = f[y] + It[T \ {y}]
      BY <2>1 DEF y
    <3> QED BY <3>3, <3>4, <3>5, <3>6, <3>7
  <2> QED BY <2>2, <2>3
<1> HIDE DEF P
<1>2. SUBSET S \subseteq P
  BY <1>1, SubsetInduction
<1> USE DEF P
<1> QED BY <1>2

\* Only the values on the set count.
LEMMA IterAgrees ==
    ASSUME NEW S, IsFiniteSet(S), NEW f, NEW g
    PROVE  \A s \in SUBSET S : (\A x \in s : f[x] = g[x]) => Iter(f, S)[s] = Iter(g, S)[s]
<1> DEFINE P == {s \in SUBSET S : (\A x \in s : f[x] = g[x]) => Iter(f, S)[s] = Iter(g, S)[s]}
<1>1. ASSUME NEW T \in SUBSET S, \A U \in SUBSET T : U # T => U \in P PROVE T \in P
  <2> SUFFICES ASSUME \A x \in T : f[x] = g[x] PROVE Iter(f, S)[T] = Iter(g, S)[T]
    OBVIOUS
  <2>1. CASE T = {}
    BY <2>1, IterStep
  <2>2. CASE T # {}
    <3>1. /\ Pick(T) \in T
          /\ Iter(f, S)[T] = f[Pick(T)] + Iter(f, S)[T \ {Pick(T)}]
          /\ Iter(g, S)[T] = g[Pick(T)] + Iter(g, S)[T \ {Pick(T)}]
      BY <2>2, IterStep
    <3>2. T \ {Pick(T)} \in P
      BY <1>1, <3>1
    <3>3. Iter(f, S)[T \ {Pick(T)}] = Iter(g, S)[T \ {Pick(T)}] /\ f[Pick(T)] = g[Pick(T)]
      BY <3>1, <3>2
    <3> QED BY <3>1, <3>3
  <2> QED BY <2>1, <2>2
<1> HIDE DEF P
<1>2. SUBSET S \subseteq P
  BY <1>1, SubsetInduction
<1> USE DEF P
<1> QED BY <1>2

\* Zeros add up to 0.
LEMMA IterOfZeros ==
    ASSUME NEW S, IsFiniteSet(S), NEW f, \A x \in S : f[x] = 0
    PROVE  Iter(f, S)[S] = 0
<1> DEFINE P == {s \in SUBSET S : Iter(f, S)[s] = 0}
<1>1. ASSUME NEW T \in SUBSET S, \A U \in SUBSET T : U # T => U \in P PROVE T \in P
  <2>1. CASE T = {}
    BY <2>1, IterStep
  <2>2. CASE T # {}
    <3>1. Pick(T) \in T /\ Iter(f, S)[T] = f[Pick(T)] + Iter(f, S)[T \ {Pick(T)}]
      BY <2>2, IterStep
    <3>2. T \ {Pick(T)} \in P
      BY <1>1, <3>1
    <3>3. f[Pick(T)] = 0
      BY <3>1
    <3> QED BY <3>1, <3>2, <3>3
  <2> QED BY <2>1, <2>2
<1> HIDE DEF P
<1>2. SUBSET S \subseteq P
  BY <1>1, SubsetInduction
<1> USE DEF P
<1> QED BY <1>2

\* No files take no space.
LEMMA SumOfNoFiles == SumFunction(NoFiles) = 0
<1>1. DOMAIN NoFiles = Slots /\ IsFiniteSet(Slots) /\ \A i \in Slots : NoFiles[i] = 0
  BY ArchiveAssumption DEF NoFiles
<1>2. SumFunction(NoFiles) = Iter(NoFiles, Slots)[Slots]
  BY <1>1, SumIs DEF SumFunction
<1> QED BY <1>1, <1>2, IterOfZeros

\* A file put in the place of none adds its size.
LEMMA SumWith ==
    ASSUME NEW S, IsFiniteSet(S), NEW f \in [S -> Nat], NEW i \in S, f[i] = 0, NEW n \in Nat
    PROVE  /\ SumFunction(f) \in Nat
           /\ SumFunction([f EXCEPT ![i] = n]) = SumFunction(f) + n
<1> DEFINE g == [f EXCEPT ![i] = n]
<1>1. g \in [S -> Nat] /\ g[i] = n /\ \A x \in S \ {i} : g[x] = f[x]
  OBVIOUS
<1> HIDE DEF g
<1>2. DOMAIN f = S /\ DOMAIN g = S
  BY <1>1
<1>3. SumFunction(f) = Iter(f, S)[S] /\ SumFunction(g) = Iter(g, S)[S]
  BY <1>2, SumIs DEF SumFunction
<1>4. /\ Iter(f, S)[S] = f[i] + Iter(f, S)[S \ {i}]
      /\ Iter(g, S)[S] = g[i] + Iter(g, S)[S \ {i}]
  BY <1>1, IterAny
<1>5. Iter(g, S)[S \ {i}] = Iter(f, S)[S \ {i}]
  BY <1>1, IterAgrees
<1>6. Iter(f, S)[S \ {i}] \in Nat
  BY IterNat
<1> QED BY <1>1, <1>3, <1>4, <1>5, <1>6 DEF g

-----------------------------------------------------------------------------
(* The size budget.                                                         *)

\* What an import has written and what is left of its budget add up to the
\* budget; an imported case is there, and no fork's files are copied into it.
BudgetInv ==
    /\ imported \subseteq cases
    /\ \A r \in Requests : req[r].pc = "copy" => req[r].kase \in disturbed \/ req[r].kase \notin imported
    /\ \A r \in Requests : req[r].pc = "restore" /\ req[r].kase \notin disturbed =>
         SumFunction(disk[req[r].kase]) + req[r].left = Budget
    /\ WithinBudget

\* A step that writes no files and begins no import or fork.
LEMMA BudgetKeeps ==
    ASSUME BudgetInv, UNCHANGED disk, imported' \subseteq imported, imported' \subseteq cases',
           disturbed \subseteq disturbed',
           \A p \in Requests : req'[p].pc \in {"restore", "copy"} => req'[p] = req[p]
    PROVE  BudgetInv'
<1>1. ASSUME NEW p \in Requests, req'[p].pc = "copy"
      PROVE  req'[p].kase \in disturbed' \/ req'[p].kase \notin imported'
  <2>1. req'[p] = req[p] BY <1>1
  <2> QED BY <1>1, <2>1 DEF BudgetInv
<1>2. ASSUME NEW p \in Requests, req'[p].pc = "restore", req'[p].kase \notin disturbed'
      PROVE  SumFunction(disk'[req'[p].kase]) + req'[p].left = Budget
  <2>1. req'[p] = req[p] BY <1>2
  <2>2. req[p].pc = "restore" /\ req[p].kase \notin disturbed BY <1>2, <2>1
  <2>3. SumFunction(disk[req[p].kase]) + req[p].left = Budget BY <2>2 DEF BudgetInv
  <2> QED BY <2>1, <2>3
<1>3. WithinBudget'
  <2> SUFFICES ASSUME NEW c \in imported' \ disturbed' PROVE SumFunction(disk[c]) <= Budget + 1
    BY DEF WithinBudget
  <2>1. c \in imported \ disturbed OBVIOUS
  <2> QED BY <2>1 DEF BudgetInv, WithinBudget
<1> QED BY <1>1, <1>2, <1>3 DEF BudgetInv

\* The same, one request moving on.
LEMMA BudgetMoves ==
    ASSUME ArchiveInv, BudgetInv, NEW r \in Requests, NEW q, req' = [req EXCEPT ![r] = q],
           q.pc \notin {"restore", "copy"}, UNCHANGED disk,
           imported' \subseteq imported, imported' \subseteq cases', disturbed \subseteq disturbed'
    PROVE  BudgetInv'
<1>1. req'[r] = q /\ \A p \in Requests : p # r => req'[p] = req[p] BY DEF ArchiveInv, ReqInv
<1>2. ASSUME NEW p \in Requests, req'[p].pc \in {"restore", "copy"} PROVE req'[p] = req[p]
  BY <1>1, <1>2
<1> QED BY <1>2, BudgetKeeps

\* A step that changes the files of one case only.
LEMMA BudgetWrites ==
    ASSUME ArchiveInv, BudgetInv, NEW k \in Cases, NEW f,
           disk'[k] = f, \A c \in Cases : c # k => disk'[c] = disk[c],
           cases' = cases, imported' = imported, disturbed' = disturbed,
           k \in imported \ disturbed => SumFunction(f) <= Budget + 1,
           \A p \in Requests : req'[p].pc = "copy" => req'[p] = req[p],
           \A p \in Requests : req'[p].pc = "restore" /\ req'[p].kase \notin disturbed =>
             /\ req'[p].kase \in Cases
             /\ req'[p].kase = k => SumFunction(f) + req'[p].left = Budget
             /\ req'[p].kase # k => req'[p] = req[p]
    PROVE  BudgetInv'
<1>1. disk'[k] = f /\ \A c \in Cases : c # k => disk'[c] = disk[c] OBVIOUS
<1>2. ASSUME NEW p \in Requests, req'[p].pc = "copy"
      PROVE  req'[p].kase \in disturbed' \/ req'[p].kase \notin imported'
  <2>1. req'[p] = req[p] BY <1>2
  <2> QED BY <1>2, <2>1 DEF BudgetInv
<1>3. ASSUME NEW p \in Requests, req'[p].pc = "restore", req'[p].kase \notin disturbed'
      PROVE  SumFunction(disk'[req'[p].kase]) + req'[p].left = Budget
  <2>1. CASE req'[p].kase = k BY <1>1, <1>3, <2>1
  <2>2. CASE req'[p].kase # k
    <3>1. req'[p] = req[p] /\ req'[p].kase \in Cases BY <1>3, <2>2
    <3>2. SumFunction(disk[req[p].kase]) + req[p].left = Budget BY <1>3, <3>1 DEF BudgetInv
    <3>3. disk'[req[p].kase] = disk[req[p].kase] BY <1>1, <2>2, <3>1
    <3> QED BY <3>1, <3>2, <3>3
  <2> QED BY <2>1, <2>2
<1>4. WithinBudget'
  <2> SUFFICES ASSUME NEW c \in imported \ disturbed PROVE SumFunction(disk'[c]) <= Budget + 1
    BY DEF WithinBudget
  <2>1. CASE c = k BY <1>1, <2>1
  <2>2. CASE c # k
    <3>1. disk'[c] = disk[c] BY <1>1, <2>2 DEF ArchiveInv, HistInv
    <3> QED BY <3>1 DEF BudgetInv, WithinBudget
  <2> QED BY <2>1, <2>2
<1>5. imported' \subseteq cases' BY DEF BudgetInv
<1> QED BY <1>2, <1>3, <1>4, <1>5 DEF BudgetInv

\* The transaction of an import: there are no files of its case yet.
LEMMA ImportTxBudget ==
    ASSUME ArchiveInv, BudgetInv, NEW r \in Requests, ImportTx(r) PROVE BudgetInv'
<1> DEFINE k  == req[r].kase
           to == IF req[r].token = NoToken THEN "copy" ELSE "restore"
           q  == [req[r] EXCEPT !.pc = to, !.left = Budget]
<1>1. /\ req[r] \in Records /\ req[r].arch.kase = k /\ k \in Cases
  BY SentHolds DEF ImportTx
<1>2. /\ k \notin cases /\ cases' = cases \cup {k}
      /\ imported' = IF req[r].token # NoToken THEN imported \cup {k} ELSE imported
      /\ disturbed' = IF \E p \in Requests : req[p].pc = "rmdir" /\ req[p].kase = k
                      THEN disturbed \cup {k} ELSE disturbed
      /\ disk' = disk /\ req' = [req EXCEPT ![r] = q]
  BY <1>1 DEF ImportTx, Collides
<1>3. /\ q.pc = to /\ q.kase = k /\ q.left = Budget
      /\ req'[r] = q /\ \A p \in Requests : p # r => req'[p] = req[p]
  BY <1>1, <1>2 DEF Records, ArchiveInv, ReqInv
<1> HIDE DEF q
<1>4. disturbed \subseteq disturbed' /\ imported' \subseteq cases' BY <1>2 DEF BudgetInv
<1>5. k \in disturbed' \/ SumFunction(disk[k]) = 0
  <2> SUFFICES ASSUME k \notin disturbed' PROVE disk[k] = NoFiles
    BY SumOfNoFiles
  <2>1. k \notin disturbed /\ \A p \in Requests : ~(req[p].pc = "rmdir" /\ req[p].kase = k) BY <1>2
  <2> QED BY <1>1, <1>2, <2>1 DEF ArchiveInv, FilesInv, NoStrayFiles
<1>6. ASSUME NEW p \in Requests, req'[p].pc = "copy"
      PROVE  req'[p].kase \in disturbed' \/ req'[p].kase \notin imported'
  <2>1. CASE p = r
    <3>1. req[r].token = NoToken /\ req'[p].kase = k BY <1>3, <1>6, <2>1
    <3> QED BY <1>2, <3>1 DEF BudgetInv
  <2>2. CASE p # r
    <3>1. req'[p] = req[p] /\ req[p].pc = "copy" BY <1>3, <1>6, <2>2
    <3>2. req[p].kase \in disturbed \/ req[p].kase \notin imported BY <3>1 DEF BudgetInv
    <3>3. req[p].kase \in cases \cup disturbed
      BY <3>1 DEF ArchiveInv, WriterInv, WritersHaveCases, Writing
    <3> QED BY <1>2, <1>4, <3>1, <3>2, <3>3
  <2> QED BY <2>1, <2>2
<1>7. ASSUME NEW p \in Requests, req'[p].pc = "restore", req'[p].kase \notin disturbed'
      PROVE  SumFunction(disk'[req'[p].kase]) + req'[p].left = Budget
  <2>1. CASE p = r
    <3>1. SumFunction(disk[k]) = 0 /\ req'[p].kase = k /\ req'[p].left = Budget BY <1>3, <1>5, <1>7, <2>1
    <3> QED BY <1>2, <3>1, ArchiveAssumption
  <2>2. CASE p # r
    <3>1. req'[p] = req[p] /\ req[p].pc = "restore" /\ req[p].kase \notin disturbed
      BY <1>3, <1>4, <1>7, <2>2
    <3>2. SumFunction(disk[req[p].kase]) + req[p].left = Budget BY <3>1 DEF BudgetInv
    <3> QED BY <1>2, <3>1, <3>2
  <2> QED BY <2>1, <2>2
<1>8. WithinBudget'
  <2> SUFFICES ASSUME NEW c \in imported' \ disturbed' PROVE SumFunction(disk[c]) <= Budget + 1
    BY <1>2 DEF WithinBudget
  <2>1. CASE c = k BY <1>5, <2>1, ArchiveAssumption
  <2>2. CASE c # k
    <3>1. c \in imported \ disturbed BY <1>2, <1>4, <2>2
    <3> QED BY <3>1 DEF BudgetInv, WithinBudget
  <2> QED BY <2>1, <2>2
<1> QED BY <1>4, <1>6, <1>7, <1>8 DEF BudgetInv

\* What the import writes of the next binary comes out of what is left of its
\* budget, or is one byte more and ends it.
LEMMA RestoreFileBudget ==
    ASSUME ArchiveInv, BudgetInv, NEW r \in Requests, RestoreFile(r) PROVE BudgetInv'
<1> DEFINE i == req[r].next
           k == req[r].kase
           size == req[r].arch.sizes[i]
           n == Smaller(size, req[r].left + 1)
           f == IF size = 0 THEN disk[k] ELSE [disk[k] EXCEPT ![i] = n]
           q == [req[r] EXCEPT !.next = i + 1, !.left = @ - n]
<1>1. /\ req[r].pc = "restore" /\ i \in Slots
      /\ disk' = IF size = 0 THEN disk ELSE [disk EXCEPT ![k][i] = n]
      /\ UNCHANGED <<cases, imported, disturbed>>
  BY DEF RestoreFile, tables, hist
<1>2. \/ n > req[r].left /\ req' = [req EXCEPT ![r] = Idle]
      \/ ~(n > req[r].left) /\ req' = [req EXCEPT ![r] = q]
  BY DEF RestoreFile, End
<1>3. req[r] \in Records /\ req[r].arch \in Archives /\ k \in Cases BY <1>1, SentHolds
<1>4. size \in Nat /\ req[r].left \in Nat BY <1>1, <1>3, ArchiveAssumption DEF Archives, Records
<1>5. n \in Nat /\ n <= req[r].left + 1 /\ (size = 0 => n = 0) BY <1>4 DEF Smaller
<1>6. disk \in [Cases -> [Slots -> Nat]] /\ disk[k] \in [Slots -> Nat] BY <1>3 DEF ArchiveInv, FilesInv
<1>7. q.pc = "restore" /\ q.kase = k /\ q.left = req[r].left - n BY <1>1, <1>3 DEF Records
<1> HIDE DEF n, q
<1>8. disk' = [disk EXCEPT ![k] = f]
  <2>1. CASE size = 0 BY <1>1, <1>3, <1>6, <2>1
  <2>2. CASE size # 0 BY <1>1, <1>3, <1>6, <2>2
  <2> QED BY <2>1, <2>2
<1>9. k \notin disturbed => SumFunction(f) = SumFunction(disk[k]) + n /\ SumFunction(disk[k]) \in Nat
  <2> SUFFICES ASSUME k \notin disturbed
               PROVE  SumFunction(f) = SumFunction(disk[k]) + n /\ SumFunction(disk[k]) \in Nat
    OBVIOUS
  <2>1. disk[k][i] = 0
    <3>1. disk[k][i] = IF i < i THEN size ELSE 0 BY <1>1 DEF ArchiveInv, FilesInv, RestoredSoFar
    <3>2. ~(i < i) BY <1>1, SlotsNat
    <3> QED BY <3>1, <3>2
  <2>2. IsFiniteSet(Slots) BY ArchiveAssumption
  <2>3. /\ SumFunction(disk[k]) \in Nat
        /\ SumFunction([disk[k] EXCEPT ![i] = n]) = SumFunction(disk[k]) + n
    BY <1>1, <1>5, <1>6, <2>1, <2>2, SumWith
  <2>4. CASE size = 0
    <3>1. f = disk[k] /\ n = 0 BY <1>5, <2>4
    <3> QED BY <2>3, <3>1
  <2>5. CASE size # 0 BY <2>3, <2>5
  <2> QED BY <2>4, <2>5
<1> HIDE DEF f, i
<1>10. k \notin disturbed => SumFunction(disk[k]) + req[r].left = Budget BY <1>1 DEF BudgetInv
<1> HIDE DEF k, size
<1>11. k \in imported \ disturbed => SumFunction(f) <= Budget + 1 BY <1>4, <1>5, <1>9, <1>10
<1>12. Idle.pc = "idle" BY DEF Idle
<1>13. req \in [Requests -> Remembered] BY DEF ArchiveInv, ReqInv
<1>14. \A p \in Requests : p # r => req'[p] = req[p] BY <1>2, <1>13
<1>15. req'[r].pc # "copy" BY <1>2, <1>7, <1>12, <1>13
<1>16. \A p \in Requests : req'[p].pc = "copy" => req'[p] = req[p] BY <1>14, <1>15
<1>17. ASSUME NEW p \in Requests, req'[p].pc = "restore", req'[p].kase \notin disturbed
       PROVE  /\ req'[p].kase \in Cases
              /\ req'[p].kase = k => SumFunction(f) + req'[p].left = Budget
              /\ req'[p].kase # k => req'[p] = req[p]
  <2>1. CASE p = r
    <3>1. req'[p] = q /\ ~(n > req[r].left) BY <1>2, <1>12, <1>13, <1>17, <2>1
    <3>2. k \notin disturbed BY <1>7, <1>17, <3>1
    <3> QED BY <1>3, <1>4, <1>5, <1>7, <1>9, <1>10, <3>1, <3>2
  <2>2. CASE p # r
    <3>1. req'[p] = req[p] BY <1>14, <2>2
    <3>2. req[p].kase # k
      BY <1>1, <1>17, <2>2, <3>1 DEF k, ArchiveInv, WriterInv, OneWriterPerCase, Writing
    <3>3. req[p].kase \in Cases BY <1>17, <3>1, SentHolds
    <3> QED BY <3>1, <3>2, <3>3
  <2> QED BY <2>1, <2>2
<1>18. /\ cases' = cases /\ imported' = imported /\ disturbed' = disturbed /\ k \in Cases
       /\ disk'[k] = f /\ \A c \in Cases : c # k => disk'[c] = disk[c]
  BY <1>1, <1>3, <1>6, <1>8
<1> QED BY <1>11, <1>16, <1>17, <1>18, BudgetWrites

\* An import that fails has written less than was left.
LEMMA FailsBudget == ASSUME ArchiveInv, BudgetInv, NEW r \in Requests, Fails(r) PROVE BudgetInv'
<1>1. req' = [req EXCEPT ![r] = Idle] /\ UNCHANGED <<cases, imported, disturbed>> /\ Idle.pc = "idle"
  BY DEF Fails, End, Idle, tables
<1>2. CASE UNCHANGED disk
  <2>1. imported' \subseteq cases' BY <1>1 DEF BudgetInv
  <2> QED BY <1>1, <1>2, <2>1, BudgetMoves
<1>3. CASE disk' # disk
  <2> DEFINE i == req[r].next
             k == req[r].kase
  <2>1. req[r].pc = "restore" /\ i \in Slots BY <1>3 DEF Fails
  <2>2. PICK n \in 0..Smaller(req[r].arch.sizes[i], req[r].left) : disk' = [disk EXCEPT ![k][i] = n]
    BY <1>3 DEF Fails
  <2>3. req[r].arch \in Archives /\ req[r] \in Records /\ k \in Cases BY <2>1, SentHolds
  <2>4. req[r].arch.sizes[i] \in Nat /\ req[r].left \in Nat
    BY <2>1, <2>3, ArchiveAssumption DEF Archives, Records
  <2>5. n \in Nat /\ n <= req[r].left BY <2>2, <2>4 DEF Smaller
  <2> DEFINE f == [disk[k] EXCEPT ![i] = n]
  <2>6. disk \in [Cases -> [Slots -> Nat]] /\ disk[k] \in [Slots -> Nat]
    BY <2>3 DEF ArchiveInv, FilesInv
  <2>7. disk'[k] = f /\ \A c \in Cases : c # k => disk'[c] = disk[c] BY <2>2, <2>3, <2>6
  <2>8. k \notin disturbed => SumFunction(f) <= Budget + 1
    <3> SUFFICES ASSUME k \notin disturbed PROVE SumFunction(f) <= Budget + 1 OBVIOUS
    <3>1. disk[k][i] = 0
      <4>1. disk[k][i] = IF i < i THEN req[r].arch.sizes[i] ELSE 0
        BY <2>1 DEF ArchiveInv, FilesInv, RestoredSoFar
      <4>2. ~(i < i) BY <2>1, SlotsNat
      <4> QED BY <4>1, <4>2
    <3>2. IsFiniteSet(Slots) BY ArchiveAssumption
    <3>3. SumFunction(disk[k]) \in Nat /\ SumFunction(f) = SumFunction(disk[k]) + n
      BY <2>1, <2>5, <2>6, <3>1, <3>2, SumWith
    <3>4. SumFunction(disk[k]) + req[r].left = Budget BY <2>1 DEF BudgetInv
    <3> HIDE DEF f, k
    <3> QED BY <2>4, <2>5, <3>3, <3>4
  <2> HIDE DEF f, i
  <2>9. req \in [Requests -> Remembered] BY DEF ArchiveInv, ReqInv
  <2>10. req'[r] = Idle /\ \A p \in Requests : p # r => req'[p] = req[p] BY <1>1, <2>9
  <2>11. \A p \in Requests : req'[p].pc = "copy" => req'[p] = req[p] BY <1>1, <2>10
  <2>12. ASSUME NEW p \in Requests, req'[p].pc = "restore", req'[p].kase \notin disturbed
         PROVE  req'[p].kase \in Cases /\ req'[p] = req[p] /\ req'[p].kase # k
    <3>1. p # r /\ req'[p] = req[p] BY <1>1, <2>10, <2>12
    <3>2. req[p].kase # k
      BY <2>1, <2>12, <3>1 DEF ArchiveInv, WriterInv, OneWriterPerCase, Writing
    <3>3. req[p].kase \in Cases BY <2>12, <3>1, SentHolds
    <3> QED BY <3>1, <3>2, <3>3
  <2> HIDE DEF k
  <2> QED BY <1>1, <2>3, <2>7, <2>8, <2>11, <2>12, BudgetWrites
<1> QED BY <1>2, <1>3

\* No import restores the case a fork is copied to, unless it was disturbed.
LEMMA CopyFilesBudget ==
    ASSUME ArchiveInv, BudgetInv, NEW r \in Requests, CopyFiles(r) PROVE BudgetInv'
<1> DEFINE k == req[r].kase
<1>1. req[r].pc = "copy" /\ req' = [req EXCEPT ![r] = Idle] /\ UNCHANGED <<cases, imported, disturbed>>
  BY DEF CopyFiles, End, tables, hist
<1>2. PICK f : disk' = [disk EXCEPT ![k] = f]
  BY Zenon DEF CopyFiles
<1>3. k \in Cases BY <1>1, SentHolds
<1>4. k \notin imported \ disturbed BY <1>1 DEF BudgetInv
<1>5. req \in [Requests -> Remembered] /\ Idle.pc = "idle" BY DEF ArchiveInv, ReqInv, Idle
<1>6. req'[r] = Idle /\ \A p \in Requests : p # r => req'[p] = req[p] BY <1>1, <1>5
<1>7. \A p \in Requests : req'[p].pc = "copy" => req'[p] = req[p] BY <1>5, <1>6
<1>8. ASSUME NEW p \in Requests, req'[p].pc = "restore", req'[p].kase \notin disturbed
      PROVE  req'[p].kase \in Cases /\ req'[p] = req[p] /\ req'[p].kase # k
  <2>1. p # r /\ req'[p] = req[p] BY <1>5, <1>6, <1>8
  <2>2. req[p].kase # k
    BY <1>1, <1>8, <2>1 DEF ArchiveInv, WriterInv, OneWriterPerCase, Writing
  <2>3. req[p].kase \in Cases BY <1>8, <2>1, SentHolds
  <2> QED BY <2>1, <2>2, <2>3
<1>9. disk'[k] = f /\ \A c \in Cases : c # k => disk'[c] = disk[c]
  BY <1>2, <1>3 DEF ArchiveInv, FilesInv
<1> HIDE DEF k
<1> QED BY <1>1, <1>3, <1>4, <1>7, <1>8, <1>9, BudgetWrites

\* A case whose files go is restored by nobody, unless it was disturbed.
LEMMA RemoveDirBudget ==
    ASSUME ArchiveInv, BudgetInv, NEW r \in Requests, RemoveDir(r) PROVE BudgetInv'
<1> DEFINE k == req[r].kase
<1>1. /\ req[r].pc = "rmdir" /\ req' = [req EXCEPT ![r] = Idle] /\ disk' = [disk EXCEPT ![k] = NoFiles]
      /\ UNCHANGED <<cases, imported, disturbed>>
  BY DEF RemoveDir, End, tables, hist
<1>2. k \in Cases
  <2>1. req[r] \in Remembered BY DEF ArchiveInv, ReqInv
  <2> QED BY <1>1, <2>1 DEF Remembered
<1>3. SumFunction(NoFiles) <= Budget + 1 BY SumOfNoFiles, ArchiveAssumption
<1>4. req \in [Requests -> Remembered] /\ Idle.pc = "idle" BY DEF ArchiveInv, ReqInv, Idle
<1>5. req'[r] = Idle /\ \A p \in Requests : p # r => req'[p] = req[p] BY <1>1, <1>4
<1>6. \A p \in Requests : req'[p].pc = "copy" => req'[p] = req[p] BY <1>4, <1>5
<1>7. ASSUME NEW p \in Requests, req'[p].pc = "restore", req'[p].kase \notin disturbed
      PROVE  req'[p].kase \in Cases /\ req'[p] = req[p] /\ req'[p].kase # k
  <2>1. p # r /\ req'[p] = req[p] BY <1>4, <1>5, <1>7
  <2>2. req[p].kase # k
    BY <1>1, <1>7, <2>1 DEF ArchiveInv, WriterInv, WritersHaveCases, Writing
  <2>3. req[p].kase \in Cases BY <1>7, <2>1, SentHolds
  <2> QED BY <2>1, <2>2, <2>3
<1>8. disk'[k] = NoFiles /\ \A c \in Cases : c # k => disk'[c] = disk[c]
  BY <1>1, <1>2 DEF ArchiveInv, FilesInv
<1> HIDE DEF k
<1> QED BY <1>1, <1>2, <1>3, <1>6, <1>7, <1>8, BudgetWrites

\* The steps of one request that write no files.
LEMMA ExportBudget ==
    ASSUME ArchiveInv, BudgetInv, NEW r \in Requests,
           \/ \E dst \in Cases : BeginExport(r, dst)
           \/ ReadAssets(r) \/ ReadEvents(r) \/ ReadComments(r) \/ Download(r)
    PROVE  BudgetInv'
<1>1. PICK q : req' = [req EXCEPT ![r] = q] /\ q.pc \notin {"restore", "copy"}
  <2>1. Idle.pc = "idle" BY DEF Idle
  <2>2. ASSUME NEW dst \in Cases, BeginExport(r, dst)
        PROVE  \E q : req' = [req EXCEPT ![r] = q] /\ q.pc \notin {"restore", "copy"}
    <3> DEFINE a == [kase |-> Source, assets |-> {}, events |-> {}, comments |-> {},
                     logs |-> {}, sizes |-> NoFiles, mixed |-> FALSE]
               q == [Idle EXCEPT !.pc = "assets", !.kase = dst, !.arch = a]
    <3>1. req' = [req EXCEPT ![r] = q] BY <2>2 DEF BeginExport, Begin
    <3>2. q.pc = "assets" BY DEF Idle
    <3> HIDE DEF q
    <3> QED BY <3>1, <3>2
  <2>3. ASSUME NEW from \in Reading, NEW a, NEW to \in Reading, Read(r, from, a, to)
        PROVE  \E q : req' = [req EXCEPT ![r] = q] /\ q.pc \notin {"restore", "copy"}
    <3> DEFINE q == [req[r] EXCEPT !.pc = to, !.arch = a]
    <3>1. req' = [req EXCEPT ![r] = q] /\ req[r].pc \in Reading BY <2>3 DEF Read
    <3>2. req[r] \in Records BY <3>1, ReadingHolds
    <3>3. q.pc = to BY <3>2 DEF Records
    <3> HIDE DEF q
    <3> QED BY <3>1, <3>3 DEF Reading
  <2>4. CASE Download(r) BY <2>1, <2>4 DEF Download, End
  <2>5. CASE ReadAssets(r) \/ ReadEvents(r) \/ ReadComments(r)
    BY <2>3, <2>5 DEF ReadAssets, ReadEvents, ReadComments, Reading
  <2> QED BY <2>2, <2>4, <2>5
<1>2. UNCHANGED <<disk, cases, imported, disturbed>>
  BY DEF BeginExport, ReadAssets, ReadEvents, ReadComments, Read, Download, tables, hist
<1>3. imported' \subseteq cases' BY <1>2 DEF BudgetInv
<1> QED BY <1>1, <1>2, <1>3, BudgetMoves

LEMMA ReadLogsBudget ==
    ASSUME ArchiveInv, BudgetInv, NEW r \in Requests, ReadLogs(r) PROVE BudgetInv'
<1>1. req[r] \in Records BY ReadingHolds DEF ReadLogs, Reading
<1>2. PICK q : req' = [req EXCEPT ![r] = q] /\ q.pc \in {"files", "tx"}
  <2> DEFINE a == [req[r].arch EXCEPT !.logs = Of(logs, Source), !.mixed = r \in mixing \/ Source \in mixed]
             p == [req[r] EXCEPT !.pc = "files", !.arch = a]
             q == [req[r] EXCEPT !.pc = "tx", !.arch = Remap(a, req[r].kase)]
  <2>1. req' = IF req[r].kase = Source
               THEN [req EXCEPT ![r].pc = "files", ![r].arch = a]
               ELSE [req EXCEPT ![r].pc = "tx", ![r].arch = Remap(a, req[r].kase)]
    BY DEF ReadLogs
  <2> HIDE DEF a
  <2>2. req' = [req EXCEPT ![r] = p] \/ req' = [req EXCEPT ![r] = q] BY <2>1
  <2>3. p.pc = "files" /\ q.pc = "tx" BY <1>1 DEF Records
  <2> HIDE DEF p, q
  <2> QED BY <2>2, <2>3
<1>3. UNCHANGED <<disk, cases, imported, disturbed>> BY DEF ReadLogs, tables
<1>4. imported' \subseteq cases' BY <1>3 DEF BudgetInv
<1> QED BY <1>2, <1>3, <1>4, BudgetMoves

LEMMA CommitBudget ==
    ASSUME ArchiveInv, BudgetInv, NEW r \in Requests,
           (\E t \in Tokens : BeginCommit(r, t)) \/ ImportRefused(r) \/ Grant(r)
    PROVE  BudgetInv'
<1>1. Idle.pc = "idle" BY DEF Idle
<1>2. PICK q : req' = [req EXCEPT ![r] = q] /\ q.pc \notin {"restore", "copy"}
  <2>1. ASSUME NEW t \in Tokens, BeginCommit(r, t)
        PROVE  \E q : req' = [req EXCEPT ![r] = q] /\ q.pc \notin {"restore", "copy"}
    <3> DEFINE q == [Idle EXCEPT !.pc = "tx", !.kase = staged[t].kase, !.token = t, !.arch = staged[t]]
    <3>1. req' = [req EXCEPT ![r] = q] BY <2>1 DEF BeginCommit, Begin
    <3>2. q.pc = "tx" BY DEF Idle
    <3> HIDE DEF q
    <3> QED BY <3>1, <3>2
  <2>2. CASE ImportRefused(r) \/ Grant(r) BY <1>1, <2>2 DEF ImportRefused, Grant, End
  <2> QED BY <2>1, <2>2
<1>3. UNCHANGED <<disk, cases, imported, disturbed>>
  BY DEF BeginCommit, ImportRefused, Grant, tables, hist
<1>4. imported' \subseteq cases' BY <1>3 DEF BudgetInv
<1> QED BY <1>2, <1>3, <1>4, BudgetMoves

LEMMA DeleteBudget ==
    ASSUME ArchiveInv, BudgetInv, NEW r \in Requests,
           (\E c \in Cases : Delete(r, c)) \/ RemoveDirFails(r)
    PROVE  BudgetInv'
<1>1. PICK q : req' = [req EXCEPT ![r] = q] /\ q.pc \in {"idle", "rmdir"}
  <2>1. ASSUME NEW c \in Cases, Delete(r, c)
        PROVE  \E q : req' = [req EXCEPT ![r] = q] /\ q.pc \in {"idle", "rmdir"}
    <3> DEFINE q == [Idle EXCEPT !.pc = "rmdir", !.kase = c]
    <3>1. req' = [req EXCEPT ![r] = q] BY <2>1 DEF Delete, Begin
    <3>2. q.pc = "rmdir" BY DEF Idle
    <3> HIDE DEF q
    <3> QED BY <3>1, <3>2
  <2>2. CASE RemoveDirFails(r)
    <3>1. req' = [req EXCEPT ![r] = Idle] BY <2>2 DEF RemoveDirFails, End
    <3>2. Idle.pc = "idle" BY DEF Idle
    <3> QED BY <3>1, <3>2
  <2> QED BY <2>1, <2>2
<1>2. disk' = disk /\ disturbed \subseteq disturbed' BY DEF Delete, RemoveDirFails
<1>3. imported' \subseteq imported /\ imported' \subseteq cases'
  BY DEF Delete, RemoveDirFails, BudgetInv, tables
<1> QED BY <1>1, <1>2, <1>3, BudgetMoves

\* Edits, uploads and a crash.
LEMMA QuietBudget ==
    ASSUME ArchiveInv, BudgetInv,
           \/ AddAsset(Source) \/ AddEvent(Source) \/ AddLog(Source)
           \/ \E a \in Of(assets, Source) : DeleteAsset(a) \/ AddComment(a)
           \/ \E t \in Tokens : Upload(t)
           \/ Crash
           \/ UNCHANGED vars
    PROVE  BudgetInv'
<1>1. UNCHANGED <<disk, cases, imported>> /\ disturbed \subseteq disturbed'
  BY DEF AddAsset, AddEvent, AddLog, DeleteAsset, AddComment, Upload, Crash, vars, tables, hist
<1>2. req' = req \/ req' = [r \in Requests |-> Idle]
  BY DEF AddAsset, AddEvent, AddLog, DeleteAsset, AddComment, Upload, Crash, vars
<1>3. Idle.pc = "idle" BY DEF Idle
<1>4. \A p \in Requests : req'[p].pc \in {"restore", "copy"} => req'[p] = req[p] BY <1>2, <1>3
<1>5. imported' \subseteq cases' BY <1>1 DEF BudgetInv
<1> QED BY <1>1, <1>4, <1>5, BudgetKeeps

-----------------------------------------------------------------------------
(* The initial state, every step, and the theorems.                         *)

LEMMA ForeignStored == Foreign \in Stored
<1> DEFINE as == {[id |-> Fresh(Elsewhere, a), kase |-> Elsewhere] : a \in AssetIds}
           es == {[id |-> Fresh(Elsewhere, e), kase |-> Elsewhere,
                   links |-> {Fresh(Elsewhere, a) : a \in AssetIds}] : e \in EventIds}
           gs == {[id |-> Fresh(Elsewhere, g), kase |-> Elsewhere] : g \in LogIds}
<1>1. Elsewhere # Source BY ArchiveAssumption
<1>2. as \subseteq AssetsOf(Elsewhere) BY <1>1 DEF AssetsOf, IdsOf
<1>3. es \subseteq EventsOf(Elsewhere)
  <2>1. {Fresh(Elsewhere, a) : a \in AssetIds} \in SUBSET IdsOf(AssetIds, Elsewhere) BY <1>1 DEF IdsOf
  <2>2. \A e \in EventIds : Fresh(Elsewhere, e) \in IdsOf(EventIds, Elsewhere) BY <1>1 DEF IdsOf
  <2> QED BY <2>1, <2>2 DEF EventsOf
<1>4. gs \subseteq LogsOf(Elsewhere) BY <1>1 DEF LogsOf, IdsOf
<1>5. as \in SUBSET Assets /\ es \in SUBSET Events /\ gs \in SUBSET Logs
  BY <1>2, <1>3, <1>4, RowsTyped, SourceIsCase
<1>6. Foreign = [kase |-> Elsewhere, assets |-> as, events |-> es, comments |-> {}, logs |-> gs,
                 sizes |-> ForeignFiles, mixed |-> FALSE]
  BY DEF Foreign
<1> HIDE DEF as, es, gs
<1>7. ForeignFiles \in [Slots -> Nat] BY ArchiveAssumption
<1>8. {} \in SUBSET Comments OBVIOUS
<1>9. Foreign \in Archives BY <1>5, <1>6, <1>7, <1>8, SourceIsCase DEF Archives
<1>10. OwnRows(Foreign) BY <1>2, <1>3, <1>4, <1>6 DEF OwnRows
<1> QED BY <1>6, <1>9, <1>10 DEF Stored

LEMMA InitArchive == Init => ArchiveInv
<1> SUFFICES ASSUME Init PROVE ArchiveInv OBVIOUS
<1>1. RowsInv BY SourceIsCase DEF Init, RowsInv, TablesInv, LinksStayInCase, CommentsHaveObjects
<1>2. StoreInv BY ForeignStored DEF Init, StoreInv
<1>3. ReqInv BY IdleRemembered DEF Init, ReqInv
<1>4. \A r \in Requests : req[r].pc = "idle" BY DEF Init, Idle
<1>5. ViewInv BY <1>4 DEF ViewInv, Reading
<1>6. WriterInv BY <1>4 DEF WriterInv, WritersHaveCases, OneWriterPerCase, Writing
<1>7. FilesInv
  <2>1. disk \in [Cases -> [Slots -> Nat]] BY NoFilesTyped, ArchiveAssumption DEF Init
  <2>2. NoStrayFiles BY DEF Init, NoStrayFiles
  <2>3. RestoredSoFar BY <1>4 DEF RestoredSoFar
  <2> QED BY <2>1, <2>2, <2>3 DEF FilesInv
<1>8. HistInv BY ArchiveAssumption DEF Init, HistInv
<1> QED BY <1>1, <1>2, <1>3, <1>5, <1>6, <1>7, <1>8 DEF ArchiveInv

LEMMA StutterArchive == ASSUME ArchiveInv, UNCHANGED vars PROVE ArchiveInv'
<1>1. UNCHANGED <<cases, assets, events, comments, logs, disk, staged, downloads, req,
                  mixing, mixed, disturbed, imported, begun>>
  BY DEF vars, tables, hist
<1>2. RowsInv' BY <1>1, RowsKeep DEF ArchiveInv, tables
<1>3. StoreInv' /\ ReqInv' /\ HistInv' BY <1>1 DEF ArchiveInv, StoreInv, ReqInv, HistInv
<1>4. ViewInv' BY <1>1 DEF ArchiveInv, ViewInv, Views, Of
<1>5. WriterInv' BY <1>1 DEF ArchiveInv, WriterInv, WritersHaveCases, OneWriterPerCase, Writing
<1>6. FilesInv' BY <1>1 DEF ArchiveInv, FilesInv, NoStrayFiles, RestoredSoFar
<1> QED BY <1>2, <1>3, <1>4, <1>5, <1>6 DEF ArchiveInv

LEMMA NextArchive == ArchiveInv /\ [Next]_vars => ArchiveInv'
<1> SUFFICES ASSUME ArchiveInv, [Next]_vars PROVE ArchiveInv' OBVIOUS
<1>1. CASE AddAsset(Source) BY <1>1, AddAssetKeeps
<1>2. CASE AddEvent(Source) BY <1>2, AddEventKeeps
<1>3. CASE AddLog(Source) BY <1>3, AddLogKeeps
<1>4. CASE \E a \in Of(assets, Source) : DeleteAsset(a) \/ AddComment(a)
  BY <1>4, DeleteAssetKeeps, AddCommentKeeps
<1>5. CASE \E t \in Tokens : Upload(t) BY <1>5, UploadKeeps
<1>6. ASSUME NEW r \in Requests,
             \/ \E dst \in Cases : BeginExport(r, dst)
             \/ ReadAssets(r) \/ ReadEvents(r) \/ ReadComments(r) \/ ReadLogs(r) \/ Download(r)
      PROVE  ArchiveInv'
  BY <1>6, BeginExportKeeps, ReadAssetsKeeps, ReadEventsKeeps, ReadCommentsKeeps, ReadLogsKeeps,
     DownloadKeeps
<1>7. ASSUME NEW r \in Requests,
             \/ \E t \in Tokens : BeginCommit(r, t)
             \/ ImportTx(r) \/ ImportRefused(r) \/ RestoreFile(r) \/ Grant(r)
             \/ CopyFiles(r) \/ Fails(r)
      PROVE  ArchiveInv'
  BY <1>7, BeginCommitKeeps, ImportTxKeeps, ImportRefusedKeeps, RestoreFileKeeps, GrantKeeps,
     CopyFilesKeeps, FailsKeeps
<1>8. ASSUME NEW r \in Requests,
             \/ \E c \in Cases : Delete(r, c)
             \/ RemoveDir(r) \/ RemoveDirFails(r)
      PROVE  ArchiveInv'
  BY <1>8, DeleteKeeps, RemoveDirKeeps, RemoveDirFailsKeeps
<1>9. CASE Crash BY <1>9, CrashKeeps
<1>10. CASE UNCHANGED vars BY <1>10, StutterArchive
<1> QED BY <1>1, <1>2, <1>3, <1>4, <1>5, <1>6, <1>7, <1>8, <1>9, <1>10 DEF Next

LEMMA InitBudget == Init => BudgetInv
<1> SUFFICES ASSUME Init PROVE BudgetInv OBVIOUS
<1>1. imported = {} /\ \A r \in Requests : req[r].pc = "idle" BY DEF Init, Idle
<1> QED BY <1>1 DEF BudgetInv, WithinBudget

LEMMA NextBudget == ArchiveInv /\ BudgetInv /\ [Next]_vars => BudgetInv'
<1> SUFFICES ASSUME ArchiveInv, BudgetInv, [Next]_vars PROVE BudgetInv' OBVIOUS
<1>1. CASE \/ AddAsset(Source) \/ AddEvent(Source) \/ AddLog(Source)
           \/ \E a \in Of(assets, Source) : DeleteAsset(a) \/ AddComment(a)
           \/ \E t \in Tokens : Upload(t)
           \/ Crash
           \/ UNCHANGED vars
  BY <1>1, QuietBudget
<1>2. ASSUME NEW r \in Requests,
             \/ \E dst \in Cases : BeginExport(r, dst)
             \/ ReadAssets(r) \/ ReadEvents(r) \/ ReadComments(r) \/ ReadLogs(r) \/ Download(r)
      PROVE  BudgetInv'
  BY <1>2, ExportBudget, ReadLogsBudget
<1>3. ASSUME NEW r \in Requests,
             \/ \E t \in Tokens : BeginCommit(r, t)
             \/ ImportTx(r) \/ ImportRefused(r) \/ RestoreFile(r) \/ Grant(r)
             \/ CopyFiles(r) \/ Fails(r)
      PROVE  BudgetInv'
  BY <1>3, CommitBudget, ImportTxBudget, RestoreFileBudget, CopyFilesBudget, FailsBudget
<1>4. ASSUME NEW r \in Requests,
             \/ \E c \in Cases : Delete(r, c)
             \/ RemoveDir(r) \/ RemoveDirFails(r)
      PROVE  BudgetInv'
  BY <1>4, DeleteBudget, RemoveDirBudget
<1> QED BY <1>1, <1>2, <1>3, <1>4 DEF Next

\* The invariant the other theorems rest on.
THEOREM ArchiveInvariant == Spec => []ArchiveInv
BY InitArchive, NextArchive, PTL DEF Spec

\* Tables, files, archives and what requests remember are always well-formed
\* (internal/model/archive.go, internal/handler/archive.go).
THEOREM ArchiveTypeCorrect == Spec => []TypeOK
BY ArchiveInvariant, InvTypes, PTL

\* No export, fork or import links an event to an asset of another case
\* (ExportCaseArchive, ForkCase, ImportCaseArchive).
THEOREM LinksStay == Spec => []LinksStayInCase
<1>1. ArchiveInv => LinksStayInCase BY DEF ArchiveInv, RowsInv
<1> QED BY <1>1, ArchiveInvariant, PTL

\* No comment loses its object, unless an edit overlapped the export its case
\* comes from (DeleteAsset, DeleteCase, ForkCase).
THEOREM CommentsKeepObjects == Spec => []CommentsHaveObjects
<1>1. ArchiveInv => CommentsHaveObjects BY DEF ArchiveInv, RowsInv
<1> QED BY <1>1, ArchiveInvariant, PTL

\* Files of a case that does not exist are being removed, or their removal was
\* disturbed (ImportCaseArchive before restoreBinaries, CaseDelete).
THEOREM NoFilesStray == Spec => []NoStrayFiles
<1>1. ArchiveInv => NoStrayFiles BY DEF ArchiveInv, FilesInv
<1> QED BY <1>1, ArchiveInvariant, PTL

\* Two requests fill the directories of one case only if it was deleted
\* meanwhile (assertNoCollisions, CommitImport).
THEOREM WritersApart == Spec => []OneWriterPerCase
<1>1. ArchiveInv => OneWriterPerCase BY DEF ArchiveInv, WriterInv
<1> QED BY <1>1, ArchiveInvariant, PTL

\* Every binary an import has gone past is on disk in its full size, and all
\* it has restored takes no more than the budget and the byte read past it
\* (restoreBinaries, writeZipFile).
THEOREM FilesRestoredWhole == Spec => []RestoredFilesAreWhole
<1>1. Init => ArchiveInv /\ BudgetInv BY InitArchive, InitBudget
<1>2. ArchiveInv /\ BudgetInv /\ [Next]_vars => (ArchiveInv /\ BudgetInv)' BY NextArchive, NextBudget
<1>3. ArchiveInv /\ BudgetInv => RestoredFilesAreWhole
  BY DEF ArchiveInv, FilesInv, RestoredSoFar, FilesAreWhole, BudgetInv, RestoredFilesAreWhole
<1> QED BY <1>1, <1>2, <1>3, PTL DEF Spec

=============================================================================
