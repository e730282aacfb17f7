------------------------------- MODULE CaseRecords -------------------------------
(***************************************************************************)
(* The records of a case: events, assets, indicators, malware samples and  *)
(* the comments on them (internal/handler/{events,assets,indicators,       *)
(* malware,comments}.go and their store methods in internal/model).        *)
(*                                                                         *)
(* Most handlers are one transaction.  Two are not: a comment is saved     *)
(* after its object was looked up, and a sample's file is written, renamed *)
(* or removed between statements.  Comments refer to any kind of object    *)
(* and have no foreign key; links of events and the asset of a sample have *)
(* one, ON DELETE CASCADE.                                                 *)
(***************************************************************************)
EXTENDS Naturals, FiniteSets

CONSTANTS
    Events, Assets, Indicators, Malware, Comments,  \* ids of rows
    Names,         \* names of assets
    Values,        \* values of indicators; the hashes of samples are some
    Hashes,
    Texts,         \* what an event may say
    FromSketch,    \* the text a Timesketch event is imported with
    Requests,      \* concurrent requests
    NoRow, None,
    MaxOps,        \* bound on requests
    MaxFails       \* bound on failures and crashes

EventRows == [text : Texts, assets : SUBSET Assets, indicators : SUBSET Indicators]
Samples   == [asset : Assets \cup {None}, hash : Hashes]

\* What a comment may be on; the kinds of CommentKinds that behave alike are left out.
Objects == ({"events"} \X Events) \cup ({"assets"} \X Assets)
           \cup ({"indicators"} \X Indicators) \cup ({"malware"} \X Malware)

ASSUME RecordsAssumption ==
    /\ Hashes \subseteq Values /\ FromSketch \in Texts
    /\ None \notin Assets \cup Malware \cup Hashes
    /\ NoRow \notin Names \cup Values \cup EventRows \cup Samples \cup Objects
    /\ Comments \cap Requests = {}
    /\ MaxOps \in Nat /\ MaxFails \in Nat

VARIABLES
    events,      \* with their links
    assets,      \* names
    indicators,  \* values
    malware,
    comments,    \* the objects they are on
    files,       \* data/malware/<case>/<hash>.zip: the row it was uploaded for
    req,
    \* history
    said,        \* what an analyst last saved of an event
    reimported,  \* events imported again since
    late,        \* comments whose object went while they were saved, and such requests
    cascaded,    \* samples that went with their asset
    uploaded,    \* samples that came with a file
    imported,    \* samples whose entry has its hash from a CSV file
    contested,   \* samples another request had a hand in, or a failure
    ops, fails

tables == <<events, assets, indicators, malware, comments>>
hist   == <<said, reimported, late, cascaded, uploaded, imported, contested, ops, fails>>
vars   == <<tables, files, req, hist>>
records == <<tables, files, req, said, reimported, late, cascaded, uploaded, imported, contested>>

Idle == [pc |-> "idle", id |-> None, hash |-> None, old |-> None, asset |-> None,
         push |-> FALSE, on |-> None]

TypeOK ==
    /\ events \in [Events -> EventRows \cup {NoRow}]
    /\ assets \in [Assets -> Names \cup {NoRow}]
    /\ indicators \in [Indicators -> Values \cup {NoRow}]
    /\ malware \in [Malware -> Samples \cup {NoRow}]
    /\ comments \in [Comments -> Objects \cup {NoRow}]
    /\ files \in [Hashes -> Malware \cup {None}]
    /\ \A r \in Requests :
        /\ req[r].pc \in {"idle", "comment", "create", "copy", "entry", "rename", "save",
                          "push", "pushed", "remove", "delete"}
        /\ req[r].hash \in Hashes \cup {None} /\ req[r].old \in Hashes \cup {None}
        /\ req[r].pc # "idle" => req[r].id \in Malware \cup Comments
    \* the unique indexes and the foreign keys of the tables
    /\ \A a, b \in Assets : assets[a] # NoRow /\ assets[a] = assets[b] => a = b
    /\ \A e \in Events : events[e] # NoRow =>
        /\ \A a \in events[e].assets : assets[a] # NoRow
        /\ \A i \in events[e].indicators : indicators[i] # NoRow
    /\ \A m \in Malware : malware[m] # NoRow /\ malware[m].asset # None
                            => assets[malware[m].asset] # NoRow

\* A case that may already have assets.
Init ==
    /\ events = [e \in Events |-> NoRow]
    /\ assets \in [Assets -> Names \cup {NoRow}]
    /\ \A a, b \in Assets : assets[a] # NoRow /\ assets[a] = assets[b] => a = b
    /\ indicators = [i \in Indicators |-> NoRow] /\ malware = [m \in Malware |-> NoRow]
    /\ comments = [c \in Comments |-> NoRow]
    /\ files = [h \in Hashes |-> None]
    /\ req = [r \in Requests |-> Idle]
    /\ said = [e \in Events |-> NoRow]
    /\ reimported = {} /\ late = {} /\ cascaded = {} /\ uploaded = {} /\ imported = {}
    /\ contested = {}
    /\ ops = 0 /\ fails = 0

\* HasCaseObject
Exists(o) ==
    CASE o[1] = "events"     -> events[o[2]] # NoRow
      [] o[1] = "assets"     -> assets[o[2]] # NoRow
      [] o[1] = "indicators" -> indicators[o[2]] # NoRow
      [] OTHER               -> malware[o[2]] # NoRow

Request == ops < MaxOps /\ ops' = ops + 1

\* Requests that are saving a comment on one of the objects.
Commenting(os) == {r \in Requests : req[r].pc = "comment" /\ req[r].on \in os}

\* deleteObjectComments, and the history: comments on their way come too late.
CommentsGo(os) ==
    /\ comments' = [c \in Comments |-> IF comments[c] \in os THEN NoRow ELSE comments[c]]
    /\ late' = (late \ {c \in Comments : comments[c] \in os}) \cup Commenting(os)

-----------------------------------------------------------------------------
(* Assets and indicators by name *)

\* What getOrCreateAssets makes of the names of a form: the assets there are, and for
\* each of the others a new one.
getOrCreateAssets(names, found, table) ==
    /\ table \in [Assets -> Names \cup {NoRow}]
    /\ \A a \in Assets : assets[a] # NoRow => table[a] = assets[a]
    /\ \A a, b \in Assets : table[a] # NoRow /\ table[a] = table[b] => a = b
    /\ {table[a] : a \in {b \in Assets : assets[b] = NoRow}} \ {NoRow}
         = names \ {assets[a] : a \in Assets}
    /\ found = {a \in Assets : table[a] \in names}

\* getOrCreateIndicators: the first indicator of that value, of whatever type.
getOrCreateIndicators(values, found, table) ==
    /\ \A i \in Indicators : indicators[i] # NoRow => table[i] = indicators[i]
    /\ \A i, j \in Indicators :
        indicators[i] = NoRow /\ table[i] # NoRow /\ table[i] = table[j] => i = j
    /\ {table[i] : i \in {j \in Indicators : indicators[j] = NoRow}} \ {NoRow}
         = values \ {indicators[i] : i \in Indicators}
    /\ found \subseteq {i \in Indicators : table[i] \in values}
    /\ \A v \in values : \E i \in found : table[i] = v
    /\ \A i, j \in found : table[i] = table[j] => i = j

-----------------------------------------------------------------------------
(* Events *)

\* Wrong variant: links that are not on the form stay.
SaveEventKeepLinks(e, row, override) ==
    events' = [events EXCEPT ![e] =
        IF @ = NoRow THEN row
        ELSE [text       |-> IF override THEN row.text ELSE @.text,
              assets     |-> row.assets \cup @.assets,
              indicators |-> row.indicators \cup @.indicators]]

\* SaveEvent: without override a row that is there keeps its text; the links are
\* replaced all the same.
SaveEvent(e, row, override) ==
    events' = [events EXCEPT ![e] =
        IF @ = NoRow \/ override THEN row ELSE [row EXCEPT !.text = events[e].text]]

\* EventSave, or a record of EventImportCSV, in one transaction with the assets and
\* indicators it makes.
EventSave(e, text, names, values) ==
    /\ Request
    /\ \E as \in [Assets -> Names \cup {NoRow}], is \in [Indicators -> Values \cup {NoRow}],
          fa \in SUBSET Assets, fi \in SUBSET Indicators :
        /\ getOrCreateAssets(names, fa, as)
        /\ getOrCreateIndicators(values, fi, is)
        /\ LET row == [text |-> text, assets |-> fa, indicators |-> fi]
           IN SaveEvent(e, row, TRUE) /\ said' = [said EXCEPT ![e] = row]
        /\ assets' = as /\ indicators' = is
    /\ reimported' = reimported \ {e}
    /\ UNCHANGED <<malware, comments, files, req, late, cascaded, uploaded, imported, contested, fails>>

\* A record of EventImportCSV that fails once its assets are made: they stay, since the
\* callback's error does not reach the transaction.
EventRecordFails(names) ==
    /\ Request /\ fails < MaxFails /\ fails' = fails + 1
    /\ \E as \in [Assets -> Names \cup {NoRow}], fa \in SUBSET Assets :
        getOrCreateAssets(names, fa, as) /\ assets' = as
    /\ UNCHANGED <<events, indicators, malware, comments, files, req, said, reimported, late,
                   cascaded, uploaded, imported, contested>>

\* saveTimesketchEvents, for one event: it comes without links.
saveTimesketchEvents(e) ==
    /\ Request
    /\ SaveEvent(e, [text |-> FromSketch, assets |-> {}, indicators |-> {}], FALSE)
    /\ reimported' = IF events[e] = NoRow THEN reimported ELSE reimported \cup {e}
    /\ UNCHANGED <<assets, indicators, malware, comments, files, req, said, late, cascaded,
                   uploaded, imported, contested, fails>>

EventDelete(e) ==
    /\ Request
    /\ CommentsGo({<<"events", e>>})
    /\ events' = [events EXCEPT ![e] = NoRow]
    /\ said' = [said EXCEPT ![e] = NoRow]
    /\ reimported' = reimported \ {e}
    /\ UNCHANGED <<assets, indicators, malware, files, req, cascaded, uploaded, imported, contested, fails>>

-----------------------------------------------------------------------------
(* Assets and indicators *)

\* SaveAsset writes the row whole, a deleted one again; a name is taken only once.
AssetSave(a, name) ==
    /\ Request
    /\ \A b \in Assets \ {a} : assets[b] # name
    /\ assets' = [assets EXCEPT ![a] = name]
    /\ UNCHANGED <<events, indicators, malware, comments, files, req, said, reimported, late,
                   cascaded, uploaded, imported, contested, fails>>

Unlink(table, a) ==
    [e \in Events |-> IF table[e] = NoRow THEN NoRow ELSE [table[e] EXCEPT !.assets = @ \ {a}]]

\* DeleteAsset: links and samples go with it by their foreign keys, its own comments by
\* hand; those on the samples do not.
AssetDelete(a) ==
    LET gone == {m \in Malware : malware[m] # NoRow /\ malware[m].asset = a}
    IN /\ Request /\ assets[a] # NoRow
       /\ assets' = [assets EXCEPT ![a] = NoRow]
       /\ events' = Unlink(events, a) /\ said' = Unlink(said, a)
       /\ malware' = [m \in Malware |-> IF m \in gone THEN NoRow ELSE malware[m]]
       /\ cascaded' = cascaded \cup gone
       /\ CommentsGo({<<"assets", a>>})
       /\ UNCHANGED <<indicators, files, req, reimported, uploaded, imported, contested, fails>>

\* IndicatorSave, and SaveIndicator of a request that pushes one: the index is on the
\* type and the value, so of the same value there may be two.
IndicatorSave(i, value) ==
    /\ Request
    /\ indicators' = [indicators EXCEPT ![i] = value]
    /\ UNCHANGED <<events, assets, malware, comments, files, req, said, reimported, late,
                   cascaded, uploaded, imported, contested, fails>>

\* saveTimesketchIndicators: a new row for each, or none at all if the index refuses one,
\* which is there already with its type and value.
saveTimesketchIndicators(table) ==
    /\ Request
    /\ \A i \in Indicators : indicators[i] # NoRow => table[i] = indicators[i]
    /\ indicators' = table
    /\ UNCHANGED <<events, assets, malware, comments, files, req, said, reimported, late,
                   cascaded, uploaded, imported, contested, fails>>

UnlinkIndicator(table, i) ==
    [e \in Events |-> IF table[e] = NoRow THEN NoRow
                      ELSE [table[e] EXCEPT !.indicators = @ \ {i}]]

IndicatorDelete(i) ==
    /\ Request /\ indicators[i] # NoRow
    /\ indicators' = [indicators EXCEPT ![i] = NoRow]
    /\ events' = UnlinkIndicator(events, i) /\ said' = UnlinkIndicator(said, i)
    /\ CommentsGo({<<"indicators", i>>})
    /\ UNCHANGED <<assets, malware, files, req, reimported, cascaded, uploaded, imported, contested, fails>>

-----------------------------------------------------------------------------
(* Comments *)

\* commentParent, and of an edit the comment itself; canModifyComment may refuse.
CommentBegin(r, c, o) ==
    /\ Request /\ req[r].pc = "idle" /\ Exists(o)
    /\ req' = [req EXCEPT ![r] = [Idle EXCEPT !.pc = "comment", !.id = c, !.on = o]]
    /\ UNCHANGED <<tables, files, said, reimported, late, cascaded, uploaded, imported, contested, fails>>

\* SaveComment: the row whole, under the object of the request's path.
CommentSave(r) ==
    /\ req[r].pc = "comment"
    /\ comments' = [comments EXCEPT ![req[r].id] = req[r].on]
    /\ req' = [req EXCEPT ![r] = Idle]
    /\ late' = IF r \in late THEN (late \ {r}) \cup {req[r].id} ELSE late \ {req[r].id}
    /\ UNCHANGED <<events, assets, indicators, malware, files, said, reimported, cascaded,
                   uploaded, imported, contested, ops, fails>>

\* commentParent looks at the object of the request's path, which need not be the
\* comment's own.
CommentDelete(c, o) ==
    /\ Request /\ Exists(o) /\ comments[c] # NoRow
    /\ comments' = [comments EXCEPT ![c] = NoRow]
    /\ late' = late \ {c}
    /\ UNCHANGED <<events, assets, indicators, malware, files, req, said, reimported, cascaded,
                   uploaded, imported, contested, fails>>

-----------------------------------------------------------------------------
(* Samples *)

Become(r, f) == req' = [req EXCEPT ![r] = f]
Go(r, pc)    == Become(r, [req[r] EXCEPT !.pc = pc])
End(r)       == Become(r, Idle)

\* History: the samples that a request for m, or for the files of hs, has to do with
\* besides its own, and its own if another request has to do with them.
Others(r, m, hs) ==
    {n \in Malware \ {m} : malware[n] # NoRow /\ malware[n].hash \in hs}
    \cup {req[q].id : q \in {p \in Requests \ {r} :
            /\ req[p].pc \notin {"idle", "comment"}
            /\ req[p].id = m \/ {req[p].hash, req[p].old} \cap hs # {}}}
Contest(r, m, hs) ==
    LET o == Others(r, m, hs)
    IN contested' = IF o = {} /\ (\A h \in hs : files[h] \in {None, m}) THEN contested
                    ELSE contested \cup o \cup {m}
                         \cup {files[h] : h \in {g \in hs : files[g] # None}}

\* MalwareSave: the asset is looked up, then the file is dealt with.
MalwareSave(r, m, hash, asset, push, pc) ==
    /\ Request /\ req[r].pc = "idle"
    /\ asset # None => assets[asset] # NoRow
    /\ pc \in {"create", "save"} => malware[m] = NoRow /\ m \notin uploaded
    /\ Become(r, [Idle EXCEPT !.pc = pc, !.id = m, !.hash = hash, !.asset = asset, !.push = push])
    /\ Contest(r, m, {hash})
    /\ UNCHANGED <<tables, files, said, reimported, late, cascaded, uploaded, imported, fails>>

\* resolveMalwareFile of an upload: O_EXCL refuses a file that is there.
Create(r) ==
    LET q == req[r]
    IN /\ q.pc = "create"
       /\ \/ files[q.hash] # None /\ End(r) /\ UNCHANGED files
          \/ files[q.hash] = None /\ Go(r, "copy") /\ files' = [files EXCEPT ![q.hash] = q.id]
       /\ UNCHANGED <<tables, hist>>

Copy(r) ==
    /\ req[r].pc = "copy" /\ Go(r, "save")
    /\ uploaded' = uploaded \cup {req[r].id}
    /\ UNCHANGED <<tables, files, said, reimported, late, cascaded, imported, contested, ops, fails>>

\* resolveMalwareFile of an entry there is: its file is renamed if its hash changed.
Entry(r) ==
    LET q == req[r]
        row == malware[q.id]
    IN /\ q.pc = "entry"
       /\ \/ row = NoRow /\ End(r) /\ UNCHANGED contested
          \/ row # NoRow /\ row.hash = q.hash /\ Go(r, "save") /\ UNCHANGED contested
          \/ row # NoRow /\ row.hash # q.hash
             /\ Become(r, [q EXCEPT !.pc = "rename", !.old = row.hash])
             /\ Contest(r, q.id, {q.hash, row.hash})
       /\ UNCHANGED <<tables, files, said, reimported, late, cascaded, uploaded, imported, ops, fails>>

\* Wrong variant: the file keeps its name.
RenameNot(r) ==
    LET q == req[r]
    IN q.pc = "rename" /\ Go(r, "save") /\ UNCHANGED <<tables, files, hist>>

Rename(r) ==
    LET q == req[r]
    IN /\ q.pc = "rename"
       /\ \/ files[q.old] = None /\ End(r) /\ UNCHANGED files
          \/ /\ files[q.old] # None /\ Go(r, "save")
             /\ files' = [files EXCEPT ![q.hash] = files[q.old], ![q.old] = None]
       /\ UNCHANGED <<tables, hist>>

\* SaveMalware: the foreign key refuses a sample whose asset went; the row is written
\* whole, a deleted one again.
SaveMalware(r) ==
    LET q == req[r]
    IN /\ q.pc = "save"
       /\ \/ /\ q.asset # None /\ assets[q.asset] = NoRow
             /\ End(r) /\ contested' = contested \cup {q.id}
             /\ UNCHANGED malware
          \/ /\ q.asset # None => assets[q.asset] # NoRow
             /\ malware' = [malware EXCEPT ![q.id] = [asset |-> q.asset, hash |-> q.hash]]
             /\ IF q.push THEN Go(r, "push") ELSE End(r)
             /\ UNCHANGED contested
       /\ UNCHANGED <<events, assets, indicators, comments, files, said, reimported, late,
                      cascaded, uploaded, imported, ops, fails>>

\* The hash as an indicator, if there is none of that value.
Push(r) ==
    LET q == req[r]
    IN /\ q.pc = "push"
       /\ IF \E i \in Indicators : indicators[i] = q.hash THEN End(r) ELSE Go(r, "pushed")
       /\ UNCHANGED <<tables, files, hist>>

\* One pushed by another request in between has the same type: the index refuses this
\* one.  One of another type stands beside it.
Pushed(r) ==
    /\ req[r].pc = "pushed" /\ End(r)
    /\ \/ \E i \in Indicators : indicators[i] = NoRow
                                /\ indicators' = [indicators EXCEPT ![i] = req[r].hash]
       \/ (\E i \in Indicators : indicators[i] = req[r].hash) /\ UNCHANGED indicators
    /\ UNCHANGED <<events, assets, malware, comments, files, hist>>

\* A record of MalwareImport: the row whole, over one that is there, with the asset of
\* that name, which is made if there is none.  No file is touched.
MalwareImport(m, hash, names) ==
    /\ Request
    /\ \E as \in [Assets -> Names \cup {NoRow}], fa \in SUBSET Assets :
        /\ getOrCreateAssets(names, fa, as) /\ assets' = as
        /\ \E a \in IF fa = {} THEN {None} ELSE fa :
            malware' = [malware EXCEPT ![m] = [asset |-> a, hash |-> hash]]
    /\ imported' = IF malware[m] # NoRow /\ malware[m].hash = hash THEN imported
                   ELSE imported \cup {m}
    /\ UNCHANGED <<events, indicators, comments, files, req, said, reimported, late, cascaded,
                   uploaded, contested, fails>>

\* MalwareDelete: the entry is read, its file is removed, then the row goes.
MalwareDelete(r, m) ==
    /\ Request /\ req[r].pc = "idle" /\ malware[m] # NoRow
    /\ Become(r, [Idle EXCEPT !.pc = "remove", !.id = m, !.hash = malware[m].hash])
    /\ Contest(r, m, {malware[m].hash})
    /\ UNCHANGED <<tables, files, said, reimported, late, cascaded, uploaded, imported, fails>>

Remove(r) ==
    /\ req[r].pc = "remove" /\ Go(r, "delete")
    /\ files' = [files EXCEPT ![req[r].hash] = None]
    /\ UNCHANGED <<tables, hist>>

\* Wrong variant: the comments on a sample stay.
DeleteMalwareOnly(r) ==
    /\ req[r].pc = "delete" /\ End(r)
    /\ malware' = [malware EXCEPT ![req[r].id] = NoRow]
    /\ late' = late \cup Commenting({<<"malware", req[r].id>>})
    /\ UNCHANGED <<events, assets, indicators, comments, files, said, reimported, cascaded,
                   uploaded, imported, contested, ops, fails>>

DeleteMalware(r) ==
    /\ req[r].pc = "delete" /\ End(r)
    /\ malware' = [malware EXCEPT ![req[r].id] = NoRow]
    /\ \/ malware[req[r].id] # NoRow /\ CommentsGo({<<"malware", req[r].id>>})
       \/ malware[req[r].id] = NoRow /\ UNCHANGED <<comments, late>>
    /\ UNCHANGED <<events, assets, indicators, files, said, reimported, cascaded, uploaded, imported,
                   contested, ops, fails>>

-----------------------------------------------------------------------------

\* A statement or a copy fails, or the process ends: what was done stays.
Fails ==
    /\ fails < MaxFails /\ fails' = fails + 1
    /\ \E rs \in SUBSET Requests :
        /\ rs # {} /\ \A r \in rs : req[r].pc # "idle"
        /\ req' = [r \in Requests |-> IF r \in rs THEN Idle ELSE req[r]]
        /\ contested' = contested \cup {req[r].id : r \in {q \in rs : req[q].pc # "comment"}}
        /\ late' = late \ rs
    /\ UNCHANGED <<tables, files, said, reimported, cascaded, uploaded, imported, ops>>

NextRecord ==
    \/ \E e \in Events :
        \/ EventDelete(e) \/ saveTimesketchEvents(e)
        \/ \E t \in Texts \ {FromSketch}, ns \in SUBSET Names, vs \in SUBSET Values :
             EventSave(e, t, ns, vs)
    \/ \E ns \in SUBSET Names : EventRecordFails(ns)
    \/ \E a \in Assets : AssetDelete(a) \/ \E n \in Names : AssetSave(a, n)
    \/ \E i \in Indicators : IndicatorDelete(i) \/ \E v \in Values : IndicatorSave(i, v)
    \/ \E is \in [Indicators -> Values \cup {NoRow}] : saveTimesketchIndicators(is)
    \/ \E c \in Comments, o \in Objects : CommentDelete(c, o)
    \/ \E m \in Malware, h \in Hashes, ns \in SUBSET Names :
        Cardinality(ns) <= 1 /\ MalwareImport(m, h, ns)

NextRequest(r) ==
    \/ \E c \in Comments, o \in Objects : CommentBegin(r, c, o)
    \/ \E m \in Malware, h \in Hashes, a \in Assets \cup {None}, p \in BOOLEAN,
          pc \in {"create", "entry", "save"} : MalwareSave(r, m, h, a, p, pc)
    \/ \E m \in Malware : MalwareDelete(r, m)
    \/ CommentSave(r)
    \/ Create(r) \/ Copy(r) \/ Entry(r) \/ Rename(r) \/ SaveMalware(r) \/ Push(r) \/ Pushed(r)
    \/ Remove(r) \/ DeleteMalware(r)

Next == Fails \/ NextRecord \/ \E r \in Requests : NextRequest(r)

Spec == Init /\ [][Next]_vars

-----------------------------------------------------------------------------
(* Properties *)

Orphans == {c \in Comments : comments[c] # NoRow /\ ~Exists(comments[c])}

\* A comment has an object, unless that went while the comment was being saved, or was a
\* sample that went with its asset: deleteObjectComments is called by hand wherever a row
\* is deleted, in one transaction with it.
CommentsHaveObjects ==
    \A c \in Orphans : c \in late \/ comments[c] \in {"malware"} \X cascaded

\* An event is what an analyst last made of it, in text and links, whatever is imported
\* over it; imports from Timesketch may only take its links away.
EventsAreAsSaved ==
    \A e \in Events : events[e] # NoRow /\ said[e] # NoRow =>
        /\ events[e].text = said[e].text
        /\ e \in reimported \/ events[e] = said[e]

\* saveTimesketchEvents: "an already imported (and possibly analyst-edited) event is kept,
\* not duplicated or clobbered".
ImportsKeepEdits ==
    \A e \in Events : events[e] # NoRow /\ said[e] # NoRow => events[e] = said[e]

Busy(m) == \E r \in Requests : req[r].pc # "idle" /\ req[r].id = m

\* A sample that was uploaded is found under the hash of its entry, through renamings,
\* edits and imports from CSV, unless another request had a hand in it, one of its own
\* broke off, or a CSV record gave it a hash its entry did not have (MalwareImport
\* renames no file, and brings none to an entry that was deleted).
SamplesKeepTheirFiles ==
    \A m \in uploaded \ (contested \cup imported) :
        malware[m] # NoRow /\ ~Busy(m) => files[malware[m].hash] = m
=============================================================================
