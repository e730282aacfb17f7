-------------------------- MODULE CaseLifecycleProofs --------------------------
(***************************************************************************)
(* Proofs about CaseLifecycle and the CaseRecords it is composed with, for *)
(* any number of records, requests, editors and tasks.                     *)
(*                                                                         *)
(* What carries them: a comment on its way has its object, or is known to  *)
(* come late (CommentInv); what was said of an event is there as long as   *)
(* the event is (EventInv); requests that have to do with the same sample  *)
(* or file are both contested, and what a request has found out about its  *)
(* file stays true unless it is (SampleInv); and what an editor has counted *)
(* stays counted unless something slipped past it (AskInv).                *)
(***************************************************************************)
EXTENDS CaseLifecycle, TLAPS

Sampling == {r \in Requests : req[r].pc \notin {"idle", "comment"}}

Records ==
    [pc : {"idle", "comment", "create", "copy", "entry", "rename", "save", "push", "pushed",
           "remove", "delete"},
     id : Malware \cup Comments \cup {None},
     hash : Hashes \cup {None}, old : Hashes \cup {None},
     asset : Assets \cup {None}, push : BOOLEAN, on : Objects \cup {None}]

\* What a request remembers depends on how far it has come.
Remembered == {q \in Records :
    /\ q.pc = "comment" => q.id \in Comments /\ q.on \in Objects
    /\ q.pc \notin {"idle", "comment"} => q.id \in Malware /\ q.hash \in Hashes
    /\ q.pc = "rename" => q.old \in Hashes \ {q.hash}}

ReqInv == req \in [Requests -> Remembered]

\* The unique index and the foreign keys.
KeysInv ==
    /\ \A a, b \in Assets : assets[a] # NoRow /\ assets[a] = assets[b] => a = b
    /\ \A e \in Events : events[e] # NoRow =>
        /\ \A a \in events[e].assets : assets[a] # NoRow
        /\ \A i \in events[e].indicators : indicators[i] # NoRow
    /\ \A m \in Malware : malware[m] # NoRow /\ malware[m].asset # None
                            => assets[malware[m].asset] # NoRow

TablesInv ==
    /\ events \in [Events -> EventRows \cup {NoRow}]
    /\ assets \in [Assets -> Names \cup {NoRow}]
    /\ indicators \in [Indicators -> Values \cup {NoRow}]
    /\ malware \in [Malware -> Samples \cup {NoRow}]
    /\ comments \in [Comments -> Objects \cup {NoRow}]
    /\ files \in [Hashes -> Malware \cup {None}]
    /\ KeysInv

\* The objects on which a comment may be: there, or samples that went with their asset.
Known == {o \in Objects : Exists(o) \/ o \in {"malware"} \X cascaded}

CommentInv ==
    /\ \A c \in Comments \ late : comments[c] # NoRow => comments[c] \in Known
    /\ \A r \in Requests \ late : req[r].pc = "comment" => req[r].on \in Known

EventInv ==
    /\ said \in [Events -> EventRows \cup {NoRow}]
    /\ \A e \in Events : said[e] # NoRow => events[e] # NoRow
    /\ EventsAreAsSaved

HashesOf(q) == {q.hash, q.old} \cap Hashes

\* Requests that meet are contested, and so is who has the file of another's.
ContestInv ==
    /\ \A p, q \in Sampling :
        p # q /\ (req[p].id = req[q].id \/ HashesOf(req[p]) \cap HashesOf(req[q]) # {})
          => req[p].id \in contested /\ req[q].id \in contested
    /\ \A r \in Sampling : \A h \in HashesOf(req[r]) : files[h] \in {None, req[r].id} \cup contested

\* What a request knows of the file of its own sample.
FilesKnown ==
    \A r \in Sampling :
        /\ req[r].pc = "copy" /\ req[r].id \notin contested => files[req[r].hash] = req[r].id
        /\ req[r].id \in uploaded \ (contested \cup imported) =>
            /\ req[r].pc \notin {"create", "copy"}
            /\ req[r].pc = "save" => files[req[r].hash] = req[r].id
            /\ req[r].pc = "rename" => files[req[r].old] = req[r].id

\* The samples whose file a request is taking elsewhere.
Moving == {req[r].id : r \in {q \in Sampling : req[q].pc \in {"save", "rename", "delete"}}}

FilesKept ==
    \A m \in uploaded \ (contested \cup imported) : malware[m] # NoRow /\ m \notin Moving => files[malware[m].hash] = m

SampleInv == uploaded \subseteq Malware /\ ContestInv /\ FilesKnown /\ FilesKept

RecordsInv == ReqInv /\ TablesInv /\ CommentInv /\ EventInv /\ SampleInv

Edits == [pc : {"idle", "prior", "tasks", "assets", "save", "clone"}, form : Cases \cup {NoRow},
          new : BOOLEAN, clone : BOOLEAN, asked : BOOLEAN, open : BOOLEAN]

\* A form is dated as it is closed.
Forms == {f \in Cases : f.dated = f.closed}

EditInv ==
    /\ edit \in [Editors -> Edits]
    /\ \A e \in Editors : edit[e].pc # "idle" => edit[e].form \in Forms

CaseInv ==
    /\ kase \in Forms \cup {NoRow}
    /\ tasks \in [Tasks -> {"none", "open", "done"}]
    /\ notes \subseteq Notes /\ triaged \subseteq Assets
    /\ template \in Templates \cup {NoRow}
    /\ EditInv
    /\ kase = NoRow => ~Outstanding

\* What an editor's request has counted, unless something slipped past it.
Counted(q) ==
    /\ q.pc = "assets" /\ ~q.new /\ ~q.open => OpenTasks = {}
    /\ q.pc = "save" /\ q.form.closed /\ ~q.asked => q.form.complete /\ (q.new \/ ~Outstanding)

AskInv == ~unasked /\ \A e \in Editors \ slipped : Counted(edit[e])

LifecycleInv == RecordsInv /\ CaseInv /\ AskInv

-----------------------------------------------------------------------------
(* What steps have in common.                                               *)

LEMMA IdleRemembered == Idle \in Remembered /\ Idle.pc = "idle"
BY DEF Idle, Remembered, Records

LEMMA OneChanges ==
    ASSUME ReqInv, NEW r \in Requests, NEW q \in Remembered, Become(r, q)
    PROVE  ReqInv' /\ req'[r] = q /\ \A p \in Requests : p # r => req'[p] = req[p]
BY DEF ReqInv, Become

\* Rows that are added refer to what is there.
LEMMA KeysKeep ==
    ASSUME TablesInv,
           \A a, b \in Assets : assets'[a] # NoRow /\ assets'[a] = assets'[b] => (a = b),
           \A a \in Assets : assets[a] # NoRow => assets'[a] # NoRow,
           \A i \in Indicators : indicators[i] # NoRow => indicators'[i] # NoRow,
           \A e \in Events : events'[e] # NoRow /\ events'[e] # events[e] =>
             /\ \A a \in events'[e].assets : a \in Assets /\ assets'[a] # NoRow
             /\ \A i \in events'[e].indicators : i \in Indicators /\ indicators'[i] # NoRow,
           \A m \in Malware : malware'[m] # NoRow /\ malware'[m] # malware[m] /\ malware'[m].asset # None
             => assets'[malware'[m].asset] # NoRow
    PROVE  KeysInv'
<1>1. ASSUME NEW e \in Events, events'[e] # NoRow, NEW a \in events'[e].assets PROVE assets'[a] # NoRow
  <2>1. CASE events'[e] = events[e]
    <3>1. events[e] \in EventRows BY <1>1, <2>1 DEF TablesInv
    <3>2. a \in Assets BY <1>1, <2>1, <3>1 DEF EventRows
    <3> QED BY <1>1, <2>1, <3>2 DEF TablesInv, KeysInv
  <2> QED BY <1>1, <2>1
<1>2. ASSUME NEW e \in Events, events'[e] # NoRow, NEW i \in events'[e].indicators PROVE indicators'[i] # NoRow
  <2>1. CASE events'[e] = events[e]
    <3>1. events[e] \in EventRows BY <1>2, <2>1 DEF TablesInv
    <3>2. i \in Indicators BY <1>2, <2>1, <3>1 DEF EventRows
    <3> QED BY <1>2, <2>1, <3>2 DEF TablesInv, KeysInv
  <2> QED BY <1>2, <2>1
<1>3. ASSUME NEW m \in Malware, malware'[m] # NoRow, malware'[m].asset # None
      PROVE  assets'[malware'[m].asset] # NoRow
  <2>1. CASE malware'[m] = malware[m]
    <3>1. malware[m] \in Samples BY <1>3, <2>1 DEF TablesInv
    <3>2. malware[m].asset \in Assets BY <1>3, <2>1, <3>1 DEF Samples
    <3> QED BY <1>3, <2>1, <3>2 DEF TablesInv, KeysInv
  <2> QED BY <1>3, <2>1
<1> QED BY <1>1, <1>2, <1>3 DEF KeysInv

\* What a comment may be on stays so, but for the objects that go.
LEMMA KnownKeeps ==
    ASSUME NEW os, cascaded \subseteq cascaded',
           \A e \in Events : events[e] # NoRow /\ <<"events", e>> \notin os => events'[e] # NoRow,
           \A a \in Assets : assets[a] # NoRow /\ <<"assets", a>> \notin os => assets'[a] # NoRow,
           \A i \in Indicators : indicators[i] # NoRow /\ <<"indicators", i>> \notin os => indicators'[i] # NoRow,
           \A m \in Malware : malware[m] # NoRow /\ <<"malware", m>> \notin os =>
             malware'[m] # NoRow \/ m \in cascaded'
    PROVE  Known \ os \subseteq Known'
<1> SUFFICES ASSUME NEW o \in Objects, o \notin os, Exists(o) \/ o \in {"malware"} \X cascaded
             PROVE  o \in Known'
  BY DEF Known
<1>1. CASE o \in {"malware"} \X cascaded
  <2>1. o \in {"malware"} \X cascaded' BY <1>1
  <2> QED BY <2>1 DEF Known
<1>2. CASE Exists(o)
  <2>1. CASE o \in {"events"} \X Events
    <3>1. PICK x \in Events : o = <<"events", x>> BY <2>1
    <3>2. events[x] # NoRow BY <1>2, <3>1 DEF Exists
    <3>3. events'[x] # NoRow BY <3>1, <3>2
    <3>4. Exists(o)' BY <3>1, <3>3 DEF Exists
    <3> QED BY <3>4 DEF Known
  <2>2. CASE o \in {"assets"} \X Assets
    <3>1. PICK x \in Assets : o = <<"assets", x>> BY <2>2
    <3>2. assets[x] # NoRow BY <1>2, <3>1 DEF Exists
    <3>3. assets'[x] # NoRow BY <3>1, <3>2
    <3>4. Exists(o)' BY <3>1, <3>3 DEF Exists
    <3> QED BY <3>4 DEF Known
  <2>3. CASE o \in {"indicators"} \X Indicators
    <3>1. PICK x \in Indicators : o = <<"indicators", x>> BY <2>3
    <3>2. indicators[x] # NoRow BY <1>2, <3>1 DEF Exists
    <3>3. indicators'[x] # NoRow BY <3>1, <3>2
    <3>4. Exists(o)' BY <3>1, <3>3 DEF Exists
    <3> QED BY <3>4 DEF Known
  <2>4. CASE o \in {"malware"} \X Malware
    <3>1. PICK x \in Malware : o = <<"malware", x>> BY <2>4
    <3>2. malware[x] # NoRow BY <1>2, <3>1 DEF Exists
    <3>3. malware'[x] # NoRow \/ x \in cascaded' BY <3>1, <3>2
    <3>4. CASE malware'[x] # NoRow
      <4>1. Exists(o)' BY <3>1, <3>4 DEF Exists
      <4> QED BY <4>1 DEF Known
    <3>5. CASE x \in cascaded'
      <4>1. o \in {"malware"} \X cascaded' BY <3>1, <3>5
      <4> QED BY <4>1 DEF Known
    <3> QED BY <3>3, <3>4, <3>5
  <2> QED BY <2>1, <2>2, <2>3, <2>4 DEF Objects
<1> QED BY <1>1, <1>2

\* Comments and those on their way stay as they are.
LEMMA CommentsKeep ==
    ASSUME CommentInv, UNCHANGED <<comments, late>>, Known \subseteq Known',
           \A r \in Requests : req'[r].pc = "comment" => req'[r] = req[r]
    PROVE  CommentInv'
BY DEF CommentInv

\* Comments go with their objects, and those on their way are late.
LEMMA CommentsGone ==
    ASSUME CommentInv, NEW os, CommentsGo(os), Known \ os \subseteq Known',
           \A r \in Requests : req'[r].pc = "comment" => req'[r] = req[r]
    PROVE  CommentInv'
<1>1. ASSUME NEW c \in Comments \ late', comments'[c] # NoRow PROVE comments'[c] \in Known'
  <2>1. comments'[c] = comments[c] /\ comments[c] \notin os BY <1>1 DEF CommentsGo
  <2>2. c \notin late BY <1>1, <2>1 DEF CommentsGo
  <2> QED BY <1>1, <2>1, <2>2 DEF CommentInv
<1>2. ASSUME NEW r \in Requests \ late', req'[r].pc = "comment" PROVE req'[r].on \in Known'
  <2>1. req'[r] = req[r] BY <1>2
  <2>2. r \notin late BY <1>2, RecordsAssumption DEF CommentsGo
  <2>3. req[r].on \notin os BY <1>2, <2>1 DEF CommentsGo, Commenting
  <2> QED BY <1>2, <2>1, <2>2, <2>3 DEF CommentInv
<1> QED BY <1>1, <1>2 DEF CommentInv

LEMMA EventsKeep == ASSUME EventInv, UNCHANGED <<events, said, reimported>> PROVE EventInv'
BY DEF EventInv, EventsAreAsSaved

\* Changes of rows other than samples; and samples that go, or keep their hash, or come
\* from elsewhere than an upload.
LEMMA SamplesKeep ==
    ASSUME SampleInv, UNCHANGED <<files, req, uploaded>>,
           contested \subseteq contested', imported \subseteq imported',
           \A m \in Malware \ (contested' \cup imported') :
             \/ malware'[m] = NoRow
             \/ malware[m] # NoRow /\ malware'[m].hash = malware[m].hash
    PROVE  SampleInv'
<1>1. Sampling' = Sampling BY DEF Sampling
<1>2. ContestInv' BY <1>1 DEF SampleInv, ContestInv
<1>3. FilesKnown' BY <1>1 DEF SampleInv, FilesKnown
<1>4. Moving' = Moving BY <1>1 DEF Moving
<1>5. FilesKept'
  <2> SUFFICES ASSUME NEW m \in uploaded' \ (contested' \cup imported'), malware'[m] # NoRow, m \notin Moving
               PROVE  files'[malware'[m].hash] = m
    BY <1>4 DEF FilesKept
  <2>1. m \in uploaded \ (contested \cup imported) /\ m \in Malware BY DEF SampleInv
  <2>2. malware[m] # NoRow /\ malware'[m].hash = malware[m].hash BY <2>1
  <2> QED BY <2>1, <2>2 DEF SampleInv, FilesKept
<1>6. uploaded' \subseteq Malware BY DEF SampleInv
<1> QED BY <1>2, <1>3, <1>5, <1>6 DEF SampleInv

-----------------------------------------------------------------------------
(* Events, assets and indicators.                                           *)

\* What was made by name is there, and what was there still is.
LEMMA AssetsMade ==
    ASSUME TablesInv, NEW names \in SUBSET Names, NEW found, NEW table,
           getOrCreateAssets(names, found, table)
    PROVE  /\ table \in [Assets -> Names \cup {NoRow}]
           /\ \A a, b \in Assets : table[a] # NoRow /\ table[a] = table[b] => (a = b)
           /\ \A a \in Assets : assets[a] # NoRow => table[a] # NoRow
           /\ \A a \in found : a \in Assets /\ table[a] # NoRow
BY RecordsAssumption DEF getOrCreateAssets

LEMMA IndicatorsMade ==
    ASSUME NEW values \in SUBSET Values, NEW found, NEW table,
           getOrCreateIndicators(values, found, table)
    PROVE  /\ \A i \in Indicators : indicators[i] # NoRow => table[i] # NoRow
           /\ \A i \in found : i \in Indicators /\ table[i] # NoRow
BY RecordsAssumption DEF getOrCreateIndicators

\* A step that only adds or changes events, assets and indicators.
LEMMA RowsAdded ==
    ASSUME RecordsInv, UNCHANGED <<malware, comments, files, req, late, cascaded, uploaded, imported, contested>>,
           \A e \in Events : events[e] # NoRow => events'[e] # NoRow,
           \A a \in Assets : assets[a] # NoRow => assets'[a] # NoRow,
           \A i \in Indicators : indicators[i] # NoRow => indicators'[i] # NoRow,
           TablesInv', EventInv'
    PROVE  RecordsInv'
<1>1. Known \ {} \subseteq Known'
  <2> DEFINE os == {}
  <2>1. \A o : o \notin os OBVIOUS
  <2>2. \A m \in Malware : malware[m] # NoRow /\ <<"malware", m>> \notin os =>
          malware'[m] # NoRow \/ m \in cascaded' OBVIOUS
  <2> HIDE DEF os
  <2>3. Known \ os \subseteq Known' BY <2>2, KnownKeeps
  <2> QED BY <2>3 DEF os
<1>2. CommentInv' BY <1>1, CommentsKeep DEF RecordsInv
<1>3. SampleInv' BY SamplesKeep DEF RecordsInv
<1>4. ReqInv' BY DEF RecordsInv, ReqInv
<1> QED BY <1>2, <1>3, <1>4 DEF RecordsInv

LEMMA EventSaveKeeps ==
    ASSUME RecordsInv, NEW e \in Events, NEW text \in Texts, NEW names \in SUBSET Names,
           NEW values \in SUBSET Values, EventSave(e, text, names, values)
    PROVE  RecordsInv'
<1>1. PICK as \in [Assets -> Names \cup {NoRow}], is \in [Indicators -> Values \cup {NoRow}],
           fa \in SUBSET Assets, fi \in SUBSET Indicators :
        /\ getOrCreateAssets(names, fa, as) /\ getOrCreateIndicators(values, fi, is)
        /\ SaveEvent(e, [text |-> text, assets |-> fa, indicators |-> fi], TRUE)
        /\ said' = [said EXCEPT ![e] = [text |-> text, assets |-> fa, indicators |-> fi]]
        /\ assets' = as /\ indicators' = is
  BY DEF EventSave
<1> DEFINE row == [text |-> text, assets |-> fa, indicators |-> fi]
<1>2. row \in EventRows /\ row # NoRow /\ row.assets = fa /\ row.indicators = fi
  BY RecordsAssumption DEF EventRows
<1>3. events' = [events EXCEPT ![e] = row] /\ said' = [said EXCEPT ![e] = row]
  BY <1>1 DEF SaveEvent
<1> HIDE DEF row
<1>4. UNCHANGED <<malware, comments, files, req, late, cascaded, uploaded, imported, contested>>
      /\ reimported' = reimported \ {e}
  BY DEF EventSave
<1>5. TablesInv BY DEF RecordsInv
<1>6. /\ assets' \in [Assets -> Names \cup {NoRow}]
      /\ \A a, b \in Assets : assets'[a] # NoRow /\ assets'[a] = assets'[b] => (a = b)
      /\ \A a \in Assets : assets[a] # NoRow => assets'[a] # NoRow
      /\ \A a \in fa : a \in Assets /\ assets'[a] # NoRow
  <2>1. getOrCreateAssets(names, fa, as) /\ assets' = as BY <1>1
  <2>2. /\ \A a, b \in Assets : as[a] # NoRow /\ as[a] = as[b] => (a = b)
        /\ \A a \in Assets : assets[a] # NoRow => as[a] # NoRow
        /\ \A a \in fa : a \in Assets /\ as[a] # NoRow
    BY <2>1, RecordsAssumption DEF getOrCreateAssets
  <2> QED BY <2>1, <2>2
<1>7. /\ \A i \in Indicators : indicators[i] # NoRow => indicators'[i] # NoRow
      /\ \A i \in fi : i \in Indicators /\ indicators'[i] # NoRow
  BY <1>1, IndicatorsMade
<1>8. events \in [Events -> EventRows \cup {NoRow}] BY <1>5 DEF TablesInv
<1>9. events'[e] = row /\ \A d \in Events : d # e => events'[d] = events[d] BY <1>3, <1>8
<1>10. \A d \in Events : events'[d] # NoRow /\ events'[d] # events[d] =>
         /\ \A a \in events'[d].assets : a \in Assets /\ assets'[a] # NoRow
         /\ \A i \in events'[d].indicators : i \in Indicators /\ indicators'[i] # NoRow
  BY <1>2, <1>6, <1>7, <1>9
<1>11. KeysInv' BY <1>4, <1>5, <1>6, <1>7, <1>10, KeysKeep
<1>12. events' \in [Events -> EventRows \cup {NoRow}] BY <1>2, <1>3, <1>8
<1>13. TablesInv' BY <1>1, <1>4, <1>5, <1>11, <1>12 DEF TablesInv
<1>14. EventInv'
  <2>1. said \in [Events -> EventRows \cup {NoRow}] BY DEF RecordsInv, EventInv
  <2>2. said' \in [Events -> EventRows \cup {NoRow}] BY <1>2, <1>3, <2>1
  <2>3. said'[e] = row /\ \A d \in Events : d # e => said'[d] = said[d] BY <1>3, <2>1
  <2>4. \A d \in Events : said'[d] # NoRow => events'[d] # NoRow
    BY <1>2, <1>9, <2>3 DEF RecordsInv, EventInv
  <2>5. EventsAreAsSaved'
    <3> SUFFICES ASSUME NEW d \in Events, events'[d] # NoRow, said'[d] # NoRow
                 PROVE  events'[d].text = said'[d].text /\ (d \in reimported' \/ events'[d] = said'[d])
      BY DEF EventsAreAsSaved
    <3>1. CASE d = e BY <1>9, <2>3, <3>1
    <3>2. CASE d # e BY <1>4, <1>9, <2>3, <3>2 DEF RecordsInv, EventInv, EventsAreAsSaved
    <3> QED BY <3>1, <3>2
  <2> QED BY <2>2, <2>4, <2>5 DEF EventInv
<1>15. \A d \in Events : events[d] # NoRow => events'[d] # NoRow BY <1>2, <1>9
<1> QED BY <1>4, <1>6, <1>7, <1>13, <1>14, <1>15, RowsAdded

LEMMA EventRecordFailsKeeps ==
    ASSUME RecordsInv, NEW names \in SUBSET Names, EventRecordFails(names) PROVE RecordsInv'
<1>1. PICK fa \in SUBSET Assets : getOrCreateAssets(names, fa, assets') BY DEF EventRecordFails
<1>2. UNCHANGED <<events, indicators, malware, comments, files, req, said, reimported, late,
                  cascaded, uploaded, imported, contested>>
  BY DEF EventRecordFails
<1>3. TablesInv BY DEF RecordsInv
<1>4. /\ assets' \in [Assets -> Names \cup {NoRow}]
      /\ \A a, b \in Assets : assets'[a] # NoRow /\ assets'[a] = assets'[b] => (a = b)
      /\ \A a \in Assets : assets[a] # NoRow => assets'[a] # NoRow
  BY <1>1, <1>3, AssetsMade
<1>5. KeysInv' BY <1>2, <1>3, <1>4, KeysKeep
<1>6. TablesInv' BY <1>2, <1>3, <1>4, <1>5 DEF TablesInv
<1>7. EventInv' BY <1>2, EventsKeep DEF RecordsInv
<1> QED BY <1>2, <1>4, <1>6, <1>7, RowsAdded

LEMMA TimesketchEventsKeep ==
    ASSUME RecordsInv, NEW e \in Events, saveTimesketchEvents(e) PROVE RecordsInv'
<1> DEFINE row == [text |-> FromSketch, assets |-> {}, indicators |-> {}]
           now == IF events[e] = NoRow THEN row ELSE [row EXCEPT !.text = events[e].text]
<1>1. /\ events' = [events EXCEPT ![e] = now]
      /\ reimported' = IF events[e] = NoRow THEN reimported ELSE reimported \cup {e}
      /\ UNCHANGED <<assets, indicators, malware, comments, files, req, said, late, cascaded,
                     uploaded, imported, contested>>
  BY DEF saveTimesketchEvents, SaveEvent, RecordsInv, TablesInv
<1>2. events \in [Events -> EventRows \cup {NoRow}] /\ TablesInv BY DEF RecordsInv, TablesInv
<1>3. events[e] # NoRow => events[e].text \in Texts BY <1>2 DEF EventRows
<1>4. /\ now \in EventRows /\ now.assets = {} /\ now.indicators = {}
      /\ events[e] # NoRow => now.text = events[e].text
  <2>1. {} \in SUBSET Assets /\ {} \in SUBSET Indicators /\ FromSketch \in Texts BY RecordsAssumption
  <2>2. CASE events[e] = NoRow BY <2>1, <2>2 DEF EventRows
  <2>3. CASE events[e] # NoRow BY <1>3, <2>1, <2>3 DEF EventRows
  <2> QED BY <2>2, <2>3
<1> HIDE DEF now, row
<1>5. now # NoRow BY <1>4, RecordsAssumption
<1>6. events'[e] = now /\ \A d \in Events : d # e => events'[d] = events[d] BY <1>1, <1>2
<1>7. events' \in [Events -> EventRows \cup {NoRow}] BY <1>1, <1>2, <1>4
<1>8. \A d \in Events : events'[d] # NoRow /\ events'[d] # events[d] =>
         /\ \A a \in events'[d].assets : a \in Assets /\ assets'[a] # NoRow
         /\ \A i \in events'[d].indicators : i \in Indicators /\ indicators'[i] # NoRow
  BY <1>4, <1>6
<1>9. \A a, b \in Assets : assets'[a] # NoRow /\ assets'[a] = assets'[b] => (a = b)
  BY <1>1, <1>2 DEF TablesInv, KeysInv
<1>10. KeysInv' BY <1>1, <1>2, <1>8, <1>9, KeysKeep
<1>11. TablesInv' BY <1>1, <1>2, <1>7, <1>10 DEF TablesInv
<1>12. EventInv'
  <2>1. said' \in [Events -> EventRows \cup {NoRow}] BY <1>1 DEF RecordsInv, EventInv
  <2>2. \A d \in Events : said'[d] # NoRow => events'[d] # NoRow
    BY <1>1, <1>5, <1>6 DEF RecordsInv, EventInv
  <2>3. EventsAreAsSaved'
    <3> SUFFICES ASSUME NEW d \in Events, events'[d] # NoRow, said[d] # NoRow
                 PROVE  events'[d].text = said[d].text /\ (d \in reimported' \/ events'[d] = said[d])
      BY <1>1 DEF EventsAreAsSaved
    <3>1. events[d] # NoRow BY DEF RecordsInv, EventInv
    <3>2. events[d].text = said[d].text /\ (d \in reimported \/ events[d] = said[d])
      BY <3>1 DEF RecordsInv, EventInv, EventsAreAsSaved
    <3>3. CASE d = e BY <1>1, <1>4, <1>6, <3>1, <3>2, <3>3
    <3>4. CASE d # e BY <1>1, <1>6, <3>2, <3>4
    <3> QED BY <3>3, <3>4
  <2> QED BY <2>1, <2>2, <2>3 DEF EventInv
<1>13. \A d \in Events : events[d] # NoRow => events'[d] # NoRow BY <1>5, <1>6
<1> QED BY <1>1, <1>11, <1>12, <1>13, RowsAdded

LEMMA EventDeleteKeeps == ASSUME RecordsInv, NEW e \in Events, EventDelete(e) PROVE RecordsInv'
<1> DEFINE os == {<<"events", e>>}
<1>1. /\ CommentsGo(os) /\ events' = [events EXCEPT ![e] = NoRow] /\ said' = [said EXCEPT ![e] = NoRow]
      /\ reimported' = reimported \ {e}
      /\ UNCHANGED <<assets, indicators, malware, files, req, cascaded, uploaded, imported, contested>>
  BY DEF EventDelete
<1>2. TablesInv /\ events \in [Events -> EventRows \cup {NoRow}] BY DEF RecordsInv, TablesInv
<1>3. events'[e] = NoRow /\ \A d \in Events : d # e => events'[d] = events[d] BY <1>1, <1>2
<1>4. \A d \in Events : events[d] # NoRow /\ <<"events", d>> \notin os => events'[d] # NoRow BY <1>3
<1> HIDE DEF os
<1>5. Known \ os \subseteq Known' BY <1>1, <1>4, KnownKeeps
<1>6. CommentInv' BY <1>1, <1>5, CommentsGone DEF RecordsInv
<1>7. \A d \in Events : events'[d] # NoRow => events'[d] = events[d] BY <1>3
<1>8. \A a, b \in Assets : assets'[a] # NoRow /\ assets'[a] = assets'[b] => (a = b)
  BY <1>1, <1>2 DEF TablesInv, KeysInv
<1>9. KeysInv' BY <1>1, <1>2, <1>7, <1>8, KeysKeep
<1>10. comments' \in [Comments -> Objects \cup {NoRow}] BY <1>1, <1>2 DEF CommentsGo, TablesInv
<1>11. TablesInv' BY <1>1, <1>2, <1>9, <1>10 DEF TablesInv
<1>12. EventInv'
  <2>1. said \in [Events -> EventRows \cup {NoRow}] BY DEF RecordsInv, EventInv
  <2>2. said' \in [Events -> EventRows \cup {NoRow}] BY <1>1, <2>1
  <2>3. said'[e] = NoRow /\ \A d \in Events : d # e => said'[d] = said[d] BY <1>1, <2>1
  <2>4. \A d \in Events : said'[d] # NoRow => events'[d] # NoRow
    BY <1>3, <2>3 DEF RecordsInv, EventInv
  <2>5. EventsAreAsSaved' BY <1>1, <1>3, <2>3 DEF RecordsInv, EventInv, EventsAreAsSaved
  <2> QED BY <2>2, <2>4, <2>5 DEF EventInv
<1>13. SampleInv' BY <1>1, SamplesKeep DEF RecordsInv
<1>14. ReqInv' BY <1>1 DEF RecordsInv, ReqInv
<1> QED BY <1>6, <1>11, <1>12, <1>13, <1>14 DEF RecordsInv

LEMMA AssetSaveKeeps ==
    ASSUME RecordsInv, NEW a \in Assets, NEW name \in Names, AssetSave(a, name) PROVE RecordsInv'
<1>1. /\ \A b \in Assets \ {a} : assets[b] # name
      /\ assets' = [assets EXCEPT ![a] = name]
      /\ UNCHANGED <<events, indicators, malware, comments, files, req, said, reimported, late,
                     cascaded, uploaded, imported, contested>>
  BY DEF AssetSave
<1>2. TablesInv /\ assets \in [Assets -> Names \cup {NoRow}] BY DEF RecordsInv, TablesInv
<1>3. assets'[a] = name /\ \A b \in Assets : b # a => assets'[b] = assets[b] BY <1>1, <1>2
<1>4. assets' \in [Assets -> Names \cup {NoRow}] BY <1>1, <1>2
<1>5. \A c, b \in Assets : assets'[c] # NoRow /\ assets'[c] = assets'[b] => (c = b)
  BY <1>1, <1>2, <1>3 DEF TablesInv, KeysInv
<1>6. \A b \in Assets : assets[b] # NoRow => assets'[b] # NoRow BY <1>3, RecordsAssumption
<1>7. KeysInv' BY <1>1, <1>2, <1>5, <1>6, KeysKeep
<1>8. TablesInv' BY <1>1, <1>2, <1>4, <1>7 DEF TablesInv
<1>9. EventInv' BY <1>1, EventsKeep DEF RecordsInv
<1> QED BY <1>1, <1>6, <1>8, <1>9, RowsAdded

LEMMA IndicatorSaveKeeps ==
    ASSUME RecordsInv, NEW i \in Indicators, NEW value \in Values, IndicatorSave(i, value) PROVE RecordsInv'
<1>1. /\ indicators' = [indicators EXCEPT ![i] = value]
      /\ UNCHANGED <<events, assets, malware, comments, files, req, said, reimported, late,
                     cascaded, uploaded, imported, contested>>
  BY DEF IndicatorSave
<1>2. TablesInv /\ indicators \in [Indicators -> Values \cup {NoRow}] BY DEF RecordsInv, TablesInv
<1>3. indicators' \in [Indicators -> Values \cup {NoRow}] BY <1>1, <1>2
<1>4. \A j \in Indicators : indicators[j] # NoRow => indicators'[j] # NoRow
  BY <1>1, <1>2, RecordsAssumption
<1>5. \A c, b \in Assets : assets'[c] # NoRow /\ assets'[c] = assets'[b] => (c = b)
  BY <1>1, <1>2 DEF TablesInv, KeysInv
<1>6. KeysInv' BY <1>1, <1>2, <1>4, <1>5, KeysKeep
<1>7. TablesInv' BY <1>1, <1>2, <1>3, <1>6 DEF TablesInv
<1>8. EventInv' BY <1>1, EventsKeep DEF RecordsInv
<1> QED BY <1>1, <1>4, <1>7, <1>8, RowsAdded

LEMMA TimesketchIndicatorsKeep ==
    ASSUME RecordsInv, NEW is \in [Indicators -> Values \cup {NoRow}], saveTimesketchIndicators(is)
    PROVE  RecordsInv'
<1>1. indicators' = is /\ \A i \in Indicators : indicators[i] # NoRow => is[i] = indicators[i]
  BY DEF saveTimesketchIndicators
<1>2. UNCHANGED <<events, assets, malware, comments, files, req, said, reimported, late,
                  cascaded, uploaded, imported, contested>>
  BY DEF saveTimesketchIndicators
<1>3. TablesInv BY DEF RecordsInv
<1>4. \A j \in Indicators : indicators[j] # NoRow => indicators'[j] # NoRow
  BY <1>1
<1>5. \A c, b \in Assets : assets'[c] # NoRow /\ assets'[c] = assets'[b] => (c = b)
  BY <1>2, <1>3 DEF TablesInv, KeysInv
<1>6. KeysInv' BY <1>2, <1>3, <1>4, <1>5, KeysKeep
<1>7. TablesInv' BY <1>1, <1>2, <1>3, <1>6 DEF TablesInv
<1>8. EventInv' BY <1>2, EventsKeep DEF RecordsInv
<1> QED BY <1>2, <1>4, <1>7, <1>8, RowsAdded

\* Links that are taken away from what is there and from what was said alike.
LEMMA UnlinkedEvents ==
    ASSUME RecordsInv, UNCHANGED reimported,
           NEW less \in [EventRows -> EventRows], \A row \in EventRows : less[row].text = row.text,
           events' = [e \in Events |-> IF events[e] = NoRow THEN NoRow ELSE less[events[e]]],
           said' = [e \in Events |-> IF said[e] = NoRow THEN NoRow ELSE less[said[e]]]
    PROVE  /\ EventInv'
           /\ events' \in [Events -> EventRows \cup {NoRow}]
           /\ \A e \in Events : events'[e] # NoRow <=> events[e] # NoRow
<1>1. /\ events \in [Events -> EventRows \cup {NoRow}] /\ said \in [Events -> EventRows \cup {NoRow}]
      /\ \A e \in Events : said[e] # NoRow => events[e] # NoRow
      /\ EventsAreAsSaved
  BY DEF RecordsInv, TablesInv, EventInv
<1>2. NoRow \notin EventRows BY RecordsAssumption
<1>3. \A e \in Events : (events'[e] # NoRow <=> events[e] # NoRow) /\ (said'[e] # NoRow <=> said[e] # NoRow)
  BY <1>1, <1>2
<1>4. events' \in [Events -> EventRows \cup {NoRow}] /\ said' \in [Events -> EventRows \cup {NoRow}]
  BY <1>1
<1>5. EventsAreAsSaved'
  <2> SUFFICES ASSUME NEW e \in Events, events'[e] # NoRow, said'[e] # NoRow
               PROVE  events'[e].text = said'[e].text /\ (e \in reimported \/ events'[e] = said'[e])
    BY DEF EventsAreAsSaved
  <2>1. events[e] # NoRow /\ said[e] # NoRow BY <1>3
  <2>2. events'[e] = less[events[e]] /\ said'[e] = less[said[e]] BY <2>1
  <2>3. events[e] \in EventRows /\ said[e] \in EventRows BY <1>1, <2>1
  <2>4. events'[e].text = events[e].text /\ said'[e].text = said[e].text BY <2>2, <2>3
  <2>5. events[e].text = said[e].text /\ (e \in reimported \/ events[e] = said[e])
    BY <1>1, <2>1 DEF EventsAreAsSaved
  <2> QED BY <2>2, <2>4, <2>5
<1> QED BY <1>1, <1>3, <1>4, <1>5 DEF EventInv

LEMMA AssetDeleteKeeps == ASSUME RecordsInv, NEW a \in Assets, AssetDelete(a) PROVE RecordsInv'
<1> DEFINE gone == {m \in Malware : malware[m] # NoRow /\ malware[m].asset = a}
           os   == {<<"assets", a>>}
           less == [row \in EventRows |-> [row EXCEPT !.assets = @ \ {a}]]
<1>1. /\ assets' = [assets EXCEPT ![a] = NoRow]
      /\ events' = Unlink(events, a) /\ said' = Unlink(said, a)
      /\ malware' = [m \in Malware |-> IF m \in gone THEN NoRow ELSE malware[m]]
      /\ cascaded' = cascaded \cup gone
      /\ CommentsGo(os)
      /\ UNCHANGED <<indicators, files, req, reimported, uploaded, imported, contested>>
  BY DEF AssetDelete
<1>2. /\ TablesInv /\ events \in [Events -> EventRows \cup {NoRow}]
      /\ assets \in [Assets -> Names \cup {NoRow}] /\ malware \in [Malware -> Samples \cup {NoRow}]
      /\ said \in [Events -> EventRows \cup {NoRow}]
  BY DEF RecordsInv, TablesInv, EventInv
<1>3. assets'[a] = NoRow /\ \A b \in Assets : b # a => assets'[b] = assets[b] BY <1>1, <1>2
<1>4. less \in [EventRows -> EventRows] /\ \A row \in EventRows :
        /\ less[row].text = row.text /\ less[row].assets = row.assets \ {a}
        /\ less[row].indicators = row.indicators
  BY DEF EventRows
<1>5. /\ events' = [e \in Events |-> IF events[e] = NoRow THEN NoRow ELSE less[events[e]]]
      /\ said' = [e \in Events |-> IF said[e] = NoRow THEN NoRow ELSE less[said[e]]]
  BY <1>1, <1>2 DEF Unlink
<1> HIDE DEF less
<1>6. EventInv' /\ events' \in [Events -> EventRows \cup {NoRow}]
      /\ \A e \in Events : events'[e] # NoRow <=> events[e] # NoRow
  BY <1>1, <1>4, <1>5, UnlinkedEvents
<1>7. \A m \in Malware : malware'[m] = IF m \in gone THEN NoRow ELSE malware[m] BY <1>1
<1>8. \A m \in Malware : malware[m] # NoRow => malware'[m] # NoRow \/ m \in cascaded' BY <1>1, <1>7
<1>9. \A b \in Assets : assets[b] # NoRow /\ <<"assets", b>> \notin os => assets'[b] # NoRow BY <1>3
<1>10. KeysInv'
  <2>1. \A b, c \in Assets : assets'[b] # NoRow /\ assets'[b] = assets'[c] => (b = c)
    BY <1>2, <1>3 DEF TablesInv, KeysInv
  <2>2. ASSUME NEW e \in Events, events'[e] # NoRow
        PROVE  /\ \A b \in events'[e].assets : assets'[b] # NoRow
               /\ \A i \in events'[e].indicators : indicators'[i] # NoRow
    <3>1. events[e] \in EventRows BY <1>2, <1>6, <2>2
    <3>2. events'[e] = less[events[e]] BY <1>5, <1>6, <2>2
    <3>3. events'[e].assets = events[e].assets \ {a} /\ events'[e].indicators = events[e].indicators
      BY <1>4, <3>1, <3>2
    <3>4. events[e].assets \subseteq Assets BY <3>1 DEF EventRows
    <3>5. events[e] # NoRow BY <1>6, <2>2
    <3> QED BY <1>1, <1>2, <1>3, <3>3, <3>4, <3>5 DEF TablesInv, KeysInv
  <2>3. ASSUME NEW m \in Malware, malware'[m] # NoRow, malware'[m].asset # None
        PROVE  assets'[malware'[m].asset] # NoRow
    <3>1. malware'[m] = malware[m] /\ m \notin gone BY <1>7, <2>3
    <3>2. malware[m] \in Samples /\ malware[m].asset # a BY <1>2, <2>3, <3>1
    <3>3. malware[m].asset \in Assets BY <2>3, <3>1, <3>2 DEF Samples
    <3> QED BY <1>2, <1>3, <2>3, <3>1, <3>2, <3>3 DEF TablesInv, KeysInv
  <2> QED BY <2>1, <2>2, <2>3 DEF KeysInv
<1>11. assets' \in [Assets -> Names \cup {NoRow}] BY <1>1, <1>2
<1>12. malware' \in [Malware -> Samples \cup {NoRow}] BY <1>1, <1>2
<1>13. comments' \in [Comments -> Objects \cup {NoRow}] BY <1>1, <1>2 DEF CommentsGo, TablesInv
<1> HIDE DEF os, gone
<1>14. TablesInv' BY <1>1, <1>2, <1>6, <1>10, <1>11, <1>12, <1>13 DEF TablesInv
<1>15. Known \ os \subseteq Known' BY <1>1, <1>6, <1>8, <1>9, KnownKeeps
<1>16. CommentInv' BY <1>1, <1>15, CommentsGone DEF RecordsInv
<1>17. SampleInv' BY <1>1, <1>7, SamplesKeep DEF RecordsInv
<1>18. ReqInv' BY <1>1 DEF RecordsInv, ReqInv
<1> QED BY <1>6, <1>14, <1>16, <1>17, <1>18 DEF RecordsInv

LEMMA IndicatorDeleteKeeps == ASSUME RecordsInv, NEW i \in Indicators, IndicatorDelete(i) PROVE RecordsInv'
<1> DEFINE os   == {<<"indicators", i>>}
           less == [row \in EventRows |-> [row EXCEPT !.indicators = @ \ {i}]]
<1>1. /\ indicators' = [indicators EXCEPT ![i] = NoRow]
      /\ events' = UnlinkIndicator(events, i) /\ said' = UnlinkIndicator(said, i)
      /\ CommentsGo(os)
      /\ UNCHANGED <<assets, malware, files, req, reimported, cascaded, uploaded, imported, contested>>
  BY DEF IndicatorDelete
<1>2. /\ TablesInv /\ events \in [Events -> EventRows \cup {NoRow}]
      /\ indicators \in [Indicators -> Values \cup {NoRow}]
      /\ said \in [Events -> EventRows \cup {NoRow}]
  BY DEF RecordsInv, TablesInv, EventInv
<1>3. indicators'[i] = NoRow /\ \A j \in Indicators : j # i => indicators'[j] = indicators[j] BY <1>1, <1>2
<1>4. less \in [EventRows -> EventRows] /\ \A row \in EventRows :
        /\ less[row].text = row.text /\ less[row].assets = row.assets
        /\ less[row].indicators = row.indicators \ {i}
  BY DEF EventRows
<1>5. /\ events' = [e \in Events |-> IF events[e] = NoRow THEN NoRow ELSE less[events[e]]]
      /\ said' = [e \in Events |-> IF said[e] = NoRow THEN NoRow ELSE less[said[e]]]
  BY <1>1, <1>2 DEF UnlinkIndicator
<1> HIDE DEF less
<1>6. EventInv' /\ events' \in [Events -> EventRows \cup {NoRow}]
      /\ \A e \in Events : events'[e] # NoRow <=> events[e] # NoRow
  BY <1>1, <1>4, <1>5, UnlinkedEvents
<1>7. \A j \in Indicators : indicators[j] # NoRow /\ <<"indicators", j>> \notin os => indicators'[j] # NoRow BY <1>3
<1>8. KeysInv'
  <2>1. ASSUME NEW e \in Events, events'[e] # NoRow
        PROVE  /\ \A b \in events'[e].assets : assets'[b] # NoRow
               /\ \A j \in events'[e].indicators : indicators'[j] # NoRow
    <3>1. events[e] \in EventRows BY <1>2, <1>6, <2>1
    <3>2. events'[e] = less[events[e]] BY <1>5, <1>6, <2>1
    <3>3. events'[e].assets = events[e].assets /\ events'[e].indicators = events[e].indicators \ {i}
      BY <1>4, <3>1, <3>2
    <3>4. events[e].indicators \subseteq Indicators BY <3>1 DEF EventRows
    <3>5. events[e] # NoRow BY <1>6, <2>1
    <3> QED BY <1>1, <1>2, <1>3, <3>3, <3>4, <3>5 DEF TablesInv, KeysInv
  <2> QED BY <1>1, <1>2, <2>1 DEF TablesInv, KeysInv
<1>9. indicators' \in [Indicators -> Values \cup {NoRow}] BY <1>1, <1>2
<1>10. comments' \in [Comments -> Objects \cup {NoRow}] BY <1>1, <1>2 DEF CommentsGo, TablesInv
<1> HIDE DEF os
<1>11. TablesInv' BY <1>1, <1>2, <1>6, <1>8, <1>9, <1>10 DEF TablesInv
<1>12. Known \ os \subseteq Known' BY <1>1, <1>6, <1>7, KnownKeeps
<1>13. CommentInv' BY <1>1, <1>12, CommentsGone DEF RecordsInv
<1>14. SampleInv' BY <1>1, SamplesKeep DEF RecordsInv
<1>15. ReqInv' BY <1>1 DEF RecordsInv, ReqInv
<1> QED BY <1>6, <1>11, <1>13, <1>14, <1>15 DEF RecordsInv

-----------------------------------------------------------------------------
(* Comments.                                                                *)

\* A step of a request that is not about a sample, before or after.
LEMMA SamplesApart ==
    ASSUME RecordsInv, NEW r \in Requests, NEW q \in Remembered, Become(r, q),
           UNCHANGED <<malware, files, uploaded, imported, contested>>,
           req[r].pc \in {"idle", "comment"}, q.pc \in {"idle", "comment"}
    PROVE  SampleInv'
<1>1. req'[r] = q /\ \A p \in Requests : p # r => req'[p] = req[p] BY OneChanges DEF RecordsInv
<1>2. Sampling' = Sampling BY <1>1 DEF Sampling
<1>3. \A p \in Sampling : req'[p] = req[p] BY <1>1 DEF Sampling
<1>4. ContestInv' BY <1>2, <1>3 DEF RecordsInv, SampleInv, ContestInv
<1>5. FilesKnown' BY <1>2, <1>3 DEF RecordsInv, SampleInv, FilesKnown
<1>6. Moving' = Moving BY <1>2, <1>3 DEF Moving
<1>7. FilesKept' BY <1>6 DEF RecordsInv, SampleInv, FilesKept
<1> QED BY <1>4, <1>5, <1>7 DEF RecordsInv, SampleInv

LEMMA TablesKeep == ASSUME TablesInv, UNCHANGED <<tables, files>> PROVE TablesInv'
BY DEF TablesInv, KeysInv, tables

LEMMA KnownSame == ASSUME UNCHANGED <<events, assets, indicators, malware, cascaded>> PROVE Known' = Known
BY DEF Known, Exists

LEMMA CommentBeginKeeps ==
    ASSUME RecordsInv, NEW r \in Requests, NEW c \in Comments, NEW o \in Objects, CommentBegin(r, c, o)
    PROVE  RecordsInv'
<1> DEFINE q == [Idle EXCEPT !.pc = "comment", !.id = c, !.on = o]
<1>1. /\ req[r].pc = "idle" /\ Exists(o) /\ Become(r, q)
      /\ UNCHANGED <<tables, files, said, reimported, late, cascaded, uploaded, imported, contested>>
  BY DEF CommentBegin, Become
<1>2. q \in Remembered /\ q.pc = "comment" /\ q.on = o
  <2>1. q \in Records /\ q.pc = "comment" /\ q.on = o /\ q.id = c
    BY IdleRemembered DEF Remembered, Records
  <2> QED BY <2>1 DEF Remembered
<1> HIDE DEF q
<1>3. ReqInv' /\ req'[r] = q /\ \A p \in Requests : p # r => req'[p] = req[p]
  BY <1>1, <1>2, OneChanges DEF RecordsInv
<1>4. TablesInv' BY <1>1, TablesKeep DEF RecordsInv
<1>5. EventInv' BY <1>1, EventsKeep DEF RecordsInv, tables
<1>6. Known' = Known BY <1>1, KnownSame DEF tables
<1>7. o \in Known BY <1>1 DEF Known
<1>8. CommentInv' BY <1>1, <1>2, <1>3, <1>6, <1>7 DEF RecordsInv, CommentInv, tables
<1>9. SampleInv' BY <1>1, <1>2, SamplesApart DEF tables
<1> QED BY <1>3, <1>4, <1>5, <1>8, <1>9 DEF RecordsInv

LEMMA CommentSaveKeeps == ASSUME RecordsInv, NEW r \in Requests, CommentSave(r) PROVE RecordsInv'
<1>1. /\ req[r].pc = "comment" /\ Become(r, Idle)
      /\ comments' = [comments EXCEPT ![req[r].id] = req[r].on]
      /\ late' = IF r \in late THEN (late \ {r}) \cup {req[r].id} ELSE late \ {req[r].id}
      /\ UNCHANGED <<events, assets, indicators, malware, files, said, reimported, cascaded,
                     uploaded, imported, contested>>
  BY DEF CommentSave, Become
<1>2. req[r].id \in Comments /\ req[r].on \in Objects
  <2>1. req[r] \in Remembered BY DEF RecordsInv, ReqInv
  <2> QED BY <1>1, <2>1 DEF Remembered
<1>3. ReqInv' /\ req'[r] = Idle /\ \A p \in Requests : p # r => req'[p] = req[p]
  BY <1>1, IdleRemembered, OneChanges DEF RecordsInv
<1>4. comments \in [Comments -> Objects \cup {NoRow}] /\ TablesInv BY DEF RecordsInv, TablesInv
<1>5. comments' \in [Comments -> Objects \cup {NoRow}] BY <1>1, <1>2, <1>4
<1>6. TablesInv' BY <1>1, <1>4, <1>5 DEF TablesInv, KeysInv
<1>7. EventInv' BY <1>1, EventsKeep DEF RecordsInv
<1>8. Known' = Known BY <1>1, KnownSame
<1>9. CommentInv'
  <2>1. ASSUME NEW c \in Comments \ late', comments'[c] # NoRow PROVE comments'[c] \in Known
    <3>1. CASE c = req[r].id
      <4>1. r \notin late BY <1>1, <2>1, <3>1
      <4>2. req[r].on \in Known BY <1>1, <4>1 DEF RecordsInv, CommentInv
      <4> QED BY <1>1, <1>2, <1>4, <3>1, <4>2
    <3>2. CASE c # req[r].id
      <4>1. comments'[c] = comments[c] BY <1>1, <1>2, <1>4, <3>2
      <4>2. c \notin late BY <1>1, <2>1, <3>2, RecordsAssumption
      <4> QED BY <2>1, <4>1, <4>2 DEF RecordsInv, CommentInv
    <3> QED BY <3>1, <3>2
  <2>2. ASSUME NEW p \in Requests \ late', req'[p].pc = "comment" PROVE req'[p].on \in Known
    <3>1. p # r BY <1>3, <2>2, IdleRemembered
    <3>2. p \notin late BY <1>1, <1>2, <2>2, <3>1, RecordsAssumption
    <3> QED BY <1>3, <2>2, <3>1, <3>2 DEF RecordsInv, CommentInv
  <2> QED BY <1>8, <2>1, <2>2 DEF CommentInv
<1>10. SampleInv' BY <1>1, IdleRemembered, SamplesApart
<1> QED BY <1>3, <1>6, <1>7, <1>9, <1>10 DEF RecordsInv

LEMMA CommentDeleteKeeps == ASSUME RecordsInv, NEW c \in Comments, NEW o \in Objects, CommentDelete(c, o) PROVE RecordsInv'
<1>1. /\ comments' = [comments EXCEPT ![c] = NoRow] /\ late' = late \ {c}
      /\ UNCHANGED <<events, assets, indicators, malware, files, req, said, reimported, cascaded,
                     uploaded, imported, contested>>
  BY DEF CommentDelete
<1>2. comments \in [Comments -> Objects \cup {NoRow}] /\ TablesInv BY DEF RecordsInv, TablesInv
<1>3. comments' \in [Comments -> Objects \cup {NoRow}] BY <1>1, <1>2
<1>4. TablesInv' BY <1>1, <1>2, <1>3 DEF TablesInv, KeysInv
<1>5. EventInv' BY <1>1, EventsKeep DEF RecordsInv
<1>6. Known' = Known BY <1>1, KnownSame
<1>7. comments'[c] = NoRow /\ \A d \in Comments : d # c => comments'[d] = comments[d] BY <1>1, <1>2
<1>8. \A r \in Requests : r \in late' <=> r \in late BY <1>1, RecordsAssumption
<1>9. CommentInv' BY <1>1, <1>6, <1>7, <1>8 DEF RecordsInv, CommentInv
<1>10. SampleInv' BY <1>1, SamplesKeep DEF RecordsInv
<1>11. ReqInv' BY <1>1 DEF RecordsInv, ReqInv
<1> QED BY <1>4, <1>5, <1>9, <1>10, <1>11 DEF RecordsInv

-----------------------------------------------------------------------------
(* Samples.                                                                 *)

LEMMA SamplingHolds ==
    ASSUME RecordsInv, NEW r \in Sampling
    PROVE  /\ r \in Requests /\ req[r] \in Remembered /\ req[r] \in Records
           /\ req[r].id \in Malware /\ req[r].hash \in Hashes /\ req[r].old \in Hashes \cup {None}
           /\ req[r].hash \in HashesOf(req[r])
           /\ req[r].pc = "rename" => req[r].old \in HashesOf(req[r]) \ {req[r].hash}
<1>1. r \in Requests /\ req[r] \in Remembered BY DEF Sampling, RecordsInv, ReqInv
<1>2. req[r].pc \notin {"idle", "comment"} BY DEF Sampling
<1> QED BY <1>1, <1>2 DEF Remembered, Records, HashesOf

\* A request that goes on with the files it had to do with meets nobody new.
LEMMA ContestKeeps ==
    ASSUME RecordsInv, NEW r \in Sampling, NEW q \in Remembered, Become(r, q), contested \subseteq contested',
           q.pc = "idle" \/ (q.id = req[r].id /\ HashesOf(q) \subseteq HashesOf(req[r])),
           \A h \in Hashes : files'[h] \in {files[h], None}
              \/ (h \in HashesOf(req[r]) /\ files'[h] \in {req[r].id} \cup contested)
    PROVE  ContestInv'
<1>1. r \in Requests BY DEF Sampling
<1>2. req'[r] = q /\ \A p \in Requests : p # r => req'[p] = req[p] BY <1>1, OneChanges DEF RecordsInv
<1>3. ASSUME NEW p \in Sampling'
      PROVE  p \in Sampling /\ req'[p].id = req[p].id /\ HashesOf(req'[p]) \subseteq HashesOf(req[p])
  <2>1. p \in Requests BY DEF Sampling
  <2>2. CASE p = r
    <3>1. q.pc # "idle" BY <1>2, <2>2 DEF Sampling
    <3> QED BY <1>2, <2>2, <3>1
  <2>3. CASE p # r
    <3>1. req'[p] = req[p] BY <1>2, <2>1, <2>3
    <3> QED BY <2>1, <3>1 DEF Sampling
  <2> QED BY <2>2, <2>3
<1>4. ASSUME NEW p \in Sampling', NEW s \in Sampling', p # s,
             req'[p].id = req'[s].id \/ HashesOf(req'[p]) \cap HashesOf(req'[s]) # {}
      PROVE  req'[p].id \in contested' /\ req'[s].id \in contested'
  <2>1. p \in Sampling /\ s \in Sampling BY <1>3
  <2>2. req[p].id = req[s].id \/ HashesOf(req[p]) \cap HashesOf(req[s]) # {} BY <1>3, <1>4
  <2>3. req[p].id \in contested /\ req[s].id \in contested
    BY <1>4, <2>1, <2>2 DEF RecordsInv, SampleInv, ContestInv
  <2> QED BY <1>3, <2>3
<1>5. ASSUME NEW p \in Sampling', NEW h \in HashesOf(req'[p])
      PROVE  files'[h] \in {None, req'[p].id} \cup contested'
  <2>1. p \in Sampling /\ h \in HashesOf(req[p]) /\ h \in Hashes /\ req'[p].id = req[p].id
    BY <1>3 DEF HashesOf
  <2>2. files[h] \in {None, req[p].id} \cup contested BY <2>1 DEF RecordsInv, SampleInv, ContestInv
  <2>3. CASE files'[h] \in {files[h], None} BY <2>1, <2>2, <2>3
  <2>4. CASE h \in HashesOf(req[r]) /\ files'[h] \in {req[r].id} \cup contested
    <3>1. CASE p = r BY <2>1, <2>4, <3>1
    <3>2. CASE p # r
      <4>1. HashesOf(req[p]) \cap HashesOf(req[r]) # {} BY <2>1, <2>4
      <4>2. req[r].id \in contested
        BY <2>1, <3>2, <4>1 DEF RecordsInv, SampleInv, ContestInv
      <4> QED BY <2>4, <4>2
    <3> QED BY <3>1, <3>2
  <2> QED BY <2>1, <2>3, <2>4
<1> QED BY <1>4, <1>5 DEF ContestInv

\* A request that begins to deal with a file contests what it meets.
LEMMA ContestBegins ==
    ASSUME RecordsInv, NEW r \in Requests, NEW q \in Remembered, Become(r, q),
           NEW hs \in SUBSET Hashes, HashesOf(q) \subseteq hs, Contest(r, q.id, hs), UNCHANGED files
    PROVE  /\ ContestInv' /\ contested \subseteq contested'
           /\ \A p \in Sampling \ {r} : req[p].id = q.id => q.id \in contested'
<1> DEFINE o == Others(r, q.id, hs)
<1>1. req'[r] = q /\ \A p \in Requests : p # r => req'[p] = req[p] BY OneChanges DEF RecordsInv
<1>2. contested' = IF o = {} /\ (\A h \in hs : files[h] \in {None, q.id}) THEN contested
                   ELSE contested \cup o \cup {q.id} \cup {files[h] : h \in {g \in hs : files[g] # None}}
  BY DEF Contest
<1>3. ASSUME NEW p \in Sampling \ {r}, req[p].id = q.id \/ HashesOf(req[p]) \cap hs # {}
      PROVE  req[p].id \in o
  BY <1>3 DEF Others, Sampling, HashesOf
<1> HIDE DEF o
<1>4. ASSUME NEW p \in Sampling \ {r}, req[p].id = q.id \/ HashesOf(req[p]) \cap hs # {}
      PROVE  req[p].id \in contested' /\ q.id \in contested'
  <2>1. req[p].id \in o BY <1>3, <1>4
  <2> QED BY <1>2, <2>1
<1>5. contested \subseteq contested' BY <1>2
<1>6. \A p \in Sampling' : p # r => p \in Sampling \ {r} /\ req'[p] = req[p] BY <1>1 DEF Sampling
<1>7. ASSUME NEW p \in Sampling', NEW s \in Sampling', p # s,
             req'[p].id = req'[s].id \/ HashesOf(req'[p]) \cap HashesOf(req'[s]) # {}
      PROVE  req'[p].id \in contested' /\ req'[s].id \in contested'
  <2>1. CASE p = r
    <3>1. s \in Sampling \ {r} /\ req'[s] = req[s] /\ req'[p] = q BY <1>1, <1>6, <1>7, <2>1
    <3>2. req[s].id = q.id \/ HashesOf(req[s]) \cap hs # {} BY <1>7, <3>1
    <3> QED BY <1>4, <3>1, <3>2
  <2>2. CASE s = r
    <3>1. p \in Sampling \ {r} /\ req'[p] = req[p] /\ req'[s] = q BY <1>1, <1>6, <1>7, <2>2
    <3>2. req[p].id = q.id \/ HashesOf(req[p]) \cap hs # {} BY <1>7, <3>1
    <3> QED BY <1>4, <3>1, <3>2
  <2>3. CASE p # r /\ s # r
    <3>1. p \in Sampling /\ s \in Sampling /\ req'[p] = req[p] /\ req'[s] = req[s] BY <1>6, <2>3
    <3> QED BY <1>5, <1>7, <3>1 DEF RecordsInv, SampleInv, ContestInv
  <2> QED BY <2>1, <2>2, <2>3
<1>8. ASSUME NEW p \in Sampling', NEW h \in HashesOf(req'[p])
      PROVE  files'[h] \in {None, req'[p].id} \cup contested'
  <2>1. CASE p = r
    <3>1. h \in hs /\ req'[p] = q BY <1>1, <1>8, <2>1
    <3>2. files[h] \in {None, q.id} \cup contested' BY <1>2, <3>1
    <3> QED BY <3>1, <3>2
  <2>2. CASE p # r
    <3>1. p \in Sampling /\ req'[p] = req[p] BY <1>6, <2>2
    <3> QED BY <1>5, <1>8, <3>1 DEF RecordsInv, SampleInv, ContestInv
  <2> QED BY <2>1, <2>2
<1>9. ContestInv' BY <1>7, <1>8 DEF ContestInv
<1> QED BY <1>4, <1>5, <1>9

\* The only request that has to do with a sample is not taking its file elsewhere.
LEMMA NotMoving ==
    ASSUME RecordsInv, NEW r \in Sampling, req[r].id \notin contested,
           req[r].pc \notin {"save", "rename", "delete"}
    PROVE  req[r].id \notin Moving
<1> SUFFICES ASSUME NEW p \in Sampling, req[p].id = req[r].id, req[p].pc \in {"save", "rename", "delete"}
             PROVE  FALSE
  BY DEF Moving
<1> QED BY DEF RecordsInv, SampleInv, ContestInv

\* A step of one request about a sample m: what others know of their files stays
\* true, so what it knows of its own is all that has to be shown.
LEMMA SampleStep ==
    ASSUME RecordsInv, NEW r \in Requests, NEW q \in Remembered, Become(r, q), NEW m \in Malware,
           contested \subseteq contested', imported \subseteq imported', ContestInv',
           r \in Sampling => req[r].id = m,
           q.pc \notin {"idle", "comment"} => q.id = m,
           \A h \in Hashes : files'[h] # files[h] => r \in Sampling /\ h \in HashesOf(req[r]),
           \A n \in Malware : n # m => malware'[n] = malware[n],
           TablesInv',
           uploaded \subseteq uploaded', uploaded' \subseteq uploaded \cup {m}, uploaded' = uploaded \/ r \in Sampling,
           m \notin contested' /\ q.pc = "copy" => files'[q.hash] = m,
           m \in uploaded' \ (contested' \cup imported') =>
             /\ q.pc \notin {"create", "copy"}
             /\ q.pc = "save" => files'[q.hash] = m
             /\ q.pc = "rename" => files'[q.old] = m
             /\ malware'[m] # NoRow /\ q.pc \notin {"save", "rename", "delete"} => files'[malware'[m].hash] = m
    PROVE  SampleInv'
<1>1. req'[r] = q /\ \A p \in Requests : p # r => req'[p] = req[p] BY OneChanges DEF RecordsInv
<1>2. \A p \in Sampling' : p # r => p \in Sampling /\ p \in Requests /\ req'[p] = req[p] BY <1>1 DEF Sampling
<1>3. ASSUME NEW p \in Sampling, p # r, req[p].id \notin contested', NEW h \in HashesOf(req[p])
      PROVE  files'[h] = files[h]
  <2> SUFFICES ASSUME files'[h] # files[h] PROVE FALSE OBVIOUS
  <2>1. h \in Hashes BY DEF HashesOf
  <2>2. r \in Sampling /\ h \in HashesOf(req[r]) BY <2>1
  <2>3. HashesOf(req[p]) \cap HashesOf(req[r]) # {} BY <2>2
  <2>4. req[p].id \in contested BY <1>3, <2>2, <2>3 DEF RecordsInv, SampleInv, ContestInv
  <2> QED BY <1>3, <2>4
<1>4. FilesKnown'
  <2> SUFFICES ASSUME NEW p \in Sampling'
               PROVE  /\ req'[p].pc = "copy" /\ req'[p].id \notin contested' => files'[req'[p].hash] = req'[p].id
                      /\ req'[p].id \in uploaded' \ (contested' \cup imported') =>
                          /\ req'[p].pc \notin {"create", "copy"}
                          /\ req'[p].pc = "save" => files'[req'[p].hash] = req'[p].id
                          /\ req'[p].pc = "rename" => files'[req'[p].old] = req'[p].id
    BY DEF FilesKnown
  <2>1. CASE p = r
    <3>1. req'[p] = q /\ q.pc \notin {"idle", "comment"} BY <1>1, <2>1 DEF Sampling
    <3>2. q.id = m BY <3>1
    <3> QED BY <3>1, <3>2
  <2>2. CASE p # r
    <3>1. p \in Sampling /\ req'[p] = req[p] BY <1>2, <2>2
    <3>2. req[p].hash \in HashesOf(req[p]) /\ (req[p].pc = "rename" => req[p].old \in HashesOf(req[p]))
      BY <3>1, SamplingHolds
    <3>3. ASSUME req[p].id \notin contested', req[p].pc = "copy" PROVE files'[req[p].hash] = req[p].id
      <4>1. req[p].id \notin contested BY <3>3
      <4>2. files[req[p].hash] = req[p].id BY <3>1, <3>3, <4>1 DEF RecordsInv, SampleInv, FilesKnown
      <4> QED BY <1>3, <2>2, <3>1, <3>2, <3>3, <4>2
    <3>4. ASSUME req[p].id \in uploaded' \ (contested' \cup imported')
          PROVE  /\ req[p].pc \notin {"create", "copy"}
                 /\ req[p].pc = "save" => files'[req[p].hash] = req[p].id
                 /\ req[p].pc = "rename" => files'[req[p].old] = req[p].id
      <4>1. req[p].id \in uploaded \ (contested \cup imported)
        <5>1. req[p].id \notin contested BY <3>4
        <5>2. CASE uploaded' = uploaded BY <3>4, <5>1, <5>2
        <5>3. CASE r \in Sampling
          <6>1. req[p].id # m BY <2>2, <3>1, <5>1, <5>3 DEF RecordsInv, SampleInv, ContestInv
          <6> QED BY <3>4, <5>1, <6>1
        <5> QED BY <5>2, <5>3
      <4>2. /\ req[p].pc \notin {"create", "copy"}
            /\ req[p].pc = "save" => files[req[p].hash] = req[p].id
            /\ req[p].pc = "rename" => files[req[p].old] = req[p].id
        BY <3>1, <4>1 DEF RecordsInv, SampleInv, FilesKnown
      <4> QED BY <1>3, <2>2, <3>1, <3>2, <3>4, <4>2
    <3> QED BY <3>1, <3>3, <3>4
  <2> QED BY <2>1, <2>2
<1>5. FilesKept'
  <2> SUFFICES ASSUME NEW n \in uploaded' \ (contested' \cup imported'), malware'[n] # NoRow, n \notin Moving'
               PROVE  files'[malware'[n].hash] = n
    BY DEF FilesKept
  <2>1. CASE n = m
    <3>1. q.pc \notin {"save", "rename", "delete"}
      <4> SUFFICES ASSUME q.pc \in {"save", "rename", "delete"} PROVE FALSE OBVIOUS
      <4>1. r \in Sampling' /\ req'[r].id = m /\ req'[r].pc \in {"save", "rename", "delete"}
        BY <1>1 DEF Sampling
      <4> QED BY <2>1, <4>1 DEF Moving
    <3> QED BY <2>1, <3>1
  <2>2. CASE n # m
    <3>1. n \in uploaded \ (contested \cup imported) /\ n \in Malware BY <2>2 DEF RecordsInv, SampleInv
    <3>2. malware'[n] = malware[n] BY <2>2, <3>1
    <3>3. n \notin Moving
      <4> SUFFICES ASSUME NEW p \in Sampling, req[p].id = n, req[p].pc \in {"save", "rename", "delete"}
                   PROVE  FALSE
        BY DEF Moving
      <4>1. p # r BY <2>2
      <4>2. p \in Requests /\ req'[p] = req[p] BY <1>1, <4>1 DEF Sampling
      <4>3. p \in Sampling' BY <4>2 DEF Sampling
      <4> QED BY <4>2, <4>3 DEF Moving
    <3>4. files[malware[n].hash] = n BY <3>1, <3>2, <3>3 DEF RecordsInv, SampleInv, FilesKept
    <3>5. malware[n].hash \in Hashes
      <4>1. malware[n] \in Samples BY <3>1, <3>2 DEF RecordsInv, TablesInv
      <4> QED BY <4>1 DEF Samples
    <3>6. files'[malware[n].hash] = files[malware[n].hash]
      <4> SUFFICES ASSUME files'[malware[n].hash] # files[malware[n].hash] PROVE FALSE OBVIOUS
      <4>1. r \in Sampling /\ malware[n].hash \in HashesOf(req[r]) /\ req[r].id = m BY <3>5
      <4>2. n \in {None, m} \cup contested BY <3>4, <4>1 DEF RecordsInv, SampleInv, ContestInv
      <4> QED BY <2>2, <3>1, <4>2, RecordsAssumption
    <3> QED BY <3>2, <3>4, <3>6
  <2> QED BY <2>1, <2>2
<1>6. uploaded' \subseteq Malware BY DEF RecordsInv, SampleInv
<1> QED BY <1>4, <1>5, <1>6 DEF SampleInv

\* The rest of the invariant, for a step about a sample.
LEMMA SampleFrame ==
    ASSUME RecordsInv, NEW r \in Requests, NEW q \in Remembered, Become(r, q),
           q.pc # "comment", UNCHANGED <<events, said, reimported>>,
           CommentInv' \/ (UNCHANGED <<comments, late>> /\ Known \subseteq Known'), TablesInv', SampleInv'
    PROVE  RecordsInv'
<1>1. ReqInv' /\ req'[r] = q /\ \A p \in Requests : p # r => req'[p] = req[p]
  BY OneChanges DEF RecordsInv
<1>2. \A p \in Requests : req'[p].pc = "comment" => req'[p] = req[p] BY <1>1
<1>3. CommentInv'
  <2>1. CASE UNCHANGED <<comments, late>> /\ Known \subseteq Known'
    BY <1>2, <2>1, CommentsKeep DEF RecordsInv
  <2> QED BY <2>1
<1>4. EventInv' BY EventsKeep DEF RecordsInv
<1> QED BY <1>1, <1>3, <1>4 DEF RecordsInv

\* A request that begins to deal with the file of a sample.
LEMMA SampleBegins ==
    ASSUME RecordsInv, NEW r \in Requests, NEW q \in Remembered, Become(r, q), req[r].pc = "idle",
           q.pc \in {"create", "entry", "save", "remove"}, q.old = None,
           q.pc \in {"create", "save"} => q.id \notin uploaded,
           Contest(r, q.id, {q.hash}),
           UNCHANGED <<tables, files, said, reimported, late, cascaded, uploaded, imported>>
    PROVE  RecordsInv'
<1>1. q.id \in Malware /\ q.hash \in Hashes BY DEF Remembered
<1>2. HashesOf(q) \subseteq {q.hash} /\ {q.hash} \in SUBSET Hashes BY <1>1, RecordsAssumption DEF HashesOf
<1>3. /\ ContestInv' /\ contested \subseteq contested'
      /\ \A p \in Sampling \ {r} : req[p].id = q.id => q.id \in contested'
  BY <1>2, ContestBegins
<1>4. r \notin Sampling BY DEF Sampling
<1>5. TablesInv' BY TablesKeep DEF RecordsInv
<1>6. UNCHANGED <<events, assets, indicators, malware, comments>> BY DEF tables
<1>7. ASSUME q.id \in uploaded \ (contested' \cup imported'), malware[q.id] # NoRow PROVE files[malware[q.id].hash] = q.id
  <2>1. q.id \notin Moving BY <1>3, <1>4, <1>7 DEF Moving
  <2> QED BY <1>3, <1>7, <2>1 DEF RecordsInv, SampleInv, FilesKept
<1>8. SampleInv'
  <2> DEFINE m == q.id
  <2>1. m \in uploaded' \ (contested' \cup imported') =>
             /\ q.pc \notin {"create", "copy"}
             /\ q.pc = "save" => files'[q.hash] = m
             /\ q.pc = "rename" => files'[q.old] = m
             /\ malware'[m] # NoRow /\ q.pc \notin {"save", "rename", "delete"} => files'[malware'[m].hash] = m
    BY <1>6, <1>7
  <2>2. m \in Malware /\ (m \notin contested' /\ q.pc = "copy" => files'[q.hash] = m) BY <1>1
  <2>3. /\ \A h \in Hashes : files'[h] # files[h] => r \in Sampling /\ h \in HashesOf(req[r])
        /\ \A n \in Malware : n # m => malware'[n] = malware[n]
        /\ r \in Sampling => req[r].id = m
        /\ q.pc \notin {"idle", "comment"} => q.id = m
        /\ uploaded \subseteq uploaded' /\ uploaded' \subseteq uploaded \cup {m}
        /\ uploaded' = uploaded \/ r \in Sampling
    BY <1>4, <1>6
  <2> HIDE DEF m
  <2> QED BY <1>3, <1>5, <2>1, <2>2, <2>3, SampleStep
<1>9. Known' = Known BY <1>6, KnownSame
<1> QED BY <1>5, <1>6, <1>8, <1>9, SampleFrame

\* A request that goes on, the rows of the tables being left alone.
LEMMA SampleOn ==
    ASSUME RecordsInv, NEW r \in Sampling, NEW q \in Remembered, Become(r, q),
           q.pc = "idle" \/ (q.pc # "comment" /\ q.id = req[r].id /\ HashesOf(q) \subseteq HashesOf(req[r])),
           UNCHANGED <<tables, said, reimported, late, cascaded, imported, contested>>,
           files' \in [Hashes -> Malware \cup {None}],
           \A h \in Hashes : files'[h] # files[h] =>
             h \in HashesOf(req[r]) /\ files'[h] \in {req[r].id, None} \cup contested,
           uploaded \subseteq uploaded', uploaded' \subseteq uploaded \cup {req[r].id},
           req[r].id \notin contested /\ q.pc = "copy" => files'[q.hash] = req[r].id,
           req[r].id \in uploaded' \ (contested \cup imported) =>
             /\ q.pc \notin {"create", "copy"}
             /\ q.pc = "save" => files'[q.hash] = req[r].id
             /\ q.pc = "rename" => files'[q.old] = req[r].id
             /\ malware[req[r].id] # NoRow /\ q.pc \notin {"save", "rename", "delete"}
                  => files'[malware[req[r].id].hash] = req[r].id
    PROVE  RecordsInv'
<1> DEFINE m == req[r].id
<1>1. r \in Requests /\ m \in Malware /\ req[r].id = m BY SamplingHolds
<1>2. UNCHANGED <<events, assets, indicators, malware, comments>> BY DEF tables
<1>3. TablesInv' BY <1>2 DEF RecordsInv, TablesInv, KeysInv
<1>4. q.pc \notin {"idle", "comment"} => q.id = m OBVIOUS
<1>5. \A h \in Hashes : files'[h] \in {files[h], None}
        \/ (h \in HashesOf(req[r]) /\ files'[h] \in {req[r].id} \cup contested)
  OBVIOUS
<1>6. ContestInv' BY <1>5, ContestKeeps
<1>7. /\ m \notin contested' /\ q.pc = "copy" => files'[q.hash] = m
      /\ m \in uploaded' \ (contested' \cup imported') =>
           /\ q.pc \notin {"create", "copy"}
           /\ q.pc = "save" => files'[q.hash] = m
           /\ q.pc = "rename" => files'[q.old] = m
           /\ malware'[m] # NoRow /\ q.pc \notin {"save", "rename", "delete"} => files'[malware'[m].hash] = m
  BY <1>2
<1>8. /\ uploaded' \subseteq uploaded \cup {m}
      /\ \A h \in Hashes : files'[h] # files[h] => r \in Sampling /\ h \in HashesOf(req[r])
      /\ \A n \in Malware : n # m => malware'[n] = malware[n]
  BY <1>2
<1> HIDE DEF m
<1>9. SampleInv' BY <1>1, <1>3, <1>4, <1>6, <1>7, <1>8, SampleStep
<1>10. Known' = Known BY <1>2, KnownSame
<1>11. q.pc # "comment" OBVIOUS
<1> QED BY <1>1, <1>2, <1>3, <1>9, <1>10, <1>11, SampleFrame

\* What the request of a sample that is nobody else's business finds.
LEMMA OwnFile ==
    ASSUME RecordsInv, NEW r \in Sampling, req[r].id \in uploaded \ (contested \cup imported)
    PROVE  /\ req[r].pc \notin {"create", "copy"}
           /\ req[r].pc = "save" => files[req[r].hash] = req[r].id
           /\ req[r].pc = "rename" => files[req[r].old] = req[r].id
           /\ malware[req[r].id] # NoRow /\ req[r].pc \notin {"save", "rename", "delete"}
                => files[malware[req[r].id].hash] = req[r].id
<1>1. req[r].pc \notin {"save", "rename", "delete"} => req[r].id \notin Moving BY NotMoving
<1> QED BY <1>1 DEF RecordsInv, SampleInv, FilesKnown, FilesKept

LEMMA GoesOn ==
    ASSUME RecordsInv, NEW r \in Sampling, NEW pc \in {"copy", "save", "push", "pushed", "delete"}, Go(r, pc)
    PROVE  \E q \in Remembered :
             /\ Become(r, q) /\ q.pc = pc /\ q.id = req[r].id /\ q.hash = req[r].hash
             /\ HashesOf(q) = HashesOf(req[r])
<1> DEFINE q == [req[r] EXCEPT !.pc = pc]
<1>1. Become(r, q) BY DEF Go
<1>2. req[r] \in Records /\ req[r].id \in Malware /\ req[r].hash \in Hashes BY SamplingHolds
<1>3. q \in Records /\ q.pc = pc /\ q.id = req[r].id /\ q.hash = req[r].hash /\ q.old = req[r].old
  BY <1>2 DEF Records
<1> HIDE DEF q
<1>4. q \in Remembered BY <1>2, <1>3 DEF Remembered
<1>5. HashesOf(q) = HashesOf(req[r]) BY <1>3 DEF HashesOf
<1> QED BY <1>1, <1>3, <1>4, <1>5

\* A request that goes on, with everything else as it is.
LEMMA GoKeeps ==
    ASSUME RecordsInv, NEW r \in Sampling, NEW pc \in {"save", "push", "pushed"}, Go(r, pc),
           pc = "save" /\ req[r].id \in uploaded \ (contested \cup imported) => files[req[r].hash] = req[r].id,
           pc = "save" \/ req[r].pc \notin {"save", "rename", "delete"},
           UNCHANGED <<tables, files, said, reimported, late, cascaded, uploaded, imported, contested>>
    PROVE  RecordsInv'
<1>1. PICK q \in Remembered :
        /\ Become(r, q) /\ q.pc = pc /\ q.id = req[r].id /\ q.hash = req[r].hash
        /\ HashesOf(q) = HashesOf(req[r])
  BY GoesOn
<1>2. files' \in [Hashes -> Malware \cup {None}] BY DEF RecordsInv, TablesInv
<1>3. req[r].id \in uploaded' \ (contested \cup imported) =>
        /\ q.pc \notin {"create", "copy"}
        /\ q.pc = "save" => files'[q.hash] = req[r].id
        /\ q.pc = "rename" => files'[q.old] = req[r].id
        /\ malware[req[r].id] # NoRow /\ q.pc \notin {"save", "rename", "delete"}
             => files'[malware[req[r].id].hash] = req[r].id
  BY <1>1, OwnFile
<1> QED BY <1>1, <1>2, <1>3, SampleOn

LEMMA EndKeeps ==
    ASSUME RecordsInv, NEW r \in Sampling, End(r),
           req[r].id \in uploaded \ (contested \cup imported) /\ malware[req[r].id] # NoRow => req[r].pc \notin {"save", "rename", "delete"},
           UNCHANGED <<tables, files, said, reimported, late, cascaded, uploaded, imported, contested>>
    PROVE  RecordsInv'
<1>1. files' \in [Hashes -> Malware \cup {None}] BY DEF RecordsInv, TablesInv
<1>2. req[r].id \in uploaded' \ (contested \cup imported) =>
        /\ Idle.pc \notin {"create", "copy"}
        /\ Idle.pc = "save" => files'[Idle.hash] = req[r].id
        /\ Idle.pc = "rename" => files'[Idle.old] = req[r].id
        /\ malware[req[r].id] # NoRow /\ Idle.pc \notin {"save", "rename", "delete"}
             => files'[malware[req[r].id].hash] = req[r].id
  BY IdleRemembered, OwnFile
<1>3. Become(r, Idle) BY DEF End
<1> QED BY <1>1, <1>2, <1>3, IdleRemembered, SampleOn

LEMMA MalwareSaveKeeps ==
    ASSUME RecordsInv, NEW r \in Requests, NEW m \in Malware, NEW hash \in Hashes,
           NEW asset \in Assets \cup {None}, NEW push \in BOOLEAN, NEW pc \in {"create", "entry", "save"},
           MalwareSave(r, m, hash, asset, push, pc)
    PROVE  RecordsInv'
<1> DEFINE q == [Idle EXCEPT !.pc = pc, !.id = m, !.hash = hash, !.asset = asset, !.push = push]
<1>1. q \in Records /\ q.pc = pc /\ q.id = m /\ q.hash = hash /\ q.old = None
  BY DEF Idle, Records
<1>2. /\ req[r].pc = "idle" /\ Become(r, q) /\ Contest(r, m, {hash})
      /\ pc \in {"create", "save"} => m \notin uploaded
      /\ UNCHANGED <<tables, files, said, reimported, late, cascaded, uploaded, imported>>
  BY DEF MalwareSave
<1> HIDE DEF q
<1>3. q \in Remembered BY <1>1 DEF Remembered
<1> QED BY <1>1, <1>2, <1>3, SampleBegins

LEMMA MalwareDeleteKeeps ==
    ASSUME RecordsInv, NEW r \in Requests, NEW m \in Malware, MalwareDelete(r, m) PROVE RecordsInv'
<1> DEFINE q == [Idle EXCEPT !.pc = "remove", !.id = m, !.hash = malware[m].hash]
<1>1. /\ req[r].pc = "idle" /\ Become(r, q) /\ Contest(r, m, {malware[m].hash}) /\ malware[m] # NoRow
      /\ UNCHANGED <<tables, files, said, reimported, late, cascaded, uploaded, imported>>
  BY DEF MalwareDelete
<1>2. malware[m].hash \in Hashes
  <2>1. malware[m] \in Samples BY <1>1 DEF RecordsInv, TablesInv
  <2> QED BY <2>1 DEF Samples
<1>3. q \in Records /\ q.pc = "remove" /\ q.id = m /\ q.hash = malware[m].hash /\ q.old = None
  BY <1>2 DEF Idle, Records
<1> HIDE DEF q
<1>4. q \in Remembered BY <1>2, <1>3 DEF Remembered
<1> QED BY <1>1, <1>3, <1>4, SampleBegins

LEMMA CreateKeeps == ASSUME RecordsInv, NEW r \in Requests, Create(r) PROVE RecordsInv'
<1>1. req[r].pc = "create" /\ UNCHANGED <<tables, hist>> BY DEF Create
<1>2. r \in Sampling BY <1>1 DEF Sampling
<1>3. UNCHANGED <<tables, said, reimported, late, cascaded, uploaded, imported, contested>> BY <1>1 DEF hist
<1>4. req[r].id \notin uploaded \ (contested \cup imported) BY <1>1, <1>2, OwnFile
<1>5. CASE End(r) /\ UNCHANGED files BY <1>2, <1>3, <1>4, <1>5, EndKeeps
<1>6. CASE Go(r, "copy") /\ files' = [files EXCEPT ![req[r].hash] = req[r].id]
  <2>1. PICK q \in Remembered :
          /\ Become(r, q) /\ q.pc = "copy" /\ q.id = req[r].id /\ q.hash = req[r].hash
          /\ HashesOf(q) = HashesOf(req[r])
    BY <1>2, <1>6, GoesOn
  <2>2. req[r].id \in Malware /\ req[r].hash \in HashesOf(req[r]) /\ req[r].hash \in Hashes
    BY <1>2, SamplingHolds
  <2>3. files \in [Hashes -> Malware \cup {None}] BY DEF RecordsInv, TablesInv
  <2>4. /\ files' \in [Hashes -> Malware \cup {None}] /\ files'[req[r].hash] = req[r].id
        /\ \A h \in Hashes : files'[h] # files[h] => h \in HashesOf(req[r]) /\ files'[h] \in {req[r].id, None} \cup contested
    BY <1>6, <2>2, <2>3
  <2>5. q.pc # "comment" /\ q.pc # "idle" /\ HashesOf(q) \subseteq HashesOf(req[r]) BY <2>1
  <2>6. q.pc = "copy" => files'[q.hash] = req[r].id BY <2>1, <2>4
  <2>7. req[r].id \notin uploaded' \ (contested \cup imported) BY <1>3, <1>4
  <2> QED BY <1>2, <1>3, <2>1, <2>4, <2>5, <2>6, <2>7, SampleOn
<1> QED BY <1>5, <1>6 DEF Create

LEMMA CopyKeeps == ASSUME RecordsInv, NEW r \in Requests, Copy(r) PROVE RecordsInv'
<1>1. /\ req[r].pc = "copy" /\ Go(r, "save") /\ uploaded' = uploaded \cup {req[r].id}
      /\ UNCHANGED <<tables, files, said, reimported, late, cascaded, imported, contested>>
  BY DEF Copy
<1>2. r \in Sampling BY <1>1 DEF Sampling
<1>3. PICK q \in Remembered :
        /\ Become(r, q) /\ q.pc = "save" /\ q.id = req[r].id /\ q.hash = req[r].hash
        /\ HashesOf(q) = HashesOf(req[r])
  BY <1>1, <1>2, GoesOn
<1>4. req[r].id \notin contested => files[req[r].hash] = req[r].id
  BY <1>1, <1>2 DEF RecordsInv, SampleInv, FilesKnown
<1>5. files' \in [Hashes -> Malware \cup {None}] BY <1>1 DEF RecordsInv, TablesInv
<1>6. /\ \A h \in Hashes : files'[h] = files[h]
      /\ HashesOf(q) \subseteq HashesOf(req[r]) /\ q.pc # "comment" /\ q.pc # "copy"
      /\ uploaded \subseteq uploaded' /\ uploaded' \subseteq uploaded \cup {req[r].id}
  BY <1>1, <1>3
<1>7. req[r].id \in uploaded' \ (contested \cup imported) =>
        /\ q.pc \notin {"create", "copy"}
        /\ q.pc = "save" => files'[q.hash] = req[r].id
        /\ q.pc = "rename" => files'[q.old] = req[r].id
        /\ malware[req[r].id] # NoRow /\ q.pc \notin {"save", "rename", "delete"}
             => files'[malware[req[r].id].hash] = req[r].id
  BY <1>1, <1>3, <1>4
<1> QED BY <1>1, <1>2, <1>3, <1>5, <1>6, <1>7, SampleOn

LEMMA EntryKeeps == ASSUME RecordsInv, NEW r \in Requests, Entry(r) PROVE RecordsInv'
<1> DEFINE m == req[r].id
           old == malware[req[r].id].hash
<1>1. /\ req[r].pc = "entry"
      /\ UNCHANGED <<tables, files, said, reimported, late, cascaded, uploaded, imported>>
  BY DEF Entry
<1>2. r \in Sampling BY <1>1 DEF Sampling
<1>3. CASE malware[m] = NoRow /\ End(r) /\ UNCHANGED contested BY <1>1, <1>2, <1>3, EndKeeps
<1>4. CASE malware[m] # NoRow /\ old = req[r].hash /\ Go(r, "save") /\ UNCHANGED contested
  <2>1. m \in uploaded \ (contested \cup imported) => files[req[r].hash] = m BY <1>1, <1>2, <1>4, OwnFile
  <2> QED BY <1>1, <1>2, <1>4, <2>1, GoKeeps
<1>5. CASE malware[m] # NoRow /\ old # req[r].hash /\ Become(r, [req[r] EXCEPT !.pc = "rename", !.old = old])
           /\ Contest(r, m, {req[r].hash, old})
  <2> DEFINE q == [req[r] EXCEPT !.pc = "rename", !.old = old]
             hs == {req[r].hash, old}
  <2>1. req[r] \in Records /\ m \in Malware /\ req[r].hash \in Hashes BY <1>2, SamplingHolds
  <2>2. old \in Hashes
    <3>1. malware[m] \in Samples BY <1>5, <2>1 DEF RecordsInv, TablesInv
    <3> QED BY <3>1 DEF Samples
  <2>3. q \in Records /\ q.pc = "rename" /\ q.id = m /\ q.hash = req[r].hash /\ q.old = old
    BY <2>1, <2>2 DEF Records
  <2>4. Become(r, q) /\ Contest(r, m, hs) BY <1>5
  <2> HIDE DEF q
  <2>5. q \in Remembered BY <1>5, <2>1, <2>2, <2>3 DEF Remembered
  <2>6. HashesOf(q) \subseteq hs /\ hs \in SUBSET Hashes BY <2>1, <2>2, <2>3 DEF HashesOf
  <2> HIDE DEF hs
  <2>7. Contest(r, q.id, hs) BY <2>3, <2>4
  <2>8. ContestInv' /\ contested \subseteq contested' BY <1>1, <2>4, <2>5, <2>6, <2>7, ContestBegins
  <2>9. m \in uploaded \ (contested \cup imported) => files[old] = m BY <1>1, <1>2, <1>5, OwnFile
  <2>10. TablesInv' BY <1>1, TablesKeep DEF RecordsInv
  <2>11. UNCHANGED <<events, assets, indicators, malware, comments>> BY <1>1 DEF tables
  <2> HIDE DEF m, old
  <2>12. /\ m \notin contested' /\ q.pc = "copy" => files'[q.hash] = m
         /\ m \in uploaded' \ (contested' \cup imported') =>
              /\ q.pc \notin {"create", "copy"}
              /\ q.pc = "save" => files'[q.hash] = m
              /\ q.pc = "rename" => files'[q.old] = m
              /\ malware'[m] # NoRow /\ q.pc \notin {"save", "rename", "delete"} => files'[malware'[m].hash] = m
    BY <1>1, <2>3, <2>8, <2>9
  <2>13. req[r].id = m BY DEF m
  <2>14. /\ \A h \in Hashes : files'[h] = files[h]
         /\ \A n \in Malware : malware'[n] = malware[n]
         /\ uploaded' = uploaded /\ imported' = imported
    BY <1>1, <2>11
  <2>15. SampleInv' BY <2>1, <2>3, <2>4, <2>5, <2>8, <2>10, <2>12, <2>13, <2>14, SampleStep
  <2>16. Known' = Known BY <1>1, <2>11, KnownSame
  <2> QED BY <1>1, <2>3, <2>4, <2>5, <2>10, <2>11, <2>15, <2>16, SampleFrame
<1> QED BY <1>3, <1>4, <1>5 DEF Entry

LEMMA RenameKeeps == ASSUME RecordsInv, NEW r \in Requests, Rename(r) PROVE RecordsInv'
<1>1. req[r].pc = "rename" /\ UNCHANGED <<tables, hist>> BY DEF Rename
<1>2. r \in Sampling BY <1>1 DEF Sampling
<1>3. UNCHANGED <<tables, said, reimported, late, cascaded, uploaded, imported, contested>> BY <1>1 DEF hist
<1>4. req[r].id \in uploaded \ (contested \cup imported) => files[req[r].old] = req[r].id BY <1>1, <1>2, OwnFile
<1>5. /\ req[r].id \in Malware /\ req[r].hash \in Hashes /\ req[r].old \in Hashes
      /\ req[r].hash \in HashesOf(req[r]) /\ req[r].old \in HashesOf(req[r]) /\ req[r].old # req[r].hash
  BY <1>1, <1>2, SamplingHolds DEF HashesOf
<1>6. CASE files[req[r].old] = None /\ End(r) /\ UNCHANGED files
  <2>1. req[r].id \notin uploaded \ (contested \cup imported) BY <1>4, <1>5, <1>6, RecordsAssumption
  <2> QED BY <1>2, <1>3, <1>6, <2>1, EndKeeps
<1>7. CASE Go(r, "save") /\ files' = [files EXCEPT ![req[r].hash] = files[req[r].old], ![req[r].old] = None]
  <2>1. PICK q \in Remembered :
          /\ Become(r, q) /\ q.pc = "save" /\ q.id = req[r].id /\ q.hash = req[r].hash
          /\ HashesOf(q) = HashesOf(req[r])
    BY <1>2, <1>7, GoesOn
  <2>2. files \in [Hashes -> Malware \cup {None}] BY DEF RecordsInv, TablesInv
  <2>3. /\ files'[req[r].hash] = files[req[r].old] /\ files'[req[r].old] = None
        /\ \A h \in Hashes : h \notin {req[r].hash, req[r].old} => files'[h] = files[h]
        /\ files' \in [Hashes -> Malware \cup {None}]
    BY <1>5, <1>7, <2>2
  <2>4. files[req[r].old] \in {None, req[r].id} \cup contested
    BY <1>2, <1>5 DEF RecordsInv, SampleInv, ContestInv
  <2>5. \A h \in Hashes : files'[h] # files[h] => h \in HashesOf(req[r]) /\ files'[h] \in {req[r].id, None} \cup contested
    BY <1>5, <2>3, <2>4
  <2>6. q.pc # "comment" /\ q.pc # "copy" /\ HashesOf(q) \subseteq HashesOf(req[r]) BY <2>1
  <2>7. req[r].id \in uploaded' \ (contested \cup imported) =>
          /\ q.pc \notin {"create", "copy"}
          /\ q.pc = "save" => files'[q.hash] = req[r].id
          /\ q.pc = "rename" => files'[q.old] = req[r].id
          /\ malware[req[r].id] # NoRow /\ q.pc \notin {"save", "rename", "delete"}
               => files'[malware[req[r].id].hash] = req[r].id
    BY <1>3, <1>4, <2>1, <2>3
  <2> QED BY <1>2, <1>3, <2>1, <2>3, <2>5, <2>6, <2>7, SampleOn
<1> QED BY <1>6, <1>7 DEF Rename

LEMMA RemoveKeeps == ASSUME RecordsInv, NEW r \in Requests, Remove(r) PROVE RecordsInv'
<1>1. req[r].pc = "remove" /\ Go(r, "delete") /\ files' = [files EXCEPT ![req[r].hash] = None]
      /\ UNCHANGED <<tables, hist>>
  BY DEF Remove
<1>2. r \in Sampling BY <1>1 DEF Sampling
<1>3. UNCHANGED <<tables, said, reimported, late, cascaded, uploaded, imported, contested>> BY <1>1 DEF hist
<1>4. req[r].hash \in Hashes /\ req[r].hash \in HashesOf(req[r]) BY <1>2, SamplingHolds
<1>5. PICK q \in Remembered :
        /\ Become(r, q) /\ q.pc = "delete" /\ q.id = req[r].id /\ q.hash = req[r].hash
        /\ HashesOf(q) = HashesOf(req[r])
  BY <1>1, <1>2, GoesOn
<1>6. files \in [Hashes -> Malware \cup {None}] BY DEF RecordsInv, TablesInv
<1>7. /\ files' \in [Hashes -> Malware \cup {None}]
      /\ \A h \in Hashes : files'[h] # files[h] => h \in HashesOf(req[r]) /\ files'[h] \in {req[r].id, None} \cup contested
  BY <1>1, <1>4, <1>6
<1>8. q.pc \notin {"comment", "copy", "create", "save", "rename"} /\ HashesOf(q) \subseteq HashesOf(req[r]) BY <1>5
<1> QED BY <1>2, <1>3, <1>5, <1>7, <1>8, SampleOn

LEMMA PushKeeps == ASSUME RecordsInv, NEW r \in Requests, Push(r) PROVE RecordsInv'
<1>1. req[r].pc = "push" /\ UNCHANGED <<tables, files, hist>> BY DEF Push
<1>2. r \in Sampling BY <1>1 DEF Sampling
<1>3. UNCHANGED <<tables, files, said, reimported, late, cascaded, uploaded, imported, contested>> BY <1>1 DEF hist
<1>4. CASE End(r) BY <1>1, <1>2, <1>3, <1>4, EndKeeps
<1>5. CASE Go(r, "pushed") BY <1>1, <1>2, <1>3, <1>5, GoKeeps
<1> QED BY <1>4, <1>5 DEF Push

\* Nothing goes on which there may be a comment.
LEMMA KnownGrows ==
    ASSUME UNCHANGED <<events, cascaded>>,
           \A a \in Assets : assets[a] # NoRow => assets'[a] # NoRow,
           \A i \in Indicators : indicators[i] # NoRow => indicators'[i] # NoRow,
           \A m \in Malware : malware[m] # NoRow => malware'[m] # NoRow
    PROVE  Known \subseteq Known'
<1> DEFINE os == {}
<1>1. \A o : o \notin os OBVIOUS
<1>2. \A m \in Malware : malware[m] # NoRow /\ <<"malware", m>> \notin os =>
        malware'[m] # NoRow \/ m \in cascaded' OBVIOUS
<1> HIDE DEF os
<1>3. Known \ os \subseteq Known' BY <1>2, KnownKeeps
<1> QED BY <1>1, <1>3

\* A request that writes the row of its sample, or only another one.
LEMMA SampleWrites ==
    ASSUME RecordsInv, NEW r \in Sampling, NEW q \in Remembered, Become(r, q),
           q.pc = "idle" \/ (q.pc = "push" /\ q.id = req[r].id /\ HashesOf(q) \subseteq HashesOf(req[r])),
           UNCHANGED <<events, files, said, reimported, cascaded, uploaded, imported>>,
           contested \subseteq contested', TablesInv',
           \A n \in Malware : n # req[r].id => malware'[n] = malware[n],
           req[r].id \in uploaded \ (contested' \cup imported') /\ malware'[req[r].id] # NoRow
             => files[malware'[req[r].id].hash] = req[r].id,
           CommentInv' \/ (UNCHANGED <<comments, late>> /\ Known \subseteq Known')
    PROVE  RecordsInv'
<1> DEFINE m == req[r].id
<1>1. r \in Requests /\ m \in Malware /\ req[r].id = m BY SamplingHolds
<1>2. \A h \in Hashes : files'[h] \in {files[h], None} OBVIOUS
<1>3. q.pc = "idle" \/ (q.id = req[r].id /\ HashesOf(q) \subseteq HashesOf(req[r])) OBVIOUS
<1>4. ContestInv' BY <1>2, <1>3, ContestKeeps
<1>5. /\ m \notin contested' /\ q.pc = "copy" => files'[q.hash] = m
      /\ m \in uploaded' \ (contested' \cup imported') =>
           /\ q.pc \notin {"create", "copy"}
           /\ q.pc = "save" => files'[q.hash] = m
           /\ q.pc = "rename" => files'[q.old] = m
           /\ malware'[m] # NoRow /\ q.pc \notin {"save", "rename", "delete"} => files'[malware'[m].hash] = m
  OBVIOUS
<1>6. /\ q.pc \notin {"idle", "comment"} => q.id = m
      /\ \A n \in Malware : n # m => malware'[n] = malware[n]
  OBVIOUS
<1> HIDE DEF m
<1>7. SampleInv' BY <1>1, <1>4, <1>5, <1>6, SampleStep
<1>8. q.pc # "comment" OBVIOUS
<1> QED BY <1>1, <1>7, <1>8, SampleFrame

LEMMA PushedKeeps == ASSUME RecordsInv, NEW r \in Requests, Pushed(r) PROVE RecordsInv'
<1>1. /\ req[r].pc = "pushed" /\ Become(r, Idle)
      /\ UNCHANGED <<events, assets, malware, comments, files, hist>>
  BY DEF Pushed, End
<1>2. r \in Sampling BY <1>1 DEF Sampling
<1>3. UNCHANGED <<said, reimported, late, cascaded, uploaded, imported, contested>> BY <1>1 DEF hist
<1>4. req[r].hash \in Values BY <1>2, SamplingHolds, RecordsAssumption
<1>5. TablesInv BY DEF RecordsInv
<1>6. /\ indicators' \in [Indicators -> Values \cup {NoRow}]
      /\ \A i \in Indicators : indicators[i] # NoRow => indicators'[i] # NoRow
  <2>1. CASE UNCHANGED indicators BY <1>5, <2>1 DEF TablesInv
  <2>2. CASE \E i \in Indicators : indicators[i] = NoRow /\ indicators' = [indicators EXCEPT ![i] = req[r].hash]
    BY <1>4, <1>5, <2>2 DEF TablesInv
  <2> QED BY <2>1, <2>2 DEF Pushed
<1>7. \A a, b \in Assets : assets'[a] # NoRow /\ assets'[a] = assets'[b] => (a = b)
  BY <1>1, <1>5 DEF TablesInv, KeysInv
<1>8. KeysInv' BY <1>1, <1>5, <1>6, <1>7, KeysKeep
<1>9. TablesInv' BY <1>1, <1>5, <1>6, <1>8 DEF TablesInv
<1>10. Known \subseteq Known' BY <1>1, <1>3, <1>6, KnownGrows
<1>11. req[r].id \in uploaded \ (contested' \cup imported') /\ malware'[req[r].id] # NoRow
         => files[malware'[req[r].id].hash] = req[r].id
  BY <1>1, <1>2, <1>3, OwnFile
<1> QED BY <1>1, <1>2, <1>3, <1>9, <1>10, <1>11, IdleRemembered, SampleWrites

LEMMA SaveMalwareKeeps == ASSUME RecordsInv, NEW r \in Requests, SaveMalware(r) PROVE RecordsInv'
<1> DEFINE q == req[r]
<1>1. /\ q.pc = "save"
      /\ UNCHANGED <<events, assets, indicators, comments, files, said, reimported, late, cascaded, uploaded, imported>>
  BY DEF SaveMalware
<1>2. r \in Sampling BY <1>1 DEF Sampling
<1>3. q.id \in Malware /\ q.hash \in Hashes /\ q.asset \in Assets \cup {None} BY <1>2, SamplingHolds DEF Records
<1>4. TablesInv BY DEF RecordsInv
<1>5. CASE End(r) /\ contested' = contested \cup {q.id} /\ UNCHANGED malware
  <2>1. Become(r, Idle) BY <1>5 DEF End
  <2>2. TablesInv' BY <1>1, <1>4, <1>5, TablesKeep DEF tables
  <2>3. Known' = Known BY <1>1, <1>5, KnownSame
  <2>4. q.id \in contested' /\ contested \subseteq contested' BY <1>5
  <2> QED BY <1>1, <1>2, <1>5, <2>1, <2>2, <2>3, <2>4, IdleRemembered, SampleWrites
<1>6. CASE /\ q.asset # None => assets[q.asset] # NoRow
           /\ malware' = [malware EXCEPT ![q.id] = [asset |-> q.asset, hash |-> q.hash]]
           /\ IF q.push THEN Go(r, "push") ELSE End(r)
           /\ UNCHANGED contested
  <2> DEFINE row == [asset |-> q.asset, hash |-> q.hash]
  <2>1. row \in Samples /\ row # NoRow /\ row.asset = q.asset /\ row.hash = q.hash
    BY <1>3, RecordsAssumption DEF Samples
  <2>2. malware' = [malware EXCEPT ![q.id] = row] BY <1>6
  <2> HIDE DEF row
  <2>3. malware \in [Malware -> Samples \cup {NoRow}] BY <1>4 DEF TablesInv
  <2>4. malware'[q.id] = row /\ \A n \in Malware : n # q.id => malware'[n] = malware[n]
    BY <1>3, <2>2, <2>3
  <2>5. malware' \in [Malware -> Samples \cup {NoRow}] BY <2>1, <2>2, <2>3
  <2>6. \A a, b \in Assets : assets'[a] # NoRow /\ assets'[a] = assets'[b] => (a = b)
    BY <1>1, <1>4 DEF TablesInv, KeysInv
  <2>7. \A n \in Malware : malware'[n] # NoRow /\ malware'[n] # malware[n] /\ malware'[n].asset # None
          => assets'[malware'[n].asset] # NoRow
    BY <1>1, <1>6, <2>1, <2>4
  <2>8. KeysInv' BY <1>1, <1>4, <2>6, <2>7, KeysKeep
  <2>9. TablesInv' BY <1>1, <1>4, <2>5, <2>8 DEF TablesInv
  <2>10. Known \subseteq Known' BY <1>1, <2>1, <2>4, KnownGrows
  <2>11. q.id \in uploaded \ (contested' \cup imported') => files[malware'[q.id].hash] = q.id
    BY <1>1, <1>2, <1>6, <2>1, <2>4, OwnFile
  <2>12. PICK f \in Remembered :
           /\ Become(r, f)
           /\ f.pc = "idle" \/ (f.pc = "push" /\ f.id = req[r].id /\ HashesOf(f) \subseteq HashesOf(req[r]))
    <3>1. CASE Go(r, "push") BY <1>2, <3>1, GoesOn
    <3>2. CASE End(r) BY <3>2, IdleRemembered DEF End
    <3> QED BY <1>6, <3>1, <3>2
  <2> QED BY <1>1, <1>2, <1>6, <2>4, <2>9, <2>10, <2>11, <2>12, SampleWrites
<1> QED BY <1>5, <1>6 DEF SaveMalware

LEMMA DeleteMalwareKeeps == ASSUME RecordsInv, NEW r \in Requests, DeleteMalware(r) PROVE RecordsInv'
<1> DEFINE m == req[r].id
           os == {<<"malware", m>>}
<1>1. /\ req[r].pc = "delete" /\ Become(r, Idle) /\ malware' = [malware EXCEPT ![m] = NoRow]
      /\ UNCHANGED <<events, assets, indicators, files, said, reimported, cascaded, uploaded, imported, contested>>
  BY DEF DeleteMalware, End
<1>2. r \in Sampling BY <1>1 DEF Sampling
<1>3. m \in Malware BY <1>2, SamplingHolds
<1>4. TablesInv /\ malware \in [Malware -> Samples \cup {NoRow}] BY DEF RecordsInv, TablesInv
<1>5. /\ malware'[m] = NoRow /\ \A n \in Malware : n # m => malware'[n] = malware[n]
      /\ malware' \in [Malware -> Samples \cup {NoRow}]
  BY <1>1, <1>3, <1>4
<1>6. \A n \in Malware : malware'[n] \in {malware[n], NoRow} BY <1>5
<1>7. comments' \in [Comments -> Objects \cup {NoRow}]
  <2>1. comments \in [Comments -> Objects \cup {NoRow}] BY <1>4 DEF TablesInv
  <2>2. CASE UNCHANGED comments BY <2>1, <2>2
  <2>3. CASE CommentsGo(os) BY <2>1, <2>3 DEF CommentsGo
  <2> QED BY <2>2, <2>3 DEF DeleteMalware
<1>8. KeysInv' BY <1>1, <1>4, <1>6 DEF TablesInv, KeysInv
<1>9. TablesInv' BY <1>1, <1>4, <1>5, <1>7, <1>8 DEF TablesInv
<1>10. CommentInv' \/ (UNCHANGED <<comments, late>> /\ Known \subseteq Known')
  <2>1. CASE malware[m] = NoRow /\ UNCHANGED <<comments, late>>
    <3>1. Known \subseteq Known' BY <1>1, <1>5, <2>1, KnownGrows
    <3> QED BY <2>1, <3>1
  <2>2. CASE CommentsGo(os)
    <3>1. \A n \in Malware : malware[n] # NoRow /\ <<"malware", n>> \notin os =>
            malware'[n] # NoRow \/ n \in cascaded'
      BY <1>5
    <3>2. req'[r] = Idle /\ \A p \in Requests : p # r => req'[p] = req[p]
      BY <1>1, IdleRemembered, OneChanges DEF RecordsInv
    <3>3. \A p \in Requests : req'[p].pc = "comment" => req'[p] = req[p] BY <3>2, IdleRemembered
    <3> HIDE DEF os
    <3>4. Known \ os \subseteq Known' BY <1>1, <3>1, KnownKeeps
    <3>5. CommentInv' BY <2>2, <3>3, <3>4, CommentsGone DEF RecordsInv
    <3> QED BY <3>5
  <2> QED BY <2>1, <2>2 DEF DeleteMalware
<1> QED BY <1>1, <1>2, <1>5, <1>9, <1>10, IdleRemembered, SampleWrites

LEMMA FailsKeep == ASSUME RecordsInv, Fails PROVE RecordsInv'
<1>1. PICK rs \in SUBSET Requests :
        /\ \A r \in rs : req[r].pc # "idle"
        /\ req' = [r \in Requests |-> IF r \in rs THEN Idle ELSE req[r]]
        /\ contested' = contested \cup {req[r].id : r \in {q \in rs : req[q].pc # "comment"}}
        /\ late' = late \ rs
  BY DEF Fails
<1>2. UNCHANGED <<tables, files, said, reimported, cascaded, uploaded, imported>> BY DEF Fails
<1>3. UNCHANGED <<events, assets, indicators, malware, comments>> BY <1>2 DEF tables
<1>4. \A p \in Requests : req'[p] = IF p \in rs THEN Idle ELSE req[p] BY <1>1
<1>5. ReqInv' BY <1>1, IdleRemembered DEF RecordsInv, ReqInv
<1>6. TablesInv' BY <1>2, TablesKeep DEF RecordsInv
<1>7. EventInv' BY <1>2, <1>3, EventsKeep DEF RecordsInv
<1>8. Known' = Known BY <1>2, <1>3, KnownSame
<1>9. CommentInv'
  <2>1. \A c \in Comments : c \in late' <=> c \in late BY <1>1, RecordsAssumption
  <2>2. ASSUME NEW p \in Requests \ late', req'[p].pc = "comment" PROVE req'[p].on \in Known
    <3>1. p \notin rs BY <1>4, <2>2, IdleRemembered
    <3>2. p \notin late /\ req'[p] = req[p] BY <1>1, <1>4, <2>2, <3>1
    <3> QED BY <2>2, <3>2 DEF RecordsInv, CommentInv
  <2> QED BY <1>3, <1>8, <2>1, <2>2 DEF RecordsInv, CommentInv
<1>10. \A p \in Sampling' : p \in Sampling /\ p \notin rs /\ req'[p] = req[p]
  BY <1>4, IdleRemembered DEF Sampling
<1>11. \A p \in Sampling : p \notin rs => p \in Sampling' /\ req'[p] = req[p]
  BY <1>4 DEF Sampling
<1>12. contested \subseteq contested' BY <1>1
<1>13. ContestInv'
  <2>1. ASSUME NEW p \in Sampling', NEW s \in Sampling', p # s,
               req'[p].id = req'[s].id \/ HashesOf(req'[p]) \cap HashesOf(req'[s]) # {}
        PROVE  req'[p].id \in contested' /\ req'[s].id \in contested'
    <3>1. p \in Sampling /\ s \in Sampling /\ req'[p] = req[p] /\ req'[s] = req[s] BY <1>10
    <3> QED BY <1>12, <2>1, <3>1 DEF RecordsInv, SampleInv, ContestInv
  <2>2. ASSUME NEW p \in Sampling', NEW h \in HashesOf(req'[p])
        PROVE  files'[h] \in {None, req'[p].id} \cup contested'
    <3>1. p \in Sampling /\ req'[p] = req[p] BY <1>10
    <3> QED BY <1>2, <1>12, <2>2, <3>1 DEF RecordsInv, SampleInv, ContestInv
  <2> QED BY <2>1, <2>2 DEF ContestInv
<1>14. FilesKnown' BY <1>2, <1>10, <1>12 DEF RecordsInv, SampleInv, FilesKnown
<1>15. FilesKept'
  <2> SUFFICES ASSUME NEW m \in uploaded' \ (contested' \cup imported'), malware'[m] # NoRow, m \notin Moving'
               PROVE  files'[malware'[m].hash] = m
    BY DEF FilesKept
  <2>1. m \in uploaded \ (contested \cup imported) BY <1>2, <1>12
  <2>2. m \notin Moving
    <3> SUFFICES ASSUME NEW p \in Sampling, req[p].id = m, req[p].pc \in {"save", "rename", "delete"}
                 PROVE  FALSE
      BY DEF Moving
    <3>1. p \notin rs BY <1>1
    <3>2. p \in Sampling' /\ req'[p] = req[p] BY <1>11, <3>1
    <3> QED BY <3>2 DEF Moving
  <2> QED BY <1>2, <1>3, <2>1, <2>2 DEF RecordsInv, SampleInv, FilesKept
<1>16. uploaded' \subseteq Malware BY <1>2 DEF RecordsInv, SampleInv
<1> QED BY <1>5, <1>6, <1>7, <1>9, <1>13, <1>14, <1>15, <1>16 DEF RecordsInv, SampleInv

LEMMA MalwareImportKeeps ==
    ASSUME RecordsInv, NEW m \in Malware, NEW hash \in Hashes, NEW names \in SUBSET Names,
           MalwareImport(m, hash, names)
    PROVE  RecordsInv'
<1>1. PICK fa \in SUBSET Assets : getOrCreateAssets(names, fa, assets')
        /\ \E a \in IF fa = {} THEN {None} ELSE fa :
             malware' = [malware EXCEPT ![m] = [asset |-> a, hash |-> hash]]
  BY DEF MalwareImport
<1>2. PICK a \in Assets \cup {None} : (a \in fa \/ a = None) /\ malware' = [malware EXCEPT ![m] = [asset |-> a, hash |-> hash]]
  BY <1>1
<1>3. /\ imported' = IF malware[m] # NoRow /\ malware[m].hash = hash THEN imported ELSE imported \cup {m}
      /\ UNCHANGED <<events, indicators, comments, files, req, said, reimported, late, cascaded, uploaded, contested>>
  BY DEF MalwareImport
<1>4. TablesInv BY DEF RecordsInv
<1>5. /\ assets' \in [Assets -> Names \cup {NoRow}]
      /\ \A x, y \in Assets : assets'[x] # NoRow /\ assets'[x] = assets'[y] => (x = y)
      /\ \A x \in Assets : assets[x] # NoRow => assets'[x] # NoRow
      /\ \A x \in fa : x \in Assets /\ assets'[x] # NoRow
  BY <1>1, <1>4, AssetsMade
<1> DEFINE row == [asset |-> a, hash |-> hash]
<1>6. row \in Samples /\ row # NoRow /\ row.asset = a /\ row.hash = hash BY RecordsAssumption DEF Samples
<1>7. malware' = [malware EXCEPT ![m] = row] BY <1>2
<1> HIDE DEF row
<1>8. malware \in [Malware -> Samples \cup {NoRow}] BY <1>4 DEF TablesInv
<1>9. malware'[m] = row /\ \A n \in Malware : n # m => malware'[n] = malware[n] BY <1>7, <1>8
<1>10. malware' \in [Malware -> Samples \cup {NoRow}] BY <1>6, <1>7, <1>8
<1>11. \A n \in Malware : malware'[n] # NoRow /\ malware'[n] # malware[n] /\ malware'[n].asset # None
         => assets'[malware'[n].asset] # NoRow
  BY <1>2, <1>5, <1>6, <1>9
<1>12. KeysInv' BY <1>3, <1>4, <1>5, <1>11, KeysKeep
<1>13. TablesInv' BY <1>3, <1>4, <1>5, <1>10, <1>12 DEF TablesInv
<1>14. Known \subseteq Known' BY <1>3, <1>5, <1>6, <1>9, KnownGrows
<1>15. CommentInv' BY <1>3, <1>14, CommentsKeep DEF RecordsInv
<1>16. EventInv' BY <1>3, EventsKeep DEF RecordsInv
<1>17. \A n \in Malware \ (contested' \cup imported') :
         malware'[n] = NoRow \/ (malware[n] # NoRow /\ malware'[n].hash = malware[n].hash)
  BY <1>3, <1>6, <1>9
<1>18. imported \subseteq imported' BY <1>3
<1>19. SampleInv' BY <1>3, <1>17, <1>18, SamplesKeep DEF RecordsInv
<1>20. ReqInv' BY <1>3 DEF RecordsInv, ReqInv
<1> QED BY <1>13, <1>15, <1>16, <1>19, <1>20 DEF RecordsInv

-----------------------------------------------------------------------------
(* The records, all together.                                               *)

LEMMA RecordsInit == ASSUME Init PROVE RecordsInv
<1>1. /\ \A r \in Requests : req[r] = Idle
      /\ req = [r \in Requests |-> Idle]
  BY DEF Init
<1>2. Sampling = {} BY <1>1, IdleRemembered DEF Sampling
<1>3. ReqInv BY <1>1, IdleRemembered DEF ReqInv
<1>4. /\ \A e \in Events : events[e] = NoRow
      /\ \A m \in Malware : malware[m] = NoRow
      /\ \A c \in Comments : comments[c] = NoRow
      /\ \A e \in Events : said[e] = NoRow
      /\ uploaded = {} /\ late = {}
  BY DEF Init
<1>5. TablesInv BY <1>4 DEF Init, TablesInv, KeysInv
<1>6. CommentInv BY <1>1, <1>4, IdleRemembered DEF CommentInv
<1>7. EventInv BY <1>4 DEF Init, EventInv, EventsAreAsSaved
<1>8. SampleInv BY <1>2, <1>4 DEF SampleInv, ContestInv, FilesKnown, FilesKept
<1> QED BY <1>3, <1>5, <1>6, <1>7, <1>8 DEF RecordsInv

LEMMA RecordsSame == ASSUME RecordsInv, UNCHANGED records PROVE RecordsInv'
<1>1. UNCHANGED <<tables, files, req, said, reimported, late, cascaded, uploaded, imported, contested>>
  BY DEF records
<1>2. UNCHANGED <<events, assets, indicators, malware, comments>> BY <1>1 DEF tables
<1>3. ReqInv' BY <1>1 DEF RecordsInv, ReqInv
<1>4. TablesInv' BY <1>1, TablesKeep DEF RecordsInv
<1>5. Known' = Known BY <1>1, <1>2, KnownSame
<1>6. CommentInv' BY <1>1, <1>2, <1>5, CommentsKeep DEF RecordsInv
<1>7. EventInv' BY <1>1, <1>2, EventsKeep DEF RecordsInv
<1>8. SampleInv' BY <1>1, <1>2, SamplesKeep DEF RecordsInv
<1> QED BY <1>3, <1>4, <1>6, <1>7, <1>8 DEF RecordsInv

LEMMA RecordsNext == ASSUME RecordsInv, Next PROVE RecordsInv'
<1>1. CASE Fails BY <1>1, FailsKeep
<1>2. CASE NextRecord
  <2>1. ASSUME NEW e \in Events, EventDelete(e) \/ saveTimesketchEvents(e) PROVE RecordsInv'
    BY <2>1, EventDeleteKeeps, TimesketchEventsKeep
  <2>2. ASSUME NEW e \in Events, NEW t \in Texts \ {FromSketch}, NEW ns \in SUBSET Names,
               NEW vs \in SUBSET Values, EventSave(e, t, ns, vs)
        PROVE  RecordsInv'
    BY <2>2, EventSaveKeeps
  <2>3. ASSUME NEW ns \in SUBSET Names, EventRecordFails(ns) PROVE RecordsInv'
    BY <2>3, EventRecordFailsKeeps
  <2>4. ASSUME NEW a \in Assets, AssetDelete(a) \/ \E n \in Names : AssetSave(a, n) PROVE RecordsInv'
    BY <2>4, AssetDeleteKeeps, AssetSaveKeeps
  <2>5. ASSUME NEW i \in Indicators, IndicatorDelete(i) \/ \E v \in Values : IndicatorSave(i, v) PROVE RecordsInv'
    BY <2>5, IndicatorDeleteKeeps, IndicatorSaveKeeps
  <2>6. ASSUME NEW is \in [Indicators -> Values \cup {NoRow}], saveTimesketchIndicators(is) PROVE RecordsInv'
    BY <2>6, TimesketchIndicatorsKeep
  <2>7. ASSUME NEW c \in Comments, NEW o \in Objects, CommentDelete(c, o) PROVE RecordsInv' BY <2>7, CommentDeleteKeeps
  <2>8. ASSUME NEW m \in Malware, NEW h \in Hashes, NEW ns \in SUBSET Names, MalwareImport(m, h, ns)
        PROVE  RecordsInv'
    BY <2>8, MalwareImportKeeps
  <2> QED BY <1>2, <2>1, <2>2, <2>3, <2>4, <2>5, <2>6, <2>7, <2>8 DEF NextRecord
<1>3. ASSUME NEW r \in Requests, NextRequest(r) PROVE RecordsInv'
  <2>1. ASSUME NEW c \in Comments, NEW o \in Objects, CommentBegin(r, c, o) PROVE RecordsInv'
    BY <2>1, CommentBeginKeeps
  <2>2. ASSUME NEW m \in Malware, NEW h \in Hashes, NEW a \in Assets \cup {None}, NEW p \in BOOLEAN,
               NEW pc \in {"create", "entry", "save"}, MalwareSave(r, m, h, a, p, pc)
        PROVE  RecordsInv'
    BY <2>2, MalwareSaveKeeps
  <2>3. ASSUME NEW m \in Malware, MalwareDelete(r, m) PROVE RecordsInv' BY <2>3, MalwareDeleteKeeps
  <2>4. CASE CommentSave(r) BY <2>4, CommentSaveKeeps
  <2>5. CASE Create(r) \/ Copy(r) \/ Entry(r) \/ Rename(r) \/ Remove(r)
    BY <2>5, CreateKeeps, CopyKeeps, EntryKeeps, RenameKeeps, RemoveKeeps
  <2>6. CASE SaveMalware(r) \/ Push(r) \/ Pushed(r) \/ DeleteMalware(r)
    BY <2>6, SaveMalwareKeeps, PushKeeps, PushedKeeps, DeleteMalwareKeeps
  <2> QED BY <1>3, <2>1, <2>2, <2>3, <2>4, <2>5, <2>6 DEF NextRequest
<1> QED BY <1>1, <1>2, <1>3 DEF Next

-----------------------------------------------------------------------------
(* The case.                                                                *)

LEMMA CaseInitial == ASSUME CaseInit PROVE CaseInv /\ AskInv
<1>1. /\ \A t \in Tasks : tasks[t] = "none"
      /\ tasks \in [Tasks -> {"none", "open", "done"}]
      /\ kase = NoRow => There = {}
  BY DEF CaseInit, There
<1>2. kase = NoRow => ~Outstanding BY <1>1 DEF Outstanding, OpenTasks, Untriaged
<1>3. /\ edit = [e \in Editors |-> NoEdit] /\ unasked = FALSE
      /\ NoEdit \in Edits /\ NoEdit.pc = "idle"
  BY DEF CaseInit, NoEdit, Edits
<1>4. EditInv BY <1>3 DEF EditInv
<1>5. kase \in Forms \cup {NoRow}
  <2>1. [closed |-> FALSE, dated |-> FALSE, complete |-> TRUE] \in Forms BY DEF Forms, Cases
  <2> QED BY <2>1 DEF CaseInit
<1>6. template \in Templates \cup {NoRow} BY DEF CaseInit, Templates
<1>7. notes \subseteq Notes /\ triaged \subseteq Assets BY DEF CaseInit
<1>8. CaseInv BY <1>1, <1>2, <1>4, <1>5, <1>6, <1>7 DEF CaseInv
<1>9. \A e \in Editors : Counted(edit[e]) BY <1>3 DEF Counted
<1> QED BY <1>3, <1>8, <1>9 DEF AskInv

LEMMA OutstandingSame ==
    ASSUME UNCHANGED <<assets, tasks, triaged>>
    PROVE  OpenTasks' = OpenTasks /\ Untriaged' = Untriaged /\ Outstanding' = Outstanding
BY DEF OpenTasks, Untriaged, Outstanding, There

\* What is still counted after a step is counted by what an editor has done, or slipped.
LEMMA StillCounted ==
    ASSUME AskInv, Slip, NEW e \in Editors \ slipped', edit'[e].pc # "idle"
    PROVE  /\ Counted(edit[e])
           /\ OpenTasks = {} => OpenTasks' = {}
           /\ ~Outstanding => ~Outstanding'
<1>1. e \notin slipped /\ OpenTasks' \subseteq OpenTasks /\ Untriaged' \subseteq Untriaged BY DEF Slip
<1>2. OpenTasks = {} => OpenTasks' = {} BY <1>1
<1>3. Untriaged = {} => Untriaged' = {} BY <1>1
<1> QED BY <1>1, <1>2, <1>3 DEF AskInv, Outstanding

\* Steps that no editor takes.
LEMMA AskKeeps == ASSUME AskInv, Slip, UNCHANGED <<edit, unasked>> PROVE AskInv'
<1> SUFFICES ASSUME NEW e \in Editors \ slipped' PROVE Counted(edit[e])'
  BY DEF AskInv
<1>1. CASE edit'[e].pc = "idle" BY <1>1 DEF Counted
<1>2. CASE edit'[e].pc # "idle"
  <2>1. Counted(edit[e]) /\ (OpenTasks = {} => OpenTasks' = {}) /\ (~Outstanding => ~Outstanding')
    BY <1>2, StillCounted
  <2> QED BY <2>1 DEF Counted
<1> QED BY <1>1, <1>2

\* A step of one editor.
LEMMA AskStep ==
    ASSUME AskInv, EditInv, Slip, ~unasked', NEW e \in Editors, NEW f \in Edits, Ed(e, f),
           UNCHANGED <<assets, tasks, triaged>> \/ f.pc = "idle",
           e \notin slipped =>
             /\ f.pc = "assets" /\ ~f.new /\ ~f.open => OpenTasks = {}
             /\ f.pc = "save" /\ f.form.closed /\ ~f.asked => f.form.complete /\ (f.new \/ ~Outstanding)
    PROVE  AskInv'
<1>1. edit'[e] = f /\ \A d \in Editors : d # e => edit'[d] = edit[d] BY DEF Ed, EditInv
<1> SUFFICES ASSUME NEW d \in Editors \ slipped' PROVE Counted(edit[d])'
  BY DEF AskInv
<1>2. CASE edit'[d].pc = "idle" BY <1>2 DEF Counted
<1>3. CASE edit'[d].pc # "idle"
  <2>1. Counted(edit[d]) /\ (OpenTasks = {} => OpenTasks' = {}) /\ (~Outstanding => ~Outstanding')
    BY <1>3, StillCounted
  <2>2. CASE d # e BY <1>1, <2>1, <2>2 DEF Counted
  <2>3. CASE d = e
    <3>1. e \notin slipped BY <1>3, <2>3 DEF Slip
    <3> QED BY <1>1, <2>1, <2>3, <3>1 DEF Counted
  <2> QED BY <2>2, <2>3
<1> QED BY <1>2, <1>3

LEMMA EditKeeps ==
    ASSUME EditInv, NEW e \in Editors, NEW f \in Edits, Ed(e, f), f.pc # "idle" => f.form \in Forms
    PROVE  EditInv'
BY DEF EditInv, Ed

LEMMA NoEditHolds == NoEdit \in Edits /\ NoEdit.pc = "idle"
BY DEF NoEdit, Edits

\* Records that change: what is no longer triaged is gone.
LEMMA RecordStepKeeps ==
    ASSUME LifecycleInv, RecordStep, UNCHANGED unasked, Slip PROVE LifecycleInv'
<1>1. /\ kase # NoRow /\ Next /\ triaged' = triaged \cap {a \in Assets : assets'[a] # NoRow}
      /\ UNCHANGED <<kase, tasks, notes, template, edit>>
  BY DEF RecordStep
<1>2. RecordsInv' BY <1>1, RecordsNext DEF LifecycleInv
<1>3. EditInv' BY <1>1 DEF LifecycleInv, CaseInv, EditInv
<1>4. CaseInv' BY <1>1, <1>3 DEF LifecycleInv, CaseInv
<1>5. AskInv' BY <1>1, AskKeeps DEF LifecycleInv
<1> QED BY <1>2, <1>4, <1>5 DEF LifecycleInv

LEMMA TriageKeeps ==
    ASSUME LifecycleInv, NEW a \in Assets, NEW name \in Names, NEW done \in BOOLEAN,
           Triage(a, name, done), UNCHANGED unasked, Slip
    PROVE  LifecycleInv'
<1>1. /\ kase # NoRow /\ AssetSave(a, name) /\ triaged' = IF done THEN triaged \cup {a} ELSE triaged \ {a}
      /\ UNCHANGED <<kase, tasks, notes, template, edit>>
  BY DEF Triage
<1>2. RecordsInv' BY <1>1, AssetSaveKeeps DEF LifecycleInv
<1>3. EditInv' BY <1>1 DEF LifecycleInv, CaseInv, EditInv
<1>4. CaseInv' BY <1>1, <1>3 DEF LifecycleInv, CaseInv
<1>5. AskInv' BY <1>1, AskKeeps DEF LifecycleInv
<1> QED BY <1>2, <1>4, <1>5 DEF LifecycleInv

\* Tasks, notes, templates and imports: the records and the editors are left alone, and
\* a case that is not there has nothing outstanding.
LEMMA CaseChangeKeeps ==
    ASSUME LifecycleInv, UNCHANGED <<records, edit, unasked>>, Slip,
           kase' \in Forms \cup {NoRow}, tasks' \in [Tasks -> {"none", "open", "done"}],
           notes' \subseteq Notes, triaged' = triaged, template' \in Templates \cup {NoRow},
           kase' = NoRow => kase = NoRow /\ UNCHANGED tasks
    PROVE  LifecycleInv'
<1>1. RecordsInv' BY RecordsSame DEF LifecycleInv
<1>2. EditInv' BY DEF LifecycleInv, CaseInv, EditInv
<1>3. UNCHANGED assets BY DEF records, tables
<1>4. kase' = NoRow => ~Outstanding' BY <1>3, OutstandingSame DEF LifecycleInv, CaseInv
<1>5. CaseInv' BY <1>2, <1>4 DEF LifecycleInv, CaseInv
<1>6. AskInv' BY AskKeeps DEF LifecycleInv
<1> QED BY <1>1, <1>5, <1>6 DEF LifecycleInv

\* A step of an editor that leaves the case and all that is in it alone.
LEMMA EditorKeeps ==
    ASSUME LifecycleInv, NEW e \in Editors, NEW f \in Edits, Ed(e, f), Slip,
           f.pc # "idle" => f.form \in Forms,
           UNCHANGED <<records, kase, tasks, notes, triaged, template, unasked>>,
           e \notin slipped =>
             /\ f.pc = "assets" /\ ~f.new /\ ~f.open => OpenTasks = {}
             /\ f.pc = "save" /\ f.form.closed /\ ~f.asked => f.form.complete /\ (f.new \/ ~Outstanding)
    PROVE  LifecycleInv'
<1>1. RecordsInv' BY RecordsSame DEF LifecycleInv
<1>2. EditInv' BY EditKeeps DEF LifecycleInv, CaseInv
<1>3. UNCHANGED assets BY DEF records, tables
<1>4. Outstanding' = Outstanding BY <1>3, OutstandingSame
<1>5. CaseInv' BY <1>2, <1>4 DEF LifecycleInv, CaseInv
<1>6. ~unasked' BY DEF LifecycleInv, AskInv
<1>7. AskInv' BY <1>3, <1>6, AskStep DEF LifecycleInv, CaseInv
<1> QED BY <1>1, <1>5, <1>7 DEF LifecycleInv

LEMMA RecordsLeft ==
    ASSUME UNCHANGED vars PROVE UNCHANGED records
BY DEF vars, records, hist

LEMMA CaseSaveKeeps ==
    ASSUME LifecycleInv, NEW e \in Editors, NEW form \in Cases, NEW new \in BOOLEAN, NEW clone \in BOOLEAN,
           NEW confirm \in BOOLEAN, CaseSave(e, form, new, clone, confirm), UNCHANGED unasked, Slip
    PROVE  LifecycleInv'
<1> DEFINE f == [NoEdit EXCEPT !.pc = IF form.closed /\ ~confirm THEN "prior" ELSE "save",
                               !.form = Filled(form), !.new = new, !.clone = clone, !.asked = confirm]
<1>1. Ed(e, f) /\ UNCHANGED <<records, kase, tasks, notes, triaged, template>> BY DEF CaseSave
<1>2. Filled(form) \in Forms /\ Filled(form) \in Cases /\ Filled(form).closed = form.closed
  BY DEF Filled, Forms, Cases
<1>3. /\ f \in Edits /\ f.form = Filled(form) /\ f.asked = confirm
      /\ f.pc = IF form.closed /\ ~confirm THEN "prior" ELSE "save"
  BY <1>2 DEF NoEdit, Edits
<1> HIDE DEF f
<1>4. f.pc # "assets" /\ (f.pc = "save" /\ f.form.closed => f.asked) BY <1>2, <1>3
<1> QED BY <1>1, <1>2, <1>3, <1>4, EditorKeeps

LEMMA PriorKeeps ==
    ASSUME LifecycleInv, NEW e \in Editors, Prior(e), UNCHANGED unasked, Slip PROVE LifecycleInv'
<1>1. /\ edit[e].pc = "prior" /\ UNCHANGED <<records, kase, tasks, notes, triaged, template>>
  BY RecordsLeft DEF Prior
<1>2. edit[e] \in Edits /\ edit[e].form \in Forms BY <1>1 DEF LifecycleInv, CaseInv, EditInv
<1>3. CASE Ed(e, [edit[e] EXCEPT !.pc = "save", !.asked = TRUE])
  <2> DEFINE f == [edit[e] EXCEPT !.pc = "save", !.asked = TRUE]
  <2>1. f \in Edits /\ f.pc = "save" /\ f.asked /\ f.form = edit[e].form BY <1>2 DEF Edits
  <2>2. Ed(e, f) BY <1>3
  <2> HIDE DEF f
  <2> QED BY <1>1, <1>2, <2>1, <2>2, EditorKeeps
<1>4. CASE Now(e, "tasks")
  <2> DEFINE f == [edit[e] EXCEPT !.pc = "tasks"]
  <2>1. f \in Edits /\ f.pc = "tasks" /\ f.form = edit[e].form BY <1>2 DEF Edits
  <2>2. Ed(e, f) BY <1>4 DEF Now
  <2> HIDE DEF f
  <2> QED BY <1>1, <1>2, <2>1, <2>2, EditorKeeps
<1> QED BY <1>3, <1>4 DEF Prior

LEMMA CountTasksKeeps ==
    ASSUME LifecycleInv, NEW e \in Editors, CountTasks(e), UNCHANGED unasked, Slip PROVE LifecycleInv'
<1> DEFINE f == [edit[e] EXCEPT !.pc = "assets", !.open = ~edit[e].new /\ OpenTasks # {}]
<1>1. /\ edit[e].pc = "tasks" /\ UNCHANGED <<records, kase, tasks, notes, triaged, template>>
      /\ Ed(e, f)
  BY RecordsLeft DEF CountTasks
<1>2. edit[e] \in Edits /\ edit[e].form \in Forms BY <1>1 DEF LifecycleInv, CaseInv, EditInv
<1>3. /\ f \in Edits /\ f.pc = "assets" /\ f.form = edit[e].form /\ f.new = edit[e].new
      /\ f.open = (~edit[e].new /\ OpenTasks # {})
  BY <1>2 DEF Edits
<1> HIDE DEF f
<1>4. ~f.new /\ ~f.open => OpenTasks = {} BY <1>3
<1> QED BY <1>1, <1>2, <1>3, <1>4, EditorKeeps

LEMMA CountAssetsKeeps ==
    ASSUME LifecycleInv, NEW e \in Editors, CountAssets(e), UNCHANGED unasked, Slip PROVE LifecycleInv'
<1>1. /\ edit[e].pc = "assets" /\ UNCHANGED <<records, kase, tasks, notes, triaged, template>>
  BY RecordsLeft DEF CountAssets
<1>2. edit[e] \in Edits /\ edit[e].form \in Forms BY <1>1 DEF LifecycleInv, CaseInv, EditInv
<1>3. CASE Ed(e, NoEdit) BY <1>1, <1>3, NoEditHolds, EditorKeeps
<1>4. CASE /\ ~(edit[e].open \/ (~edit[e].new /\ Untriaged # {}) \/ ~edit[e].form.complete)
           /\ Now(e, "save")
  <2> DEFINE f == [edit[e] EXCEPT !.pc = "save"]
  <2>1. /\ f \in Edits /\ f.pc = "save" /\ f.form = edit[e].form /\ f.new = edit[e].new
    BY <1>2 DEF Edits
  <2>2. Ed(e, f) BY <1>4 DEF Now
  <2> HIDE DEF f
  <2>3. e \notin slipped => f.form.complete /\ (f.new \/ ~Outstanding)
    <3>1. e \notin slipped => Counted(edit[e]) BY DEF LifecycleInv, AskInv
    <3> QED BY <1>1, <1>4, <2>1, <3>1 DEF Counted, Outstanding
  <2> QED BY <1>1, <1>2, <2>1, <2>2, <2>3, EditorKeeps
<1> QED BY <1>3, <1>4 DEF CountAssets

\* The row is written: what was counted holds, or the case is not there and nothing is.
LEMMA SaveCaseKeeps ==
    ASSUME LifecycleInv, NEW e \in Editors, SaveCase(e), Slip PROVE LifecycleInv'
<1>1. /\ edit[e].pc = "save" /\ (edit[e].new => kase = NoRow) /\ kase' = edit[e].form
      /\ UNCHANGED <<records, tasks, notes, triaged, template>>
  BY RecordsLeft DEF SaveCase
<1>2. edit[e] \in Edits /\ edit[e].form \in Forms /\ edit[e].form # NoRow
  BY <1>1, CaseAssumption DEF LifecycleInv, CaseInv, EditInv, Forms
<1>3. ~unasked'
  <2>1. e \notin slipped /\ edit[e].form.closed /\ ~edit[e].asked => edit[e].form.complete /\ ~Outstanding
    <3>1. e \notin slipped => Counted(edit[e]) BY DEF LifecycleInv, AskInv
    <3> QED BY <1>1, <3>1 DEF Counted, LifecycleInv, CaseInv
  <2> QED BY <2>1 DEF SaveCase, LifecycleInv, AskInv
<1>4. PICK f \in Edits : Ed(e, f) /\ f.pc \in {"clone", "idle"} /\ (f.pc # "idle" => f.form \in Forms)
  <2>1. CASE Ed(e, NoEdit) BY <2>1, NoEditHolds
  <2>2. CASE Now(e, "clone")
    <3> DEFINE f == [edit[e] EXCEPT !.pc = "clone"]
    <3>1. f \in Edits /\ f.pc = "clone" /\ f.form = edit[e].form BY <1>2 DEF Edits
    <3>2. Ed(e, f) BY <2>2 DEF Now
    <3> HIDE DEF f
    <3> QED BY <1>2, <3>1, <3>2
  <2> QED BY <2>1, <2>2 DEF SaveCase
<1>5. RecordsInv' BY <1>1, RecordsSame DEF LifecycleInv
<1>6. EditInv' BY <1>4, EditKeeps DEF LifecycleInv, CaseInv
<1>7. CaseInv' BY <1>1, <1>2, <1>6 DEF LifecycleInv, CaseInv
<1>8. UNCHANGED assets BY <1>1 DEF records, tables
<1>9. AskInv' BY <1>1, <1>3, <1>4, <1>8, AskStep DEF LifecycleInv, CaseInv
<1> QED BY <1>5, <1>7, <1>9 DEF LifecycleInv

LEMMA CloneKeeps ==
    ASSUME LifecycleInv, NEW e \in Editors, CloneCaseContents(e), UNCHANGED unasked, Slip PROVE LifecycleInv'
<1>1. /\ edit[e].pc = "clone" /\ Ed(e, NoEdit) /\ kase' = edit[e].form
      /\ tasks' = [t \in Tasks |-> IF template # NoRow /\ t \in template.tasks THEN "open" ELSE tasks[t]]
      /\ notes' = IF template = NoRow THEN notes ELSE notes \cup template.notes
      /\ UNCHANGED <<records, triaged, template>>
  BY RecordsLeft DEF CloneCaseContents
<1>2. edit[e].form \in Forms /\ edit[e].form # NoRow
  BY <1>1, CaseAssumption DEF LifecycleInv, CaseInv, EditInv, Forms
<1>3. tasks' \in [Tasks -> {"none", "open", "done"}] BY <1>1 DEF LifecycleInv, CaseInv
<1>4. notes' \subseteq Notes BY <1>1 DEF LifecycleInv, CaseInv, Templates
<1>5. RecordsInv' BY <1>1, RecordsSame DEF LifecycleInv
<1>6. EditInv' BY <1>1, NoEditHolds, EditKeeps DEF LifecycleInv, CaseInv
<1>7. CaseInv' BY <1>1, <1>2, <1>3, <1>4, <1>6 DEF LifecycleInv, CaseInv
<1>8. ~unasked' BY DEF LifecycleInv, AskInv
<1>9. AskInv' BY <1>1, <1>8, NoEditHolds, AskStep DEF LifecycleInv, CaseInv
<1> QED BY <1>5, <1>7, <1>9 DEF LifecycleInv

LEMMA CloneFailsKeeps ==
    ASSUME LifecycleInv, NEW e \in Editors, CloneFails(e), UNCHANGED unasked, Slip PROVE LifecycleInv'
<1>1. Ed(e, NoEdit) /\ UNCHANGED <<records, kase, tasks, notes, triaged, template>> BY DEF CloneFails
<1> QED BY <1>1, NoEditHolds, EditorKeeps

LEMMA CaseStepKeeps == ASSUME LifecycleInv, CaseNext PROVE LifecycleInv'
<1>1. Slip BY DEF CaseNext
<1>2. CASE RecordStep /\ Keep BY <1>1, <1>2, RecordStepKeeps DEF Keep
<1>3. ASSUME NEW a \in Assets, NEW n \in Names, NEW d \in BOOLEAN, Triage(a, n, d), Keep PROVE LifecycleInv'
  BY <1>1, <1>3, TriageKeeps DEF Keep
<1>4. CaseInv BY DEF LifecycleInv
<1>5. ASSUME NEW t \in Tasks, TaskDelete(t) \/ \E d \in BOOLEAN : TaskSave(t, d), Keep PROVE LifecycleInv'
  <2>1. /\ kase # NoRow /\ UNCHANGED <<records, edit, unasked, kase, notes, triaged, template>>
        /\ \E x \in {"none", "open", "done"} : tasks' = [tasks EXCEPT ![t] = x]
    <3>1. CASE TaskDelete(t) BY <1>5, <3>1 DEF TaskDelete, Keep
    <3>2. CASE \E d \in BOOLEAN : TaskSave(t, d) BY <1>5, <3>2 DEF TaskSave, Keep
    <3> QED BY <1>5, <3>1, <3>2
  <2>2. tasks' \in [Tasks -> {"none", "open", "done"}] BY <1>4, <2>1 DEF CaseInv
  <2> QED BY <1>1, <1>4, <2>1, <2>2, CaseChangeKeeps DEF CaseInv
<1>6. ASSUME NEW ns \in SUBSET Notes, NoteChange(ns), Keep PROVE LifecycleInv'
  BY <1>1, <1>4, <1>6, CaseChangeKeeps DEF NoteChange, Keep, CaseInv
<1>7. ASSUME NEW f \in Cases, CaseImport(f), Keep PROVE LifecycleInv'
  <2>1. Filled(f) \in Forms /\ Filled(f) # NoRow
    <3>1. Filled(f) \in Forms /\ Filled(f) \in Cases BY DEF Filled, Forms, Cases
    <3> QED BY <3>1, CaseAssumption
  <2> QED BY <1>1, <1>4, <1>7, <2>1, CaseChangeKeeps DEF CaseImport, Keep, CaseInv
<1>8. CASE CaseTemplateDelete /\ Keep
  BY <1>1, <1>4, <1>8, CaseChangeKeeps DEF CaseTemplateDelete, Keep, CaseInv
<1>9. CASE CaseTemplatePromote /\ Keep
  <2>1. template' \in Templates BY <1>4, <1>9 DEF CaseTemplatePromote, Templates, CaseInv
  <2> QED BY <1>1, <1>4, <1>9, <2>1, CaseChangeKeeps DEF CaseTemplatePromote, Keep, CaseInv
<1>10. ASSUME NEW ts \in SUBSET Tasks, NEW ns \in SUBSET Notes, CaseTemplateSave(ts, ns), Keep PROVE LifecycleInv'
  <2>1. template' \in Templates BY <1>10 DEF CaseTemplateSave, Templates
  <2> QED BY <1>1, <1>4, <1>10, <2>1, CaseChangeKeeps DEF CaseTemplateSave, Keep, CaseInv
<1>11. ASSUME NEW e \in Editors, NEW f \in Cases, NEW n \in BOOLEAN, NEW c \in BOOLEAN, NEW y \in BOOLEAN,
              CaseSave(e, f, n, c, y), Keep
       PROVE  LifecycleInv'
  BY <1>1, <1>11, CaseSaveKeeps DEF Keep
<1>12. ASSUME NEW e \in Editors, Prior(e) \/ CountTasks(e) \/ CountAssets(e), Keep PROVE LifecycleInv'
  BY <1>1, <1>12, PriorKeeps, CountTasksKeeps, CountAssetsKeeps DEF Keep
<1>13. ASSUME NEW e \in Editors, CloneCaseContents(e) \/ CloneFails(e), Keep PROVE LifecycleInv'
  BY <1>1, <1>13, CloneKeeps, CloneFailsKeeps DEF Keep
<1>14. ASSUME NEW e \in Editors, SaveCase(e) PROVE LifecycleInv' BY <1>1, <1>14, SaveCaseKeeps
<1> QED BY <1>2, <1>3, <1>5, <1>6, <1>7, <1>8, <1>9, <1>10, <1>11, <1>12, <1>13, <1>14
        DEF CaseNext, CaseStep

-----------------------------------------------------------------------------
(* What follows for every behaviour.                                        *)

\* The invariant holds: the records of a case (internal/handler/{events,assets,
\* indicators,malware,comments}.go) and the case itself (cases.go, tasks.go, notes.go).
THEOREM LifecycleInvariant == CaseSpec => []LifecycleInv
<1>1. CaseInit => LifecycleInv
  <2>1. CaseInit => Init BY DEF CaseInit
  <2> QED BY <2>1, RecordsInit, CaseInitial DEF LifecycleInv
<1>2. LifecycleInv /\ [CaseNext]_allVars => LifecycleInv'
  <2> SUFFICES ASSUME LifecycleInv, [CaseNext]_allVars PROVE LifecycleInv'
    OBVIOUS
  <2>1. CASE CaseNext BY <2>1, CaseStepKeeps
  <2>2. CASE UNCHANGED allVars
    <3>1. UNCHANGED <<vars, kase, tasks, notes, triaged, template, edit, slipped, unasked>>
      BY <2>2 DEF allVars, lifecycle
    <3>2. UNCHANGED <<records, assets>> BY <3>1 DEF vars, tables, records, hist
    <3>3. RecordsInv' BY <3>2, RecordsSame DEF LifecycleInv
    <3>4. EditInv' BY <3>1 DEF LifecycleInv, CaseInv, EditInv
    <3>5. OpenTasks' = OpenTasks /\ Outstanding' = Outstanding BY <3>1, <3>2, OutstandingSame
    <3>6. CaseInv' BY <3>1, <3>4, <3>5 DEF LifecycleInv, CaseInv
    <3>7. AskInv' BY <3>1, <3>5 DEF LifecycleInv, AskInv, Counted
    <3> QED BY <3>3, <3>6, <3>7 DEF LifecycleInv
  <2> QED BY <2>1, <2>2
<1> QED BY <1>1, <1>2, PTL DEF CaseSpec

\* The tables, the rows and the requests keep their types, with the unique index on the
\* names of assets and the foreign keys of links and samples (internal/model), and a case
\* has a closing date exactly if it is closed (CaseSave, CaseImport).
THEOREM CaseTypeCorrect == CaseSpec => []CaseTypeOK
<1>1. LifecycleInv => CaseTypeOK
  <2> SUFFICES ASSUME LifecycleInv PROVE CaseTypeOK OBVIOUS
  <2>1. \A r \in Requests :
          /\ req[r].pc \in {"idle", "comment", "create", "copy", "entry", "rename", "save",
                            "push", "pushed", "remove", "delete"}
          /\ req[r].hash \in Hashes \cup {None} /\ req[r].old \in Hashes \cup {None}
          /\ req[r].pc # "idle" => req[r].id \in Malware \cup Comments
    BY DEF LifecycleInv, RecordsInv, ReqInv, Remembered, Records
  <2>2. TypeOK BY <2>1 DEF TypeOK, LifecycleInv, RecordsInv, TablesInv, KeysInv
  <2>3. \A e \in Editors :
          /\ edit[e].pc \in {"idle", "prior", "tasks", "assets", "save", "clone"}
          /\ edit[e].pc = "idle" \/ edit[e].form \in Cases
    BY DEF LifecycleInv, CaseInv, EditInv, Edits, Forms
  <2>4. kase \in Cases \cup {NoRow} /\ (kase # NoRow => kase.dated = kase.closed)
    BY DEF LifecycleInv, CaseInv, Forms
  <2> QED BY <2>2, <2>3, <2>4 DEF CaseTypeOK, LifecycleInv, CaseInv
<1> QED BY <1>1, LifecycleInvariant, PTL

\* A comment has its object, unless that went while the comment was being saved, or was
\* a sample that went with its asset (deleteObjectComments).
THEOREM CommentsKeepTheirObjects == CaseSpec => []CommentsHaveObjects
<1>1. LifecycleInv => CommentsHaveObjects
  BY DEF LifecycleInv, RecordsInv, CommentInv, CommentsHaveObjects, Orphans, Known
<1> QED BY <1>1, LifecycleInvariant, PTL

\* What an analyst made of an event stays, in text always and in links unless it is
\* imported again (SaveEvent, saveTimesketchEvents).
THEOREM EventsStayAsSaved == CaseSpec => []EventsAreAsSaved
<1>1. LifecycleInv => EventsAreAsSaved BY DEF LifecycleInv, RecordsInv, EventInv
<1> QED BY <1>1, LifecycleInvariant, PTL

\* An uploaded sample that no other request had a hand in, and that got no other hash from a
\* CSV record, is found under the hash of its entry (MalwareSave, resolveMalwareFile,
\* MalwareImport, MalwareDelete).
THEOREM SamplesKeepFiles == CaseSpec => []SamplesKeepTheirFiles
<1>1. LifecycleInv => SamplesKeepTheirFiles
  <2> SUFFICES ASSUME LifecycleInv, NEW m \in uploaded \ (contested \cup imported), malware[m] # NoRow, ~Busy(m)
               PROVE  files[malware[m].hash] = m
    BY DEF SamplesKeepTheirFiles
  <2>1. m \notin Moving BY DEF Moving, Sampling, Busy
  <2> QED BY <2>1 DEF LifecycleInv, RecordsInv, SampleInv, FilesKept
<1> QED BY <1>1, LifecycleInvariant, PTL

\* No case is closed with something outstanding unless the question was answered, or it
\* came up while that request was under way (CaseSave, outstandingOnClose).
THEOREM ClosingIsAsked == CaseSpec => []ClosedMeansAsked
<1>1. LifecycleInv => ClosedMeansAsked BY DEF LifecycleInv, AskInv, ClosedMeansAsked
<1> QED BY <1>1, LifecycleInvariant, PTL

=============================================================================
