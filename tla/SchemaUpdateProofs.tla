-------------------------- MODULE SchemaUpdateProofs --------------------------
(***************************************************************************)
(* Proofs about SchemaUpdate, for any number of builds, migrations, files, *)
(* modules and simultaneous updates.                                       *)
(*                                                                         *)
(* ProgressInv holds however updates overlap: the migrations before the    *)
(* one an update works on have been applied.  OnceInv and PinInv hold      *)
(* while they do not: the row of schema_migrations is then the one the     *)
(* update under way has left, and every file it is done with is the newest. *)
(***************************************************************************)
EXTENDS SchemaUpdate, TLAPS

Update == [pc : Steps, build : Builds \cup {NoBuild}, force : BOOLEAN,
           at : Versions \cup {0}, trees : SUBSET AllTrees,
           todo : SUBSET (Files \cup AllTrees), tree : AllTrees \cup {NoTree}]

\* What an update holds depends on how far it has come.
StepOK(q) ==
    /\ q.pc # "idle" => q.build \in Builds
    /\ q.pc \in {"reset", "mark", "run", "unmark"} => q.at \in Versions
    /\ q.pc \in {"mark", "run", "unmark"} => q.at <= Latest(q.build)
    /\ q.pc = "fetch" => q.todo \subseteq Files
    /\ q.pc \in {"assets", "extract"} => q.todo \subseteq AllTrees
    /\ q.pc = "extract" => q.tree \in AllTrees

TypeInv == TypeOK /\ \A p \in Updates : StepOK(proc[p])

\* The migrations before the one an update works on have been applied.
Reached(q, table) ==
    \A v \in Versions :
        /\ q.pc \in {"reset", "mark", "run"} /\ v < q.at => table[v] > 0
        /\ q.pc = "unmark" /\ v <= q.at => table[v] > 0

ProgressInv == VersionTellsApplied /\ \A p \in Updates : Reached(proc[p], applied)

\* One update at most is under way ...
Lone == \A p, u \in Updates : proc[p].pc # "idle" /\ proc[u].pc # "idle" => p = u

\* ... and the row is the one it has written or read.
RowOK(q) ==
    /\ q.pc \in {"reset", "run", "unmark"} => q.at = version /\ dirty
    /\ q.pc = "mark" => q.at = version + 1 /\ ~dirty

\* What is above the recorded version has not been applied, and what is marked not
\* before its transaction.
Once ==
    /\ \A v \in Versions \ cut : applied[v] <= 1 /\ (v > version => applied[v] = 0)
    /\ dirty /\ version \notin cut /\ (\A p \in Updates : proc[p].pc # "unmark")
         => applied[version] = 0

OnceInv == ~overlapped => Lone /\ Once /\ \A p \in Updates : RowOK(proc[p])

Pinned == \A f \in Files : matrix[f] = newest

\* What an update has fetched.
FetchedOK(q) ==
    /\ q.pc # "idle" => Release(q.build) = newest
    /\ q.pc = "fetch" => \A f \in Files \ q.todo : matrix[f] = newest
    /\ q.pc \in {"assets", "extract"} => Pinned
    /\ q.pc = "assets" => \A t \in q.trees \ q.todo : assets[t] = "whole"
    /\ q.pc = "extract" => \A t \in q.trees \ (q.todo \cup {q.tree}) : assets[t] = "whole"

SentinelOK == sentinel <= newest /\ (sentinel = newest => Pinned)

DoneOK ==
    done # NoBuild => /\ Release(done) = newest /\ Pinned
                      /\ \A t \in fetched : assets[t] = "whole"
                      /\ \A p \in Updates : proc[p].pc = "idle"

KnowledgeOK == server.prepared => server.kb = {Release(server.build)}

PinInv ==
    ~overlapped /\ ~rolledBack =>
        SentinelOK /\ DoneOK /\ KnowledgeOK /\ \A p \in Updates : FetchedOK(proc[p])

ServerInv ==
    server.quiet => /\ server.build \in Builds /\ version = Latest(server.build) /\ ~dirty
                    /\ \A p \in Updates : proc[p].pc = "idle"

-----------------------------------------------------------------------------
(* Constants and types.                                                    *)

\* There is no gap below a migration.
LEMMA VersionsDense ==
    /\ Versions \subseteq Nat \ {0}
    /\ \A v \in Versions : v - 1 \in Versions \cup {0}
    /\ \A v \in Versions \cup {0}, b \in Builds : v < Latest(b) => v + 1 \in Versions
  BY UpdateAssumption

LEMMA BuildsOK == \A b \in Builds : Latest(b) \in Nat /\ Release(b) \in Nat \ {0}
  BY UpdateAssumption, VersionsDense

LEMMA StepOKNow ==
    ASSUME TypeInv, NEW p \in Updates
    PROVE  /\ proc[p] \in Update /\ StepOK(proc[p])
           /\ version \in Versions \cup {0} /\ version \in Nat
           /\ dirty \in BOOLEAN /\ (dirty => version \in Versions)
  BY VersionsDense DEF TypeInv, TypeOK, Update

LEMMA IdleOK == Idle \in Update /\ StepOK(Idle)
  BY UpdateAssumption DEF Idle, Update, StepOK, Steps

LEMMA StepOKUpdate ==
    ASSUME TypeInv, NEW p \in Updates, NEW q \in Update, StepOK(q), proc' = [proc EXCEPT ![p] = q]
    PROVE  /\ proc' \in [Updates -> Update]
           /\ \A u \in Updates : StepOK(proc'[u])
           /\ proc'[p] = q /\ \A u \in Updates \ {p} : proc'[u] = proc[u]
  BY DEF TypeInv, TypeOK, Update

LEMMA TypeInit == Init => TypeInv
  <1> SUFFICES ASSUME Init
               PROVE  TypeInv
    OBVIOUS
  <1>1. proc \in [Updates -> Update] /\ \A p \in Updates : StepOK(proc[p])  BY IdleOK DEF Init
  <1>2. server \in [build : Builds \cup {NoBuild}, kb : SUBSET Releases,
                    prepared : BOOLEAN, quiet : BOOLEAN]
    BY DEF Init, Off
  <1> QED  BY <1>1, <1>2 DEF Init, TypeInv, TypeOK, Releases, Update

\* What an update is to fetch for its modules is theirs.
LEMMA FetchAssetsType ==
    ASSUME TypeInv, NEW p \in Updates, proc[p].pc # "idle", FetchAssets(p)
    PROVE  /\ proc' \in [Updates -> Update]
           /\ \A u \in Updates : StepOK(proc'[u])
           /\ \A u \in Updates \ {p} : proc'[u] = proc[u]
           /\ proc'[p].pc = "assets" /\ proc'[p].build = proc[p].build
           /\ proc'[p].todo = proc'[p].trees
  <1>1. PICK mods \in SUBSET Modules :
          LET trees == UNION {Trees(m) : m \in mods}
          IN  proc' = [proc EXCEPT ![p].pc = "assets", ![p].trees = trees, ![p].todo = trees]
    BY DEF FetchAssets
  <1> DEFINE trees == UNION {Trees(m) : m \in mods}
             q     == [proc[p] EXCEPT !.pc = "assets", !.trees = trees, !.todo = trees]
  <1>2. trees \subseteq AllTrees  BY DEF AllTrees
  <1>3. proc[p] \in Update /\ StepOK(proc[p])  BY StepOKNow
  <1>4. proc' = [proc EXCEPT ![p] = q]  BY <1>1
  <1> HIDE DEF trees
  <1>5. /\ q \in Update /\ StepOK(q) /\ q.pc = "assets" /\ q.build = proc[p].build
        /\ q.todo = q.trees
    BY <1>2, <1>3 DEF Update, StepOK, Steps
  <1> HIDE DEF q
  <1> QED  BY <1>4, <1>5, StepOKUpdate

LEMMA TypeNext == TypeInv /\ [Next]_vars => TypeInv'
  <1> SUFFICES ASSUME TypeInv, [Next]_vars
               PROVE  TypeInv'
    OBVIOUS
  <1>1. ASSUME NEW p \in Updates, NEW b \in Builds, NEW force \in BOOLEAN, Begin(p, b, force)
        PROVE  TypeInv'
    <2> DEFINE q == [Idle EXCEPT !.pc = IF force THEN "force" ELSE "up", !.build = b, !.force = force]
    <2>1. q \in Update /\ StepOK(q)  BY UpdateAssumption DEF Idle, Update, StepOK, Steps
    <2>2. proc' = [proc EXCEPT ![p] = q]  BY <1>1 DEF Begin
    <2> HIDE DEF q
    <2>3. newest' \in Nat /\ begun' \in Nat  BY <1>1, UpdateAssumption DEF Begin, TypeInv, TypeOK
    <2>4. server' \in [build : Builds \cup {NoBuild}, kb : SUBSET Releases,
                       prepared : BOOLEAN, quiet : BOOLEAN]
      BY <1>1 DEF Begin, TypeInv, TypeOK
    <2> QED  BY <1>1, <2>1, <2>2, <2>3, <2>4, StepOKUpdate
             DEF Begin, TypeInv, TypeOK, database, external, Update
  <1>2. ASSUME NEW p \in Updates, ReadForce(p)
        PROVE  TypeInv'
    <2> DEFINE q == [proc[p] EXCEPT !.pc = IF dirty THEN "reset" ELSE "up",
                                    !.at = IF dirty THEN version ELSE 0]
    <2>1. q \in Update /\ StepOK(q)
      <3>1. proc[p] \in Update /\ StepOK(proc[p])  BY StepOKNow
      <3>2. proc[p].build \in Builds  BY <1>2, <3>1 DEF ReadForce, At, StepOK
      <3>3. CASE dirty
        <4>1. version \in Versions /\ q = [proc[p] EXCEPT !.pc = "reset", !.at = version]
          BY <3>3 DEF TypeInv, TypeOK
        <4> HIDE DEF q
        <4> QED  BY <3>1, <3>2, <4>1 DEF Update, StepOK, Steps
      <3>4. CASE ~dirty
        <4>1. q = [proc[p] EXCEPT !.pc = "up", !.at = 0]  BY <3>4
        <4> HIDE DEF q
        <4> QED  BY <3>1, <3>2, <4>1 DEF Update, StepOK, Steps
      <3> QED  BY <3>3, <3>4, StepOKNow
    <2>2. proc' = [proc EXCEPT ![p] = q]  BY <1>2 DEF ReadForce
    <2> HIDE DEF q
    <2> QED  BY <1>2, <2>1, <2>2, StepOKUpdate
             DEF ReadForce, TypeInv, TypeOK, database, external, history, Update
  <1>3. ASSUME NEW p \in Updates, Reset(p)
        PROVE  TypeInv'
    <2> DEFINE q == [proc[p] EXCEPT !.pc = "up"]
    <2>0. proc[p] \in Update /\ StepOK(proc[p])  BY StepOKNow
    <2>1. q \in Update /\ StepOK(q)  BY <1>3, <2>0 DEF Reset, Update, StepOK, Steps, At
    <2>2. proc' = [proc EXCEPT ![p] = q]  BY <1>3 DEF Reset, Goto
    <2> HIDE DEF q
    <2>3. version' \in Versions \cup {0} /\ dirty' = FALSE
      BY <1>3, VersionsDense DEF Reset, SetVersion, TypeInv, StepOK, At
    <2> QED  BY <1>3, <2>1, <2>2, <2>3, StepOKUpdate
             DEF Reset, TypeInv, TypeOK, external, history, Update
  <1>4. ASSUME NEW p \in Updates, Up(p)
        PROVE  TypeInv'
    <2> DEFINE latest == Latest(proc[p].build)
               first == [proc[p] EXCEPT !.pc = "mark", !.at = version + 1]
               none == [proc[p] EXCEPT !.pc = "mitre", !.at = 0]
    <2>0. proc[p] \in Update /\ StepOK(proc[p]) /\ proc[p].pc = "up" /\ version \in Nat
      BY <1>4, StepOKNow DEF Up, At
    <2>1. none \in Update /\ StepOK(none)  BY <2>0 DEF Update, StepOK, Steps
    <2>2. version < latest => first \in Update /\ StepOK(first)
      <3> SUFFICES ASSUME version < latest
                   PROVE  first \in Update /\ StepOK(first)
        OBVIOUS
      <3>1. proc[p].build \in Builds  BY <2>0 DEF StepOK
      <3>2. version + 1 \in Versions  BY <3>1, StepOKNow, VersionsDense
      <3>3. version + 1 <= latest  BY <2>0, <3>1, BuildsOK
      <3> QED  BY <2>0, <3>1, <3>2, <3>3 DEF Update, StepOK, Steps
    <2>3. \/ proc' = [proc EXCEPT ![p] = Idle]
          \/ proc' = [proc EXCEPT ![p] = none]
          \/ version < latest /\ proc' = [proc EXCEPT ![p] = first]
      BY <1>4 DEF Up, End, Goto
    <2> HIDE DEF first, none, latest
    <2>4. proc' \in [Updates -> Update] /\ \A u \in Updates : StepOK(proc'[u])
      BY <2>1, <2>2, <2>3, IdleOK, StepOKUpdate
    <2> QED  BY <1>4, <2>4 DEF Up, TypeInv, TypeOK, database, external, history, Update
  <1>5. ASSUME NEW p \in Updates, Mark(p)
        PROVE  TypeInv'
    <2> DEFINE q == [proc[p] EXCEPT !.pc = "run"]
    <2>0. proc[p] \in Update /\ StepOK(proc[p])  BY StepOKNow
    <2>1. q \in Update /\ StepOK(q)  BY <1>5, <2>0 DEF Mark, Update, StepOK, Steps, At
    <2>2. proc' = [proc EXCEPT ![p] = q]  BY <1>5 DEF Mark, Goto
    <2> HIDE DEF q
    <2>3. version' \in Versions /\ version' # 0 /\ dirty' = TRUE
      BY <1>5, VersionsDense DEF Mark, SetVersion, TypeInv, StepOK, At
    <2> QED  BY <1>5, <2>1, <2>2, <2>3, StepOKUpdate
             DEF Mark, TypeInv, TypeOK, external, history, Update
  <1>6. ASSUME NEW p \in Updates, RunMigration(p)
        PROVE  TypeInv'
    <2> DEFINE q == [proc[p] EXCEPT !.pc = "unmark"]
    <2>0. proc[p] \in Update /\ StepOK(proc[p])  BY StepOKNow
    <2>1. q \in Update /\ StepOK(q)  BY <1>6, <2>0 DEF RunMigration, Update, StepOK, Steps, At
    <2>2. proc' = [proc EXCEPT ![p] = q]  BY <1>6 DEF RunMigration, Goto
    <2> HIDE DEF q
    <2>3. applied' \in [Versions -> Nat]
      <3>1. applied \in [Versions -> Nat]  BY DEF TypeInv, TypeOK
      <3>2. applied' = [applied EXCEPT ![proc[p].at] = applied[proc[p].at] + 1]
        BY <1>6 DEF RunMigration
      <3>3. proc[p].at \in Versions  BY <1>6, <2>0 DEF RunMigration, At, StepOK
      <3>4. applied[proc[p].at] + 1 \in Nat  BY <3>1, <3>3
      <3> QED  BY <3>1, <3>2, <3>4
    <2> QED  BY <1>6, <2>1, <2>2, <2>3, StepOKUpdate
             DEF RunMigration, TypeInv, TypeOK, external, history, Update
  <1>7. ASSUME NEW p \in Updates, Unmark(p)
        PROVE  TypeInv'
    <2> DEFINE v == proc[p].at
               next == [proc[p] EXCEPT !.pc = "mark", !.at = v + 1]
               last == [proc[p] EXCEPT !.pc = "mitre", !.at = 0]
    <2>0. proc[p] \in Update /\ StepOK(proc[p]) /\ proc[p].pc = "unmark" /\ v \in Versions
      BY <1>7 DEF Unmark, At, TypeInv, TypeOK, Update, StepOK
    <2>1. version' \in Versions /\ version' # 0 /\ dirty' = FALSE
      BY <1>7, <2>0, VersionsDense DEF Unmark, SetVersion
    <2>2. CASE v < Latest(proc[p].build)
      <3>1. proc' = [proc EXCEPT ![p] = next]  BY <1>7, <2>2 DEF Unmark
      <3>2. proc[p].build \in Builds /\ v \in Nat  BY <2>0, VersionsDense DEF StepOK
      <3>3. v + 1 \in Versions  BY <2>0, <2>2, <3>2, VersionsDense
      <3>4. v + 1 <= Latest(proc[p].build)  BY <2>2, <3>2, BuildsOK
      <3>5. next \in Update /\ StepOK(next)  BY <2>0, <3>3, <3>4 DEF Update, StepOK, Steps
      <3> HIDE DEF next
      <3> QED  BY <1>7, <2>1, <3>1, <3>5, StepOKUpdate
               DEF Unmark, TypeInv, TypeOK, external, history, Update
    <2>3. CASE ~(v < Latest(proc[p].build))
      <3>1. proc' = [proc EXCEPT ![p] = last]  BY <1>7, <2>3 DEF Unmark
      <3>2. last \in Update /\ StepOK(last)  BY <2>0 DEF Update, StepOK, Steps
      <3> HIDE DEF last
      <3> QED  BY <1>7, <2>1, <3>1, <3>2, StepOKUpdate
               DEF Unmark, TypeInv, TypeOK, external, history, Update
    <2> QED  BY <2>2, <2>3
  <1>8. ASSUME NEW p \in Updates, UpdateMitre(p)
        PROVE  TypeInv'
    <2> DEFINE fetch == [proc[p] EXCEPT !.pc = "fetch", !.todo = Files, !.force = FALSE]
    <2>1. proc[p] \in Update /\ StepOK(proc[p])  BY StepOKNow
    <2>2. CASE FetchAssets(p)
      BY <1>8, <2>2, FetchAssetsType DEF UpdateMitre, At, TypeInv, TypeOK, database, external, history, Update
    <2>3. CASE proc' = [proc EXCEPT ![p] = fetch]
      <3>1. fetch \in Update /\ StepOK(fetch)
        BY <1>8, <2>1 DEF UpdateMitre, Update, StepOK, Steps, At
      <3> HIDE DEF fetch
      <3> QED  BY <1>8, <2>3, <3>1, StepOKUpdate
               DEF UpdateMitre, TypeInv, TypeOK, database, external, history, Update
    <2>4. FetchAssets(p) \/ proc' = [proc EXCEPT ![p] = fetch]
      BY <1>8 DEF UpdateMitre
    <2> QED  BY <2>2, <2>3, <2>4
  <1>9. ASSUME NEW p \in Updates, Download(p)
        PROVE  TypeInv'
    <2>1. PICK f \in proc[p].todo :
            /\ matrix' = [matrix EXCEPT ![f] = Release(proc[p].build)]
            /\ proc' = [proc EXCEPT ![p].todo = @ \ {f}]
      BY <1>9 DEF Download
    <2> DEFINE q == [proc[p] EXCEPT !.todo = @ \ {f}]
    <2>0. proc[p] \in Update /\ StepOK(proc[p])  BY StepOKNow
    <2>2. q \in Update /\ StepOK(q)  BY <1>9, <2>0 DEF Download, Update, StepOK, Steps, At
    <2>3. proc' = [proc EXCEPT ![p] = q]  BY <2>1
    <2> HIDE DEF q
    <2>4. Release(proc[p].build) \in Releases
      BY <1>9 DEF Download, At, TypeInv, StepOK, Releases
    <2>5. matrix' \in [Files -> Releases]  BY <2>1, <2>4 DEF TypeInv, TypeOK
    <2> QED  BY <1>9, <2>2, <2>3, <2>5, StepOKUpdate
             DEF Download, TypeInv, TypeOK, database, history, Update
  <1>10. ASSUME NEW p \in Updates, WriteSentinel(p)
         PROVE  TypeInv'
    <2>1. proc[p].pc # "idle" /\ FetchAssets(p)  BY <1>10 DEF WriteSentinel, At
    <2>2. proc' \in [Updates -> Update] /\ \A u \in Updates : StepOK(proc'[u])
      BY <2>1, FetchAssetsType
    <2>3. sentinel' \in Releases
      BY <1>10 DEF WriteSentinel, At, TypeInv, StepOK, Releases
    <2> QED  BY <1>10, <2>2, <2>3
             DEF WriteSentinel, TypeInv, TypeOK, database, history, Update
  <1>11. ASSUME NEW p \in Updates, RemoveAssets(p)
         PROVE  TypeInv'
    <2>1. PICK m \in proc[p].todo :
            /\ assets' = [assets EXCEPT ![m] = "part"]
            /\ proc' = [proc EXCEPT ![p].pc = "extract", ![p].todo = @ \ {m}, ![p].tree = m]
      BY <1>11 DEF RemoveAssets
    <2> DEFINE q == [proc[p] EXCEPT !.pc = "extract", !.todo = @ \ {m}, !.tree = m]
    <2>0. proc[p] \in Update /\ StepOK(proc[p])  BY StepOKNow
    <2>2. q \in Update /\ StepOK(q)  BY <1>11, <2>0 DEF RemoveAssets, Update, StepOK, Steps, At
    <2>3. proc' = [proc EXCEPT ![p] = q]  BY <2>1
    <2> HIDE DEF q
    <2>4. assets' \in [AllTrees -> {"none", "part", "whole"}]  BY <2>1 DEF TypeInv, TypeOK
    <2> QED  BY <1>11, <2>2, <2>3, <2>4, StepOKUpdate
             DEF RemoveAssets, TypeInv, TypeOK, database, history, Update
  <1>12. ASSUME NEW p \in Updates, ExtractAssets(p)
         PROVE  TypeInv'
    <2> DEFINE q == [proc[p] EXCEPT !.pc = "assets", !.tree = NoTree]
    <2>0. proc[p] \in Update /\ StepOK(proc[p])  BY StepOKNow
    <2>1. q \in Update /\ StepOK(q)  BY <1>12, <2>0 DEF ExtractAssets, Update, StepOK, Steps, At
    <2>2. proc' = [proc EXCEPT ![p] = q]  BY <1>12 DEF ExtractAssets
    <2> HIDE DEF q
    <2>3. assets' \in [AllTrees -> {"none", "part", "whole"}]
      BY <1>12 DEF ExtractAssets, TypeInv, TypeOK
    <2> QED  BY <1>12, <2>1, <2>2, <2>3, StepOKUpdate
             DEF ExtractAssets, TypeInv, TypeOK, database, history, Update
  <1>13. ASSUME NEW p \in Updates, Complete(p)
         PROVE  TypeInv'
    <2>0. proc[p] \in Update /\ StepOK(proc[p])  BY StepOKNow
    <2>1. done' \in Builds \cup {NoBuild} /\ fetched' \subseteq AllTrees
      BY <1>13, <2>0 DEF Complete, At, StepOK, Update
    <2> QED  BY <1>13, <2>1, IdleOK, StepOKUpdate
             DEF Complete, End, TypeInv, TypeOK, database, external, Update
  <1>14. ASSUME NEW p \in Updates, Stops(p)
         PROVE  TypeInv'
    <2>1. cut' \subseteq Versions  BY <1>14 DEF Stops, At, TypeInv, TypeOK, StepOK
    <2>2. sentinel' \in Releases  BY <1>14 DEF Stops, TypeInv, TypeOK, Releases
    <2> QED  BY <1>14, <2>1, <2>2, IdleOK, StepOKUpdate
             DEF Stops, End, TypeInv, TypeOK, database, Update
  <1>15. ASSUME NEW b \in Builds, Start(b)
         PROVE  TypeInv'
    <2>1. server' \in [build : Builds \cup {NoBuild}, kb : SUBSET Releases,
                       prepared : BOOLEAN, quiet : BOOLEAN]
      BY <1>15 DEF Start, TypeInv, TypeOK
    <2> QED  BY <1>15, <2>1, UpdateAssumption DEF Start, TypeInv, TypeOK, database, external
  <1>16. CASE Shutdown
    <2>1. server' \in [build : Builds \cup {NoBuild}, kb : SUBSET Releases,
                       prepared : BOOLEAN, quiet : BOOLEAN]
      BY <1>16 DEF Shutdown, Off
    <2> QED  BY <1>16, <2>1 DEF Shutdown, TypeInv, TypeOK, database, external, history
  <1>17. CASE UNCHANGED vars
    BY <1>17 DEF TypeInv, TypeOK, vars
  <1> QED  BY <1>1, <1>2, <1>3, <1>4, <1>5, <1>6, <1>7, <1>8, <1>9, <1>10, <1>11, <1>12, <1>13,
              <1>14, <1>15, <1>16, <1>17 DEF Next

\* Every state of the tables, the files, the updates and the server is one the
\* code can be in, for any number of builds and of updates at once (TypeOK).
THEOREM SchemaTypeCorrect == Spec => []TypeOK
  <1>1. TypeInv => TypeOK  BY DEF TypeInv
  <1> QED  BY <1>1, TypeInit, TypeNext, PTL DEF Spec

-----------------------------------------------------------------------------
(* What a step does to the update that takes it.                           *)

Others(p) == \A u \in Updates \ {p} : proc'[u] = proc[u]

LEMMA ReadForceStep ==
    ASSUME TypeInv, NEW p \in Updates, ReadForce(p)
    PROVE  /\ proc[p].pc = "force" /\ Others(p) /\ UNCHANGED <<database, external, server, history>>
           /\ proc'[p].build = proc[p].build
           /\ \/ dirty /\ proc'[p].pc = "reset" /\ proc'[p].at = version
              \/ ~dirty /\ proc'[p].pc = "up"
  <1>1. CASE dirty
    <2>1. proc' = [proc EXCEPT ![p] = [proc[p] EXCEPT !.pc = "reset", !.at = version]]
      BY <1>1 DEF ReadForce
    <2> QED  BY <1>1, <2>1 DEF ReadForce, At, Others, TypeInv, TypeOK
  <1>2. CASE ~dirty
    <2>1. proc' = [proc EXCEPT ![p] = [proc[p] EXCEPT !.pc = "up", !.at = 0]]
      BY <1>2 DEF ReadForce
    <2> QED  BY <1>2, <2>1 DEF ReadForce, At, Others, TypeInv, TypeOK
  <1> QED  BY <1>1, <1>2

LEMMA ResetStep ==
    ASSUME TypeInv, NEW p \in Updates, Reset(p)
    PROVE  /\ proc[p].pc = "reset" /\ Others(p) /\ UNCHANGED <<applied, external, server, history>>
           /\ proc'[p].build = proc[p].build /\ proc'[p].pc = "up"
           /\ version' = proc[p].at - 1 /\ dirty' = FALSE
  BY DEF Reset, At, Goto, SetVersion, Others, TypeInv, TypeOK

LEMMA UpStep ==
    ASSUME TypeInv, NEW p \in Updates, Up(p)
    PROVE  /\ proc[p].pc = "up" /\ Others(p) /\ UNCHANGED <<database, external, server, history>>
           /\ proc'[p].pc # "idle" => proc'[p].build = proc[p].build
           /\ \/ proc'[p].pc \in {"idle", "mitre"}
              \/ ~dirty /\ proc'[p].pc = "mark" /\ proc'[p].at = version + 1
  BY DEF Up, At, Goto, End, Idle, Others, TypeInv, TypeOK

LEMMA MarkStep ==
    ASSUME TypeInv, NEW p \in Updates, Mark(p)
    PROVE  /\ proc[p].pc = "mark" /\ Others(p) /\ UNCHANGED <<applied, external, server, history>>
           /\ proc'[p].build = proc[p].build /\ proc'[p].pc = "run" /\ proc'[p].at = proc[p].at
           /\ version' = proc[p].at /\ dirty' = TRUE
  BY DEF Mark, At, Goto, SetVersion, Others, TypeInv, TypeOK

LEMMA RunStep ==
    ASSUME TypeInv, NEW p \in Updates, RunMigration(p)
    PROVE  /\ proc[p].pc = "run" /\ Others(p)
           /\ UNCHANGED <<version, dirty, external, server, history>>
           /\ proc'[p].build = proc[p].build /\ proc'[p].pc = "unmark" /\ proc'[p].at = proc[p].at
           /\ \A v \in Versions :
                applied'[v] = IF v = proc[p].at THEN applied[v] + 1 ELSE applied[v]
  BY DEF RunMigration, At, Goto, Others, TypeInv, TypeOK

LEMMA UnmarkStep ==
    ASSUME TypeInv, NEW p \in Updates, Unmark(p)
    PROVE  /\ proc[p].pc = "unmark" /\ Others(p)
           /\ UNCHANGED <<applied, external, server, history>>
           /\ proc'[p].build = proc[p].build
           /\ version' = proc[p].at /\ dirty' = FALSE
           /\ \/ proc'[p].pc = "mark" /\ proc'[p].at = proc[p].at + 1
              \/ proc'[p].pc = "mitre"
  <1>1. \/ proc' = [proc EXCEPT ![p] = [proc[p] EXCEPT !.pc = "mark", !.at = proc[p].at + 1]]
        \/ proc' = [proc EXCEPT ![p] = [proc[p] EXCEPT !.pc = "mitre", !.at = 0]]
    BY DEF Unmark
  <1> QED  BY <1>1 DEF Unmark, At, SetVersion, Others, TypeInv, TypeOK

\* The steps that fetch files.
Fetches(p) == UpdateMitre(p) \/ Download(p) \/ WriteSentinel(p) \/ RemoveAssets(p) \/ ExtractAssets(p)

LEMMA FetchStep ==
    ASSUME TypeInv, NEW p \in Updates, Fetches(p)
    PROVE  /\ proc[p].pc \in {"mitre", "fetch", "assets", "extract"} /\ Others(p)
           /\ proc'[p].pc \in {"fetch", "assets", "extract"} /\ proc'[p].build = proc[p].build
           /\ UNCHANGED <<database, server, history>>
  <1>1. CASE UpdateMitre(p)
    BY <1>1, FetchAssetsType DEF UpdateMitre, At, Others, TypeInv, TypeOK
  <1>2. CASE Download(p)  BY <1>2 DEF Download, At, Others, TypeInv, TypeOK
  <1>3. CASE WriteSentinel(p)
    BY <1>3, FetchAssetsType DEF WriteSentinel, At, Others
  <1>4. CASE RemoveAssets(p)  BY <1>4 DEF RemoveAssets, At, Others, TypeInv, TypeOK
  <1>5. CASE ExtractAssets(p)  BY <1>5 DEF ExtractAssets, At, Others, TypeInv, TypeOK
  <1> QED  BY <1>1, <1>2, <1>3, <1>4, <1>5 DEF Fetches

LEMMA BeginStep ==
    ASSUME TypeInv, NEW p \in Updates, NEW b \in Builds, NEW force \in BOOLEAN, Begin(p, b, force)
    PROVE  /\ proc[p].pc = "idle" /\ Others(p)
           /\ proc'[p].pc \in {"force", "up"} /\ proc'[p].build = b
           /\ ~overlapped' => ~overlapped /\ \A u \in Updates : proc[u].pc = "idle"
           /\ UNCHANGED <<database, external, cut>>
           /\ done' = NoBuild
           /\ server' = [server EXCEPT !.quiet = FALSE]
           /\ newest' = IF Release(b) > newest THEN Release(b) ELSE newest
           /\ ~rolledBack' => ~rolledBack /\ ~(Release(b) < newest)
  <1> DEFINE q == [Idle EXCEPT !.pc = IF force THEN "force" ELSE "up", !.build = b, !.force = force]
  <1>1. q.pc \in {"force", "up"} /\ q.build = b  BY DEF Idle
  <1>2. proc' = [proc EXCEPT ![p] = q]  BY DEF Begin
  <1> HIDE DEF q
  <1>3. proc'[p].pc \in {"force", "up"} /\ proc'[p].build = b /\ Others(p)
    BY <1>1, <1>2 DEF Others, TypeInv, TypeOK
  <1>4. ~overlapped' => ~overlapped /\ \A u \in Updates : proc[u].pc = "idle"
    BY DEF Begin, UnderWay
  <1> QED  BY <1>3, <1>4 DEF Begin, At

LEMMA EndStep ==
    ASSUME TypeInv, NEW p \in Updates, Complete(p) \/ Stops(p)
    PROVE  /\ proc[p].pc # "idle" /\ Others(p) /\ proc'[p] = Idle /\ proc'[p].pc = "idle"
           /\ UNCHANGED <<database, matrix, assets, server, overlapped, newest, rolledBack, begun, starts>>
  <1>1. proc[p].pc # "idle" /\ End(p)  BY DEF Complete, Stops, At, UnderWay
  <1>2. Others(p) /\ proc'[p] = Idle /\ proc'[p].pc = "idle"
    BY <1>1 DEF End, Others, Idle, TypeInv, TypeOK
  <1> QED  BY <1>1, <1>2 DEF Complete, Stops, external

LEMMA ServerStep ==
    ASSUME (\E b \in Builds : Start(b)) \/ Shutdown \/ UNCHANGED vars
    PROVE  UNCHANGED <<version, dirty, applied, matrix, sentinel, assets, proc, done,
                       fetched, overlapped, cut, newest, rolledBack>>
  BY DEF Start, Shutdown, vars, database, external, history

\* Steps on the database, after which an update is at one of these.
Migrates(p) == ReadForce(p) \/ Reset(p) \/ Up(p) \/ Mark(p) \/ RunMigration(p) \/ Unmark(p)
MigratePcs  == {"reset", "mark", "run", "unmark"}

OtherStep ==
    /\ UNCHANGED database
    /\ \A u \in Updates : proc'[u].pc \in MigratePcs => proc'[u] = proc[u]

LEMMA OtherSteps ==
    ASSUME TypeInv, [Next]_vars, \A p \in Updates : ~Migrates(p)
    PROVE  OtherStep
  <1>1. ASSUME NEW p \in Updates, NEW b \in Builds, NEW force \in BOOLEAN, Begin(p, b, force)
        PROVE  OtherStep
    BY <1>1, BeginStep DEF OtherStep, Others, MigratePcs
  <1>2. ASSUME NEW p \in Updates, Fetches(p)
        PROVE  OtherStep
    BY <1>2, FetchStep DEF OtherStep, Others, MigratePcs
  <1>3. ASSUME NEW p \in Updates, Complete(p) \/ Stops(p)
        PROVE  OtherStep
    BY <1>3, EndStep DEF OtherStep, Others, MigratePcs
  <1>4. CASE (\E b \in Builds : Start(b)) \/ Shutdown \/ UNCHANGED vars
    BY <1>4, ServerStep DEF OtherStep, database
  <1> QED  BY <1>1, <1>2, <1>3, <1>4 DEF Next, Migrates, Fetches

-----------------------------------------------------------------------------
(* The recorded version and the migrations that were applied.              *)

LEMMA ProgressInit == Init => ProgressInv
  BY VersionsDense DEF Init, ProgressInv, VersionTellsApplied, Reached, Idle

LEMMA ProgressNext == TypeInv /\ ProgressInv /\ [Next]_vars => ProgressInv'
  <1> SUFFICES ASSUME TypeInv, ProgressInv, [Next]_vars
               PROVE  ProgressInv'
    OBVIOUS
  <1>v. \A v \in Versions : v \in Nat  BY VersionsDense
  <1>0. applied \in [Versions -> Nat]  BY DEF TypeInv, TypeOK
  <1>1. ASSUME NEW p \in Updates, ReadForce(p)
        PROVE  ProgressInv'
    BY <1>1, ReadForceStep, StepOKNow
       DEF Others, ProgressInv, VersionTellsApplied, Reached, database
  <1>2. ASSUME NEW p \in Updates, Reset(p)
        PROVE  ProgressInv'
    <2>1. proc[p].at \in Versions /\ Reached(proc[p], applied)
      BY <1>2, ResetStep, StepOKNow DEF StepOK, ProgressInv
    <2>2. VersionTellsApplied'
      <3>0. proc[p].at \in Nat /\ version' = proc[p].at - 1  BY <1>2, <1>v, <2>1, ResetStep
      <3>1. \A v \in Versions : v <= version' => v < proc[p].at  BY <1>v, <3>0
      <3> QED  BY <1>2, <2>1, <3>1, ResetStep DEF VersionTellsApplied, Reached
    <2>3. \A u \in Updates : Reached(proc'[u], applied')
      BY <1>2, ResetStep DEF Others, ProgressInv, Reached
    <2> QED  BY <2>2, <2>3 DEF ProgressInv
  <1>3. ASSUME NEW p \in Updates, Up(p)
        PROVE  ProgressInv'
    <2>1. ~dirty => \A v \in Versions : v < version + 1 => applied[v] > 0
      BY <1>v, StepOKNow DEF ProgressInv, VersionTellsApplied
    <2> QED  BY <1>3, <2>1, UpStep DEF Others, ProgressInv, VersionTellsApplied, Reached, database
  <1>4. ASSUME NEW p \in Updates, Mark(p)
        PROVE  ProgressInv'
    BY <1>4, MarkStep, StepOKNow DEF Others, ProgressInv, VersionTellsApplied, Reached, StepOK
  <1>5. ASSUME NEW p \in Updates, RunMigration(p)
        PROVE  ProgressInv'
    <2>1. \A v \in Versions : applied[v] > 0 => applied'[v] > 0  BY <1>0, <1>5, RunStep
    <2>2. proc[p].at \in Versions  BY <1>5, RunStep, StepOKNow DEF StepOK
    <2>3. applied'[proc[p].at] > 0
      <3>1. applied'[proc[p].at] = applied[proc[p].at] + 1  BY <1>5, <2>2, RunStep
      <3>2. applied[proc[p].at] \in Nat  BY <1>0, <2>2
      <3> QED  BY <3>1, <3>2
    <2>4. VersionTellsApplied'  BY <1>5, <2>1, RunStep DEF ProgressInv, VersionTellsApplied
    <2>5. Reached(proc'[p], applied')
      <3>1. Reached(proc[p], applied)  BY DEF ProgressInv
      <3>2. \A v \in Versions : v < proc[p].at => applied'[v] > 0
        BY <1>5, <2>1, <3>1, RunStep DEF Reached
      <3>3. \A v \in Versions : v <= proc[p].at => applied'[v] > 0  BY <1>v, <2>2, <2>3, <3>2
      <3> QED  BY <1>5, <3>3, RunStep DEF Reached
    <2>6. \A u \in Updates \ {p} : Reached(proc'[u], applied')
      BY <1>5, <2>1, RunStep DEF Others, ProgressInv, Reached
    <2> QED  BY <2>4, <2>5, <2>6 DEF ProgressInv
  <1>6. ASSUME NEW p \in Updates, Unmark(p)
        PROVE  ProgressInv'
    <2>1. proc[p].at \in Versions /\ Reached(proc[p], applied)
      BY <1>6, UnmarkStep, StepOKNow DEF StepOK, ProgressInv
    <2>2. \A v \in Versions : v <= proc[p].at => applied'[v] > 0
      BY <1>6, <2>1, UnmarkStep DEF Reached
    <2>3. VersionTellsApplied'  BY <1>6, <2>2, UnmarkStep DEF VersionTellsApplied
    <2>4. Reached(proc'[p], applied')
      <3>1. \A v \in Versions : v < proc[p].at + 1 => v <= proc[p].at  BY <1>v, <2>1
      <3> QED  BY <1>6, <2>2, <3>1, UnmarkStep DEF Reached
    <2>5. \A u \in Updates \ {p} : Reached(proc'[u], applied')
      BY <1>6, UnmarkStep DEF Others, ProgressInv, Reached
    <2> QED  BY <2>3, <2>4, <2>5 DEF ProgressInv
  <1>7. CASE \A p \in Updates : ~Migrates(p)
    <2>1. UNCHANGED database /\ \A u \in Updates : proc'[u].pc \in MigratePcs => proc'[u] = proc[u]
      BY <1>7, OtherSteps DEF OtherStep
    <2>2. VersionTellsApplied'  BY <2>1 DEF ProgressInv, VersionTellsApplied, database
    <2>3. \A u \in Updates : Reached(proc'[u], applied')
      BY <2>1 DEF ProgressInv, Reached, MigratePcs, database
    <2> QED  BY <2>2, <2>3 DEF ProgressInv
  <1> QED  BY <1>1, <1>2, <1>3, <1>4, <1>5, <1>6, <1>7 DEF Migrates

\* However updates stop, are forced or overlap, the migrations up to the recorded
\* version have been applied, except for one that is marked (migrateDB).
THEOREM VersionsTellTheTruth == Spec => []VersionTellsApplied
  <1>1. ProgressInv => VersionTellsApplied  BY DEF ProgressInv
  <1> QED  BY <1>1, TypeInit, TypeNext, ProgressInit, ProgressNext, PTL DEF Spec

-----------------------------------------------------------------------------
(* Updates that do not overlap.                                            *)

LEMMA OnceInit == Init => OnceInv
  <1> SUFFICES ASSUME Init
               PROVE  OnceInv
    OBVIOUS
  <1>1. \A p \in Updates : proc[p].pc = "idle"  BY DEF Init, Idle
  <1>2. Lone /\ \A p \in Updates : RowOK(proc[p])  BY <1>1 DEF Lone, RowOK
  <1>3. Once  BY DEF Init, Once
  <1> QED  BY <1>2, <1>3 DEF OnceInv

\* A step of the update that is under way leaves it the only one.
LEMMA LoneStep ==
    ASSUME Lone, NEW p \in Updates, proc[p].pc # "idle", Others(p)
    PROVE  Lone' /\ \A u \in Updates \ {p} : proc[u].pc = "idle" /\ proc'[u].pc = "idle"
  <1>1. \A u \in Updates \ {p} : proc[u].pc = "idle" /\ proc'[u].pc = "idle"  BY DEF Lone, Others
  <1> QED  BY <1>1 DEF Lone

\* It is enough to look at the rows of that update.
LEMMA RowStep ==
    ASSUME NEW p \in Updates, \A u \in Updates \ {p} : proc'[u].pc = "idle", RowOK(proc[p])'
    PROVE  \A u \in Updates : RowOK(proc[u])'
  BY DEF RowOK

LEMMA OnceNext == TypeInv /\ OnceInv /\ [Next]_vars => OnceInv'
  <1> SUFFICES ASSUME TypeInv, OnceInv, [Next]_vars, ~overlapped'
               PROVE  Lone' /\ Once' /\ \A p \in Updates : RowOK(proc[p])'
    BY DEF OnceInv
  <1>v. \A v \in Versions : v \in Nat  BY VersionsDense
  <1>a. applied \in [Versions -> Nat] /\ version \in Nat  BY StepOKNow, VersionsDense DEF TypeInv, TypeOK
  <1>1. ASSUME NEW p \in Updates, ReadForce(p)
        PROVE  Lone' /\ Once' /\ \A u \in Updates : RowOK(proc[u])'
    <2>1. Lone /\ Once /\ RowOK(proc[p])  BY <1>1, ReadForceStep DEF OnceInv, history
    <2>2. Lone' /\ \A u \in Updates \ {p} : proc[u].pc = "idle" /\ proc'[u].pc = "idle"
      BY <1>1, <2>1, ReadForceStep, LoneStep
    <2>3. Once'  BY <1>1, <2>1, <2>2, ReadForceStep DEF Once, database, history
    <2>4. RowOK(proc[p])'  BY <1>1, ReadForceStep DEF RowOK, database
    <2> QED  BY <2>2, <2>3, <2>4, RowStep
  <1>2. ASSUME NEW p \in Updates, Reset(p)
        PROVE  Lone' /\ Once' /\ \A u \in Updates : RowOK(proc[u])'
    <2>1. Lone /\ Once /\ RowOK(proc[p])  BY <1>2, ResetStep DEF OnceInv, history
    <2>2. Lone' /\ \A u \in Updates \ {p} : proc[u].pc = "idle" /\ proc'[u].pc = "idle"
      BY <1>2, <2>1, ResetStep, LoneStep
    <2>3. /\ version' = version - 1 /\ dirty' = FALSE /\ cut' = cut /\ applied' = applied
          /\ dirty /\ \A u \in Updates : proc[u].pc # "unmark"
      BY <1>2, <2>1, <2>2, ResetStep DEF RowOK, history
    <2>4. version \notin cut => applied[version] = 0  BY <2>1, <2>3 DEF Once
    <2>5. \A v \in Versions \ cut : applied[v] <= 1 /\ (v > version => applied[v] = 0)
      BY <2>1 DEF Once
    <2>6. \A v \in Versions : v > version - 1 => v > version \/ v = version  BY <1>v, <1>a
    <2>7. \A v \in Versions \ cut : v > version - 1 => applied[v] = 0  BY <2>4, <2>5, <2>6
    <2>8. Once'  BY <2>3, <2>5, <2>7 DEF Once
    <2>9. RowOK(proc[p])'  BY <1>2, ResetStep DEF RowOK
    <2> QED  BY <2>2, <2>8, <2>9, RowStep
  <1>3. ASSUME NEW p \in Updates, Up(p)
        PROVE  Lone' /\ Once' /\ \A u \in Updates : RowOK(proc[u])'
    <2>1. Lone /\ Once /\ RowOK(proc[p])  BY <1>3, UpStep DEF OnceInv, history
    <2>2. Lone' /\ \A u \in Updates \ {p} : proc[u].pc = "idle" /\ proc'[u].pc = "idle"
      BY <1>3, <2>1, UpStep, LoneStep
    <2>3. Once'  BY <1>3, <2>1, <2>2, UpStep DEF Once, database, history
    <2>4. RowOK(proc[p])'  BY <1>3, UpStep DEF RowOK, database
    <2> QED  BY <2>2, <2>3, <2>4, RowStep
  <1>4. ASSUME NEW p \in Updates, Mark(p)
        PROVE  Lone' /\ Once' /\ \A u \in Updates : RowOK(proc[u])'
    <2>1. Lone /\ Once /\ RowOK(proc[p])  BY <1>4, MarkStep DEF OnceInv, history
    <2>2. Lone' /\ \A u \in Updates \ {p} : proc[u].pc = "idle" /\ proc'[u].pc = "idle"
      BY <1>4, <2>1, MarkStep, LoneStep
    <2>3. /\ version' = version + 1 /\ dirty' = TRUE /\ cut' = cut /\ applied' = applied
          /\ version + 1 \in Versions
      BY <1>4, <2>1, MarkStep, StepOKNow DEF RowOK, StepOK, history
    <2>4. \A v \in Versions \ cut : applied[v] <= 1 /\ (v > version => applied[v] = 0)
      BY <2>1 DEF Once
    <2>5. \A v \in Versions : v > version + 1 => v > version  BY <1>v, <1>a
    <2>6. version + 1 > version  BY <1>a
    <2>7. Once'  BY <2>3, <2>4, <2>5, <2>6 DEF Once
    <2>8. RowOK(proc[p])'  BY <1>4, MarkStep DEF RowOK
    <2> QED  BY <2>2, <2>7, <2>8, RowStep
  <1>5. ASSUME NEW p \in Updates, RunMigration(p)
        PROVE  Lone' /\ Once' /\ \A u \in Updates : RowOK(proc[u])'
    <2>1. Lone /\ Once /\ RowOK(proc[p])  BY <1>5, RunStep DEF OnceInv, history
    <2>2. Lone' /\ \A u \in Updates \ {p} : proc[u].pc = "idle" /\ proc'[u].pc = "idle"
      BY <1>5, <2>1, RunStep, LoneStep
    <2>3. /\ version' = version /\ dirty' = dirty /\ cut' = cut /\ dirty
          /\ \A u \in Updates : proc[u].pc # "unmark"
          /\ \A v \in Versions : applied'[v] = IF v = version THEN applied[v] + 1 ELSE applied[v]
          /\ proc'[p].pc = "unmark"
      BY <1>5, <2>1, <2>2, RunStep DEF RowOK, history
    <2>4. version \notin cut => applied[version] = 0  BY <2>1, <2>3 DEF Once
    <2>5. \A v \in Versions \ cut : applied[v] <= 1 /\ (v > version => applied[v] = 0)
      BY <2>1 DEF Once
    <2>6. \A v \in Versions \ cut : applied'[v] <= 1 /\ (v > version => applied'[v] = 0)
      <3> TAKE v \in Versions \ cut
      <3>1. CASE v = version  BY <1>a, <2>3, <2>4, <3>1
      <3>2. CASE v # version  BY <2>3, <2>5, <3>2
      <3> QED  BY <3>1, <3>2
    <2>7. Once'  BY <2>3, <2>6 DEF Once
    <2>8. RowOK(proc[p])'  BY <1>5, <2>1, RunStep DEF RowOK
    <2> QED  BY <2>2, <2>7, <2>8, RowStep
  <1>6. ASSUME NEW p \in Updates, Unmark(p)
        PROVE  Lone' /\ Once' /\ \A u \in Updates : RowOK(proc[u])'
    <2>1. Lone /\ Once /\ RowOK(proc[p])  BY <1>6, UnmarkStep DEF OnceInv, history
    <2>2. Lone' /\ \A u \in Updates \ {p} : proc[u].pc = "idle" /\ proc'[u].pc = "idle"
      BY <1>6, <2>1, UnmarkStep, LoneStep
    <2>3. version' = version /\ dirty' = FALSE /\ cut' = cut /\ applied' = applied
      BY <1>6, <2>1, UnmarkStep DEF RowOK, history
    <2>4. Once'  BY <2>1, <2>3 DEF Once
    <2>5. RowOK(proc[p])'  BY <1>6, <2>1, UnmarkStep DEF RowOK
    <2> QED  BY <2>2, <2>4, <2>5, RowStep
  <1>7. ASSUME NEW p \in Updates, NEW b \in Builds, NEW force \in BOOLEAN, Begin(p, b, force)
        PROVE  Lone' /\ Once' /\ \A u \in Updates : RowOK(proc[u])'
    <2>1. Once /\ \A u \in Updates : proc[u].pc = "idle"  BY <1>7, BeginStep DEF OnceInv
    <2>2. /\ \A u \in Updates \ {p} : proc'[u].pc = "idle"
          /\ proc'[p].pc \in {"force", "up"}
          /\ version' = version /\ dirty' = dirty /\ cut' = cut /\ applied' = applied
      BY <1>7, <2>1, BeginStep DEF Others, database
    <2>3. Once'  BY <2>1, <2>2 DEF Once
    <2>4. Lone' /\ RowOK(proc[p])'  BY <2>2 DEF Lone, RowOK
    <2> QED  BY <2>2, <2>3, <2>4, RowStep
  <1>8. ASSUME NEW p \in Updates, Fetches(p)
        PROVE  Lone' /\ Once' /\ \A u \in Updates : RowOK(proc[u])'
    <2>1. Lone /\ Once  BY <1>8, FetchStep DEF OnceInv, history
    <2>2. Lone' /\ \A u \in Updates \ {p} : proc[u].pc = "idle" /\ proc'[u].pc = "idle"
      BY <1>8, <2>1, FetchStep, LoneStep
    <2>3. Once'  BY <1>8, <2>1, <2>2, FetchStep DEF Once, database, history
    <2>4. RowOK(proc[p])'  BY <1>8, FetchStep DEF RowOK
    <2> QED  BY <2>2, <2>3, <2>4, RowStep
  <1>9. ASSUME NEW p \in Updates, Complete(p) \/ Stops(p)
        PROVE  Lone' /\ Once' /\ \A u \in Updates : RowOK(proc[u])'
    <2>1. Lone /\ Once /\ RowOK(proc[p])  BY <1>9, EndStep DEF OnceInv
    <2>2. Lone' /\ \A u \in Updates \ {p} : proc[u].pc = "idle" /\ proc'[u].pc = "idle"
      BY <1>9, <2>1, EndStep, LoneStep
    <2>3. version' = version /\ dirty' = dirty /\ applied' = applied /\ proc'[p].pc = "idle"
      BY <1>9, EndStep DEF database
    <2>4. cut \subseteq cut' /\ (proc[p].pc = "unmark" => version \in cut')
      BY <1>9, <2>1 DEF Complete, Stops, At, RowOK
    <2>5. dirty /\ version \notin cut' => applied[version] = 0
      BY <2>1, <2>2, <2>4 DEF Once
    <2>6. Once'  BY <2>1, <2>3, <2>4, <2>5 DEF Once
    <2>7. RowOK(proc[p])'  BY <2>3 DEF RowOK
    <2> QED  BY <2>2, <2>6, <2>7, RowStep
  <1>10. CASE (\E b \in Builds : Start(b)) \/ Shutdown \/ UNCHANGED vars
    <2>1. Lone /\ Once /\ \A u \in Updates : RowOK(proc[u])  BY <1>10, ServerStep DEF OnceInv
    <2> QED  BY <1>10, <2>1, ServerStep DEF Lone, Once, RowOK
  <1> QED  BY <1>1, <1>2, <1>3, <1>4, <1>5, <1>6, <1>7, <1>8, <1>9, <1>10 DEF Next, Fetches

\* Of updates that do not overlap, whether they fail, are killed or forced, none
\* applies a migration again but one whose mark stayed after it was committed (migrateDB).
THEOREM AppliedOnlyOnce == Spec => []AppliedOnce
  <1>1. OnceInv => AppliedOnce  BY DEF OnceInv, Once, AppliedOnce
  <1> QED  BY <1>1, TypeInit, TypeNext, OnceInit, OnceNext, PTL DEF Spec

-----------------------------------------------------------------------------
(* The server.                                                             *)

LEMMA ServerInit == Init => ServerInv
  BY DEF Init, Off, ServerInv

LEMMA ServerNext == TypeInv /\ ServerInv /\ [Next]_vars => ServerInv'
  <1> SUFFICES ASSUME TypeInv, ServerInv, [Next]_vars
               PROVE  ServerInv'
    OBVIOUS
  <1>1. ASSUME NEW p \in Updates, Migrates(p) \/ Fetches(p) \/ Complete(p) \/ Stops(p)
        PROVE  ServerInv'
    <2>1. proc[p].pc # "idle" /\ UNCHANGED server
      BY <1>1, ReadForceStep, ResetStep, UpStep, MarkStep, RunStep, UnmarkStep, FetchStep, EndStep
         DEF Migrates
    <2> QED  BY <2>1 DEF ServerInv
  <1>2. ASSUME NEW p \in Updates, NEW b \in Builds, NEW force \in BOOLEAN, Begin(p, b, force)
        PROVE  ServerInv'
    BY <1>2, BeginStep DEF ServerInv, TypeInv, TypeOK
  <1>3. ASSUME NEW b \in Builds, Start(b)
        PROVE  ServerInv'
    BY <1>3 DEF Start, ServerInv, UnderWay, database
  <1>4. CASE Shutdown
    BY <1>4 DEF Shutdown, ServerInv, Off
  <1>5. CASE UNCHANGED vars
    BY <1>5 DEF ServerInv, vars
  <1> QED  BY <1>1, <1>2, <1>3, <1>4, <1>5 DEF Next, Migrates, Fetches

\* A server no update has disturbed runs on exactly the migrations of its build,
\* unless updates have overlapped or were cut off between a commit and its mark (guardSchema).
THEOREM ServersKnowTheirSchema == Spec => []ServesOwnSchema
  <1>1. TypeInv /\ ProgressInv /\ OnceInv /\ ServerInv => ServesOwnSchema
    <2> SUFFICES ASSUME TypeInv, ProgressInv, OnceInv, ServerInv,
                        server.quiet, ~overlapped, cut = {}, NEW v \in Versions
                 PROVE  applied[v] > 0 <=> v <= Latest(server.build)
      BY DEF ServesOwnSchema
    <2>1. version = Latest(server.build) /\ ~dirty  BY DEF ServerInv
    <2>2. v <= version => applied[v] > 0  BY <2>1 DEF ProgressInv, VersionTellsApplied
    <2>3. v > version => applied[v] = 0  BY DEF OnceInv, Once
    <2>4. v \in Nat /\ version \in Nat /\ applied[v] \in Nat
      BY VersionsDense DEF TypeInv, TypeOK
    <2> QED  BY <2>1, <2>2, <2>3, <2>4
  <1> QED  BY <1>1, TypeInit, TypeNext, ProgressInit, ProgressNext, OnceInit, OnceNext,
              ServerInit, ServerNext, PTL DEF Spec

-----------------------------------------------------------------------------
(* Files that updates fetched.                                             *)

LEMMA PinInit == Init => PinInv
  <1> SUFFICES ASSUME Init
               PROVE  PinInv
    OBVIOUS
  <1>1. \A p \in Updates : FetchedOK(proc[p])  BY DEF Init, Idle, FetchedOK
  <1>2. SentinelOK  BY DEF Init, SentinelOK, Pinned
  <1>3. DoneOK /\ KnowledgeOK  BY DEF Init, DoneOK, KnowledgeOK, Off
  <1> QED  BY <1>1, <1>2, <1>3 DEF PinInv

LEMMA ReleasesOK == Releases \subseteq Nat
  BY BuildsOK DEF Releases

LEMMA PinNext == TypeInv /\ OnceInv /\ PinInv /\ [Next]_vars => PinInv'
  <1> DEFINE Goal == SentinelOK' /\ DoneOK' /\ KnowledgeOK' /\ \A u \in Updates : FetchedOK(proc[u])'
  <1> SUFFICES ASSUME TypeInv, OnceInv, PinInv, [Next]_vars, ~overlapped', ~rolledBack'
               PROVE  Goal
    BY DEF PinInv
  <1>t. sentinel \in Nat /\ newest \in Nat  BY ReleasesOK DEF TypeInv, TypeOK
  \* It is enough to look at the update that acts.
  <1>s. ASSUME NEW p \in Updates, proc[p].pc # "idle", Others(p), Lone, FetchedOK(proc[p])'
        PROVE  \A u \in Updates : FetchedOK(proc[u])'
    <2>1. \A u \in Updates \ {p} : proc'[u].pc = "idle"  BY <1>s, LoneStep
    <2> QED  BY <1>s, <2>1 DEF FetchedOK
  <1>1. ASSUME NEW p \in Updates, Migrates(p)
        PROVE  Goal
    <2>1. /\ proc[p].pc \in {"force", "reset", "up", "mark", "run", "unmark"} /\ Others(p)
          /\ UNCHANGED <<external, server, history>>
          /\ proc'[p].pc \in {"reset", "up", "mark", "run", "unmark", "mitre", "idle"}
          /\ proc'[p].pc # "idle" => proc'[p].build = proc[p].build
      BY <1>1, ReadForceStep, ResetStep, UpStep, MarkStep, RunStep, UnmarkStep DEF Migrates
    <2>2. /\ SentinelOK /\ DoneOK /\ KnowledgeOK /\ Lone
          /\ \A u \in Updates : FetchedOK(proc[u])
      BY <2>1 DEF history, PinInv, OnceInv
    <2>3. done = NoBuild  BY <2>1, <2>2 DEF DoneOK
    <2>4. SentinelOK' /\ DoneOK' /\ KnowledgeOK'
      BY <2>1, <2>2, <2>3 DEF external, history, SentinelOK, DoneOK, KnowledgeOK, Pinned
    <2>5. FetchedOK(proc[p])'  BY <2>1, <2>2 DEF history, FetchedOK
    <2> QED  BY <1>s, <2>1, <2>2, <2>4, <2>5
  <1>2. ASSUME NEW p \in Updates, NEW b \in Builds, NEW force \in BOOLEAN, Begin(p, b, force)
        PROVE  Goal
    <2>1. /\ SentinelOK /\ KnowledgeOK /\ \A u \in Updates : proc[u].pc = "idle"
          /\ ~(Release(b) < newest)
      BY <1>2, BeginStep DEF PinInv
    <2>2. Release(b) \in Nat /\ newest' = Release(b)  BY <1>2, <1>t, <2>1, BeginStep, BuildsOK
    <2>3. sentinel <= newest' /\ (sentinel = newest' => newest' = newest)
      BY <1>t, <2>1, <2>2 DEF SentinelOK
    <2>4. sentinel' = sentinel /\ matrix' = matrix  BY <1>2, BeginStep DEF external
    <2>5. SentinelOK'  BY <2>1, <2>3, <2>4 DEF SentinelOK, Pinned
    <2>6. DoneOK'  BY <1>2, BeginStep DEF DoneOK
    <2>7. KnowledgeOK'  BY <1>2, <2>1, BeginStep DEF KnowledgeOK, TypeInv, TypeOK
    <2>8. \A u \in Updates \ {p} : proc'[u].pc = "idle"  BY <1>2, <2>1, BeginStep DEF Others
    <2>9. FetchedOK(proc[p])'  BY <1>2, <2>2, BeginStep DEF FetchedOK
    <2>10. \A u \in Updates : FetchedOK(proc[u])'  BY <2>8, <2>9 DEF FetchedOK
    <2> QED  BY <2>5, <2>6, <2>7, <2>10
  <1>3. ASSUME NEW p \in Updates, Fetches(p)
        PROVE  Goal
    <2>1. /\ SentinelOK /\ DoneOK /\ KnowledgeOK /\ Lone /\ FetchedOK(proc[p])
          /\ proc[p].pc # "idle" /\ Others(p) /\ proc'[p].build = proc[p].build
          /\ UNCHANGED <<server, history>>
      BY <1>3, FetchStep DEF history, PinInv, OnceInv
    <2>2. /\ newest' = newest /\ done' = NoBuild /\ Release(proc[p].build) = newest
          /\ DoneOK' /\ KnowledgeOK'
      BY <2>1 DEF history, DoneOK, KnowledgeOK, FetchedOK
    <2>3. proc[p] \in Update /\ StepOK(proc[p]) /\ matrix \in [Files -> Releases]
          /\ assets \in [AllTrees -> {"none", "part", "whole"}]
      BY StepOKNow DEF TypeInv, TypeOK
    <2>4. CASE UpdateMitre(p)
      <3>1. UNCHANGED external  BY <2>4 DEF UpdateMitre
      <3>2. \/ /\ MitreCurrent(proc[p].build)
               /\ proc'[p].pc = "assets" /\ proc'[p].todo = proc'[p].trees
            \/ proc'[p].pc = "fetch" /\ proc'[p].todo = Files
        BY <2>1, <2>4, FetchAssetsType DEF UpdateMitre, TypeInv, TypeOK
      <3>3. SentinelOK'  BY <2>1, <2>2, <3>1 DEF SentinelOK, Pinned, external
      <3>4. MitreCurrent(proc[p].build) => Pinned'
        BY <2>1, <2>2, <3>1 DEF MitreCurrent, SentinelOK, Pinned, external
      <3>5. FetchedOK(proc[p])'  BY <2>1, <2>2, <3>2, <3>4 DEF FetchedOK
      <3> QED  BY <1>s, <2>1, <2>2, <3>3, <3>5
    <2>5. CASE Download(p)
      <3>0. PICK f \in proc[p].todo :
              /\ matrix' = [matrix EXCEPT ![f] = Release(proc[p].build)]
              /\ proc' = [proc EXCEPT ![p].todo = @ \ {f}]
        BY <2>5 DEF Download
      <3>1. proc[p].pc = "fetch" /\ UNCHANGED <<sentinel, assets>>  BY <2>5 DEF Download, At
      <3>2. proc'[p].pc = "fetch" /\ proc'[p].todo = proc[p].todo \ {f}
        BY <3>0, <3>1 DEF TypeInv, TypeOK
      <3>3. \A g \in Files : matrix'[g] = IF g = f THEN newest ELSE matrix[g]
        BY <2>2, <2>3, <3>0
      <3>4. SentinelOK'  BY <2>1, <2>2, <3>1, <3>3 DEF SentinelOK, Pinned
      <3>5. FetchedOK(proc[p])'  BY <2>1, <2>2, <3>1, <3>2, <3>3 DEF FetchedOK
      <3> QED  BY <1>s, <2>1, <2>2, <3>4, <3>5
    <2>6. CASE WriteSentinel(p)
      <3>1. /\ proc[p].pc = "fetch" /\ proc[p].todo = {} /\ UNCHANGED <<matrix, assets>>
            /\ sentinel' = newest /\ proc'[p].pc = "assets" /\ proc'[p].todo = proc'[p].trees
        BY <2>1, <2>2, <2>6, FetchAssetsType DEF WriteSentinel, At
      <3>2. Pinned'  BY <2>1, <2>2, <3>1 DEF FetchedOK, Pinned
      <3>3. SentinelOK'  BY <1>t, <2>2, <3>1, <3>2 DEF SentinelOK
      <3>4. FetchedOK(proc[p])'  BY <2>1, <2>2, <3>1, <3>2 DEF FetchedOK
      <3> QED  BY <1>s, <2>1, <2>2, <3>3, <3>4
    <2>7. CASE RemoveAssets(p)
      <3>0. PICK m \in proc[p].todo :
              /\ assets' = [assets EXCEPT ![m] = "part"]
              /\ proc' = [proc EXCEPT ![p].pc = "extract", ![p].todo = @ \ {m}, ![p].tree = m]
        BY <2>7 DEF RemoveAssets
      <3>1. /\ assets' = [assets EXCEPT ![m] = "part"]
            /\ proc'[p].pc = "extract" /\ proc'[p].todo = proc[p].todo \ {m}
            /\ proc'[p].trees = proc[p].trees
            /\ proc'[p].tree = m
        BY <3>0 DEF TypeInv, TypeOK
      <3>2. proc[p].pc = "assets" /\ UNCHANGED <<sentinel, matrix>>  BY <2>7 DEF RemoveAssets, At
      <3>3. SentinelOK' /\ Pinned'  BY <2>1, <2>2, <3>2 DEF SentinelOK, Pinned, FetchedOK
      <3>4. \A n \in AllTrees \ {m} : assets'[n] = assets[n]  BY <2>3, <3>1
      <3>5. FetchedOK(proc[p])'
        BY <2>1, <2>2, <2>3, <3>1, <3>2, <3>3, <3>4 DEF FetchedOK, Update
      <3> QED  BY <1>s, <2>1, <2>2, <3>3, <3>5
    <2>8. CASE ExtractAssets(p)
      <3>1. /\ proc[p].pc = "extract" /\ UNCHANGED <<sentinel, matrix>>
            /\ assets' = [assets EXCEPT ![proc[p].tree] = "whole"]
            /\ proc'[p].pc = "assets" /\ proc'[p].todo = proc[p].todo
            /\ proc'[p].trees = proc[p].trees
        BY <2>8 DEF ExtractAssets, At, TypeInv, TypeOK
      <3>2. SentinelOK' /\ Pinned'  BY <2>1, <2>2, <3>1 DEF SentinelOK, Pinned, FetchedOK
      <3>3. \A n \in AllTrees : assets'[n] = IF n = proc[p].tree THEN "whole" ELSE assets[n]
        BY <2>3, <3>1
      <3>4. FetchedOK(proc[p])'  BY <2>1, <2>2, <2>3, <3>1, <3>2, <3>3 DEF FetchedOK, Update
      <3> QED  BY <1>s, <2>1, <2>2, <3>2, <3>4
    <2> QED  BY <1>3, <2>4, <2>5, <2>6, <2>7, <2>8 DEF Fetches
  <1>4. ASSUME NEW p \in Updates, Complete(p) \/ Stops(p)
        PROVE  Goal
    <2>1. /\ SentinelOK /\ DoneOK /\ KnowledgeOK /\ Lone /\ FetchedOK(proc[p])
          /\ proc[p].pc # "idle" /\ Others(p) /\ proc'[p].pc = "idle"
          /\ UNCHANGED <<matrix, assets, server, newest>>
      BY <1>4, EndStep DEF PinInv, OnceInv
    <2>2. proc[p].build \in Builds /\ Release(proc[p].build) = newest /\ done = NoBuild
      BY <2>1, StepOKNow DEF StepOK, FetchedOK, DoneOK
    <2>3. sentinel' \in {sentinel, 0}  BY <1>4 DEF Complete, Stops, external
    <2>4. newest # 0  BY <2>2, BuildsOK
    <2>5. SentinelOK'  BY <1>t, <2>1, <2>3, <2>4 DEF SentinelOK, Pinned
    <2>6. KnowledgeOK'  BY <2>1 DEF KnowledgeOK
    <2>7. \A u \in Updates : proc'[u].pc = "idle"  BY <2>1, LoneStep
    <2>8. \A u \in Updates : FetchedOK(proc[u])'  BY <2>7 DEF FetchedOK
    <2>9. CASE Complete(p)
      <3>1. /\ proc[p].pc = "assets" /\ proc[p].todo = {}
            /\ done' \in {proc[p].build, NoBuild}
            /\ done' # NoBuild => fetched' = proc[p].trees
        BY <2>9 DEF Complete, At
      <3>2. Pinned' /\ \A t \in proc[p].trees : assets'[t] = "whole"
        BY <2>1, <3>1 DEF FetchedOK, Pinned
      <3>3. DoneOK'  BY <2>1, <2>2, <2>7, <3>1, <3>2 DEF DoneOK
      <3> QED  BY <2>5, <2>6, <2>8, <3>3
    <2>10. CASE Stops(p)
      <3>1. DoneOK'  BY <2>2, <2>10 DEF Stops, DoneOK
      <3> QED  BY <2>5, <2>6, <2>8, <3>1
    <2> QED  BY <1>4, <2>9, <2>10
  <1>5. CASE (\E b \in Builds : Start(b)) \/ Shutdown \/ UNCHANGED vars
    <2>1. /\ SentinelOK /\ DoneOK /\ KnowledgeOK
          /\ \A u \in Updates : FetchedOK(proc[u])
      BY <1>5, ServerStep DEF PinInv
    <2>2. SentinelOK' /\ DoneOK' /\ \A u \in Updates : FetchedOK(proc[u])'
      BY <1>5, <2>1, ServerStep DEF SentinelOK, DoneOK, FetchedOK, Pinned
    <2>3. ASSUME NEW b \in Builds, Start(b)
          PROVE  KnowledgeOK'
      <3>1. /\ server'.build = b /\ server'.kb = {matrix[f] : f \in Files}
            /\ server'.prepared = (done = b)
        BY <2>3 DEF Start
      <3>2. CASE done = b
        <4>1. \A f \in Files : matrix[f] = Release(b)
          BY <2>1, <3>2, UpdateAssumption DEF DoneOK, Pinned
        <4>2. {matrix[f] : f \in Files} = {Release(b)}  BY <4>1, UpdateAssumption
        <4> QED  BY <3>1, <4>2 DEF KnowledgeOK
      <3>3. CASE done # b
        BY <3>1, <3>3 DEF KnowledgeOK
      <3> QED  BY <3>2, <3>3
    <2>4. ASSUME Shutdown
          PROVE  KnowledgeOK'
      BY <2>4 DEF Shutdown, Off, KnowledgeOK
    <2>5. ASSUME UNCHANGED vars
          PROVE  KnowledgeOK'
      BY <2>1, <2>5 DEF vars, KnowledgeOK
    <2> QED  BY <1>5, <2>2, <2>3, <2>4, <2>5
  <1> HIDE DEF Goal
  <1> QED  BY <1>1, <1>2, <1>3, <1>4, <1>5 DEF Next, Migrates, Fetches

\* After a complete update of its build a server has the ATT&CK release that build pins,
\* and the modules their whole rules, whatever was interrupted before, unless updates
\* have overlapped or an older release was gone back to (updateMitre).
THEOREM CompleteUpdatesDo == Spec => []CompleteUpdatesPin
  <1>1. PinInv => CompleteUpdatesPin  BY DEF PinInv, DoneOK, KnowledgeOK, CompleteUpdatesPin
  <1> QED  BY <1>1, TypeInit, TypeNext, OnceInit, OnceNext, PinInit, PinNext, PTL DEF Spec
=============================================================================
