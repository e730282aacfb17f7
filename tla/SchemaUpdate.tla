----------------------------- MODULE SchemaUpdate -----------------------------
(***************************************************************************)
(* `dagobert update` and what it prepares for the server: the migrations   *)
(* of the database (internal/cli/migrate.go, internal/model/migrate.go),   *)
(* the MITRE ATT&CK files (internal/cli/mitre.go) and the rules of the     *)
(* analysis modules (UpdateAssets), under updates that stop half way, that *)
(* are forced, that run at once, and that belong to different builds.      *)
(*                                                                         *)
(* golang-migrate keeps one row (version, dirty): before a migration it is *)
(* marked dirty, the migration runs in a transaction of its own, and then  *)
(* the mark goes.  Its lock does not reach other processes.                *)
(***************************************************************************)
EXTENDS Naturals, FiniteSets

CONSTANTS
    Builds,      \* builds of dagobert on this instance
    Latest(_),   \* the newest migration embedded in a build
    Release(_),  \* the ATT&CK release a build pins
    Versions,    \* the migrations any build has, 1 .. n
    Files,       \* the ATT&CK matrices
    Modules,     \* modules that fetch assets
    Trees(_),    \* the directories and files a module puts in place, one by one
    Updates,     \* processes that run `dagobert update`
    NoBuild, NoTree,
    MaxBegun,    \* bound on updates
    MaxStarts    \* bound on starts of the server

AllTrees == UNION {Trees(m) : m \in Modules}

ASSUME UpdateAssumption ==
    /\ \A v \in Versions : v \in Nat \ {0} /\ 1 .. v \subseteq Versions
    /\ \A b \in Builds : Latest(b) \in Versions /\ Release(b) \in Nat \ {0}
    /\ NoBuild \notin Builds /\ NoTree \notin AllTrees /\ Files # {}
    /\ MaxBegun \in Nat /\ MaxStarts \in Nat

VARIABLES
    version, dirty,  \* the row of schema_migrations; version 0: no row
    applied,         \* how often each migration was committed
    matrix,          \* the release of each ATT&CK file; 0: no file
    sentinel,        \* what external/mitre/.version says; 0: nothing
    assets,          \* the modules' directories and files on disk
    proc,            \* the updates under way
    server,          \* the server: the build, and what it has loaded
    \* history
    done,            \* the build whose update was the last to complete, since when none began
    fetched,         \* what the modules of that update have put in place
    overlapped,      \* two updates have run at once
    cut,             \* migrations that were committed and whose mark did not go
    newest,          \* the newest release an update was begun for
    rolledBack,      \* an update was run with a build that pins an older one
    begun, starts

vars == <<version, dirty, applied, matrix, sentinel, assets, proc, server,
          done, fetched, overlapped, cut, newest, rolledBack, begun, starts>>

Steps == {"idle", "force", "reset", "up", "mark", "run", "unmark",
          "mitre", "fetch", "assets", "extract"}
Idle  == [pc |-> "idle", build |-> NoBuild, force |-> FALSE, at |-> 0,
          trees |-> {}, todo |-> {}, tree |-> NoTree]
Off   == [build |-> NoBuild, kb |-> {}, prepared |-> FALSE, quiet |-> FALSE]

Releases == {0} \cup {Release(b) : b \in Builds}

TypeOK ==
    /\ version \in Versions \cup {0} /\ dirty \in BOOLEAN
    /\ dirty => version # 0
    /\ applied \in [Versions -> Nat]
    /\ matrix \in [Files -> Releases] /\ sentinel \in Releases
    /\ assets \in [AllTrees -> {"none", "part", "whole"}]
    /\ proc \in [Updates -> [pc : Steps, build : Builds \cup {NoBuild}, force : BOOLEAN,
                             at : Versions \cup {0}, trees : SUBSET AllTrees,
                             todo : SUBSET (Files \cup AllTrees),
                             tree : AllTrees \cup {NoTree}]]
    /\ server \in [build : Builds \cup {NoBuild}, kb : SUBSET Releases,
                   prepared : BOOLEAN, quiet : BOOLEAN]
    /\ done \in Builds \cup {NoBuild} /\ fetched \subseteq AllTrees
    /\ overlapped \in BOOLEAN /\ rolledBack \in BOOLEAN
    /\ cut \subseteq Versions /\ newest \in Nat /\ begun \in Nat /\ starts \in Nat

Init ==
    /\ version = 0 /\ dirty = FALSE /\ applied = [v \in Versions |-> 0]
    /\ matrix = [f \in Files |-> 0] /\ sentinel = 0
    /\ assets = [t \in AllTrees |-> "none"]
    /\ proc = [p \in Updates |-> Idle]
    /\ server = Off
    /\ done = NoBuild /\ fetched = {} /\ overlapped = FALSE /\ cut = {}
    /\ newest = 0 /\ rolledBack = FALSE
    /\ begun = 0 /\ starts = 0

-----------------------------------------------------------------------------
UnderWay == {p \in Updates : proc[p].pc # "idle"}

At(p, pc)   == proc[p].pc = pc
Goto(p, pc) == proc' = [proc EXCEPT ![p].pc = pc]
End(p)      == proc' = [proc EXCEPT ![p] = Idle]

\* What golang-migrate's SetVersion writes.
SetVersion(v, d) == version' = v /\ dirty' = d

database == <<version, dirty, applied>>
external == <<matrix, sentinel, assets>>
history  == <<done, fetched, overlapped, cut, newest, rolledBack, begun, starts>>

\* Update begins; with --force the state of the database comes first.
Begin(p, b, force) ==
    /\ At(p, "idle")
    /\ begun < MaxBegun /\ begun' = begun + 1
    /\ proc' = [proc EXCEPT ![p] = [Idle EXCEPT !.pc = IF force THEN "force" ELSE "up",
                                                !.build = b, !.force = force]]
    /\ done' = NoBuild /\ fetched' = {}
    /\ overlapped' = (overlapped \/ UnderWay # {})
    /\ newest' = IF Release(b) > newest THEN Release(b) ELSE newest
    /\ rolledBack' = (rolledBack \/ Release(b) < newest)
    /\ server' = [server EXCEPT !.quiet = FALSE]
    /\ UNCHANGED <<database, external, cut, starts>>

\* Wrong variant: --force goes back whether or not the database is dirty.
ReadForceOnly(p) ==
    /\ At(p, "force")
    /\ proc' = [proc EXCEPT ![p].pc = IF version # 0 THEN "reset" ELSE "up",
                            ![p].at = version]
    /\ UNCHANGED <<database, external, server, history>>

\* --force looks whether a migration was left dirty ...
ReadForce(p) ==
    /\ At(p, "force")
    /\ proc' = [proc EXCEPT ![p].pc = IF dirty THEN "reset" ELSE "up",
                            ![p].at = IF dirty THEN version ELSE 0]
    /\ UNCHANGED <<database, external, server, history>>

\* Wrong variant: the dirty migration is taken as done.
ResetToFailed(p) ==
    /\ At(p, "reset")
    /\ SetVersion(proc[p].at, FALSE)
    /\ Goto(p, "up")
    /\ UNCHANGED <<applied, external, server, history>>

\* ... and goes back to the one before it, which for the first is no row at all.
Reset(p) ==
    /\ At(p, "reset")
    /\ SetVersion(proc[p].at - 1, FALSE)
    /\ Goto(p, "up")
    /\ UNCHANGED <<applied, external, server, history>>

\* m.Up reads the row once.  It refuses a dirty database and one whose version
\* the build has no file for.
Up(p) ==
    LET latest == Latest(proc[p].build)
    IN  /\ At(p, "up")
        /\ \/ (dirty \/ version > latest) /\ End(p)
           \/ ~dirty /\ version = latest /\ proc' = [proc EXCEPT ![p].pc = "mitre", ![p].at = 0]
           \/ /\ ~dirty /\ version < latest
              /\ proc' = [proc EXCEPT ![p].pc = "mark", ![p].at = version + 1]
        /\ UNCHANGED <<database, external, server, history>>

Mark(p) ==
    /\ At(p, "mark")
    /\ SetVersion(proc[p].at, TRUE)
    /\ Goto(p, "run")
    /\ UNCHANGED <<applied, external, server, history>>

\* The transaction of one migration; one that has been applied may succeed again
\* (INSERT, UPDATE) or not (ALTER TABLE).
RunMigration(p) ==
    /\ At(p, "run")
    /\ applied' = [applied EXCEPT ![proc[p].at] = @ + 1]
    /\ Goto(p, "unmark")
    /\ UNCHANGED <<version, dirty, external, server, history>>

Unmark(p) ==
    LET v == proc[p].at
    IN  /\ At(p, "unmark")
        /\ SetVersion(v, FALSE)
        /\ proc' = IF v < Latest(proc[p].build)
                   THEN [proc EXCEPT ![p].pc = "mark", ![p].at = v + 1]
                   ELSE [proc EXCEPT ![p].pc = "mitre", ![p].at = 0]
        /\ UNCHANGED <<applied, external, server, history>>

-----------------------------------------------------------------------------
(* updateMitre, UpdateAssets.                                               *)

MitreCurrent(b) == sentinel = Release(b) /\ \A f \in Files : matrix[f] # 0

\* UpdateAssets asks every module; one whose variable is not set fetches nothing.
FetchAssets(p) ==
    \E mods \in SUBSET Modules :
        LET trees == UNION {Trees(m) : m \in mods}
        IN  proc' = [proc EXCEPT ![p].pc = "assets", ![p].trees = trees, ![p].todo = trees]

UpdateMitre(p) ==
    /\ At(p, "mitre")
    /\ IF ~proc[p].force /\ MitreCurrent(proc[p].build)
       THEN FetchAssets(p)
       ELSE proc' = [proc EXCEPT ![p].pc = "fetch", ![p].todo = Files, ![p].force = FALSE]
    /\ UNCHANGED <<database, external, server, history>>

\* One download, renamed into place when it is whole.  (The order of the files
\* is the code's and makes no difference.)
Download(p) ==
    /\ At(p, "fetch")
    /\ \E f \in proc[p].todo :
         /\ matrix' = [matrix EXCEPT ![f] = Release(proc[p].build)]
         /\ proc' = [proc EXCEPT ![p].todo = @ \ {f}]
    /\ UNCHANGED <<database, sentinel, assets, server, history>>

\* Wrong variant: the sentinel does not wait for the downloads.
WriteSentinelFirst(p) ==
    /\ At(p, "fetch")
    /\ sentinel' = Release(proc[p].build)
    /\ IF proc[p].todo = {} THEN FetchAssets(p) ELSE UNCHANGED proc
    /\ UNCHANGED <<database, matrix, assets, server, history>>

\* When all have been fetched the sentinel says so.
WriteSentinel(p) ==
    /\ At(p, "fetch") /\ proc[p].todo = {}
    /\ sentinel' = Release(proc[p].build)
    /\ FetchAssets(p)
    /\ UNCHANGED <<database, matrix, assets, server, history>>

\* The next directory is removed, then filled from the archive; a single file is
\* truncated and written.  (The order is the code's and makes no difference.)
RemoveAssets(p) ==
    /\ At(p, "assets")
    /\ \E t \in proc[p].todo :
         /\ assets' = [assets EXCEPT ![t] = "part"]
         /\ proc' = [proc EXCEPT ![p].pc = "extract", ![p].todo = @ \ {t},
                                 ![p].tree = t]
    /\ UNCHANGED <<database, matrix, sentinel, server, history>>

ExtractAssets(p) ==
    /\ At(p, "extract")
    /\ assets' = [assets EXCEPT ![proc[p].tree] = "whole"]
    /\ proc' = [proc EXCEPT ![p].pc = "assets", ![p].tree = NoTree]
    /\ UNCHANGED <<database, matrix, sentinel, server, history>>

Complete(p) ==
    /\ At(p, "assets") /\ proc[p].todo = {}
    /\ done' = IF UnderWay = {p} THEN proc[p].build ELSE NoBuild
    /\ fetched' = IF UnderWay = {p} THEN proc[p].trees ELSE {}
    /\ End(p)
    /\ UNCHANGED <<database, external, server, overlapped, cut, newest, rolledBack, begun, starts>>

\* A statement, a migration or a download fails, or the process is killed.  A
\* sentinel that was being written may be left empty.
Stops(p) ==
    /\ p \in UnderWay
    /\ End(p)
    /\ cut' = IF At(p, "unmark") THEN cut \cup {proc[p].at} ELSE cut
    /\ sentinel' \in {sentinel} \cup (IF At(p, "fetch") /\ proc[p].todo = {} THEN {0} ELSE {})
    /\ UNCHANGED <<database, matrix, assets, server, done, fetched, overlapped, newest, rolledBack,
                   begun, starts>>

-----------------------------------------------------------------------------
(* The server.                                                              *)

\* Wrong variant: the dirty flag is not looked at.
StartUnlessBehind(b) ==
    /\ server.build = NoBuild
    /\ starts < MaxStarts /\ starts' = starts + 1
    /\ version = Latest(b)
    /\ \A f \in Files : matrix[f] # 0
    /\ server' = [build |-> b, kb |-> {matrix[f] : f \in Files},
                  prepared |-> done = b, quiet |-> UnderWay = {}]
    /\ UNCHANGED <<database, external, proc, done, fetched, overlapped, cut, newest, rolledBack, begun>>

\* guardSchema, guardMitre and LoadKB; a server that is refused changes nothing.
\* It runs until it is stopped, whatever updates do meanwhile.
Start(b) ==
    /\ server.build = NoBuild
    /\ starts < MaxStarts /\ starts' = starts + 1
    /\ ~dirty /\ version = Latest(b)
    /\ \A f \in Files : matrix[f] # 0
    /\ server' = [build |-> b, kb |-> {matrix[f] : f \in Files},
                  prepared |-> done = b, quiet |-> UnderWay = {}]
    /\ UNCHANGED <<database, external, proc, done, fetched, overlapped, cut, newest, rolledBack, begun>>

Shutdown ==
    /\ server.build # NoBuild
    /\ server' = Off
    /\ UNCHANGED <<database, external, proc, history>>

Next ==
    \/ \E p \in Updates :
         \/ \E b \in Builds, force \in BOOLEAN : Begin(p, b, force)
         \/ ReadForce(p) \/ Reset(p) \/ Up(p)
         \/ Mark(p) \/ RunMigration(p) \/ Unmark(p)
         \/ UpdateMitre(p) \/ Download(p) \/ WriteSentinel(p)
         \/ RemoveAssets(p) \/ ExtractAssets(p) \/ Complete(p) \/ Stops(p)
    \/ \E b \in Builds : Start(b)
    \/ Shutdown

Spec == Init /\ [][Next]_vars

-----------------------------------------------------------------------------
(* Properties.                                                              *)

\* Whatever stops, is forced or runs at once: the migrations up to the recorded
\* version have been applied, except for one that is marked (migrateDB).
VersionTellsApplied ==
    \A v \in Versions : (IF dirty THEN v < version ELSE v <= version) => applied[v] > 0

\* While updates do not overlap no migration is applied a second time, --force or
\* not, unless its mark stayed although it had been committed (migrateDB).
AppliedOnce == ~overlapped => \A v \in Versions \ cut : applied[v] <= 1

\* A server that no update has disturbed runs on exactly the migrations of its
\* build, if none was left marked although committed (guardSchema).
ServesOwnSchema ==
    server.quiet /\ ~overlapped /\ cut = {} =>
        \A v \in Versions : applied[v] > 0 <=> v <= Latest(server.build)

\* The update whose build the server has was complete: the knowledge base is then
\* of the release that build pins, and not a mixture that interrupted updates
\* left, as long as nobody went back to an older build, and everything fetched
\* for the modules the update found configured is whole (updateMitre, UpdateAssets).
CompleteUpdatesPin ==
    ~overlapped /\ ~rolledBack =>
        /\ server.prepared => server.kb = {Release(server.build)}
        /\ done # NoBuild => \A t \in fetched : assets[t] = "whole"

=============================================================================
