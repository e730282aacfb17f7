---------------------------- MODULE ReferenceCache ----------------------------
(***************************************************************************)
(* The process-wide copies of the value lists and of the custom attributes *)
(* (internal/model/value-lists.go, internal/model/custom.go).  Both tables *)
(* follow the same protocol: a read takes the table's mutex, answers from  *)
(* the copy or queries the table and leaves a copy behind; a write changes *)
(* the table without the mutex and then takes it to drop the copy.         *)
(***************************************************************************)
EXTENDS Naturals

CONSTANTS
    Tables,    \* value lists, custom attributes
    Contents,  \* what a table may hold
    Readers,   \* requests that render with the reference data (Env)
    Writers,   \* administrators' requests that save or delete a row
    None       \* no copy, no result, no holder

ASSUME CacheAssumption ==
    /\ None \notin Contents
    /\ None \notin Readers
    /\ Readers \cap Writers = {}

VARIABLES
    table,     \* the rows in the database
    cache,     \* the copy, or None
    mutex,     \* the reader that holds the mutex, or None
    pc, on,    \* what each request does, and to which table
    rows,      \* what a reader has queried or returns
    quiet      \* history: no write has been under way since the read began

cacheVars == <<table, cache, mutex, pc, on, rows, quiet>>

Procs == Readers \cup Writers

CacheTypeOK ==
    /\ table \in [Tables -> Contents]
    /\ cache \in [Tables -> Contents \cup {None}]
    /\ mutex \in [Tables -> Readers \cup {None}]
    /\ pc \in [Procs -> {"idle", "wait", "locked", "queried", "done", "drop"}]
    /\ on \in [Procs -> Tables]
    /\ rows \in [Readers -> Contents \cup {None}]
    /\ quiet \in [Readers -> BOOLEAN]

CacheInit ==
    /\ table \in [Tables -> Contents]
    /\ cache = [t \in Tables |-> None]
    /\ mutex = [t \in Tables |-> None]
    /\ pc = [p \in Procs |-> "idle"]
    /\ on \in [Procs -> Tables]
    /\ rows = [r \in Readers |-> None]
    /\ quiet = [r \in Readers |-> FALSE]

\* A write of table t has been made and its copy not yet been dropped.
Dropping(t) == \E w \in Writers : pc[w] = "drop" /\ on[w] = t

-----------------------------------------------------------------------------
(* ListValueLists, ListCustomAttributes.                                    *)

BeginRead(r, t) ==
    /\ pc[r] = "idle"
    /\ pc' = [pc EXCEPT ![r] = "wait"]
    /\ on' = [on EXCEPT ![r] = t]
    /\ quiet' = [quiet EXCEPT ![r] = ~Dropping(t)]
    /\ UNCHANGED <<table, cache, mutex, rows>>

Lock(r) ==
    /\ pc[r] = "wait" /\ mutex[on[r]] = None
    /\ mutex' = [mutex EXCEPT ![on[r]] = r]
    /\ pc' = [pc EXCEPT ![r] = "locked"]
    /\ UNCHANGED <<table, cache, on, rows, quiet>>

\* Leaving the function unlocks.
Return(r, result) ==
    /\ mutex' = [mutex EXCEPT ![on[r]] = None]
    /\ rows' = [rows EXCEPT ![r] = result]
    /\ pc' = [pc EXCEPT ![r] = "done"]

Hit(r) ==
    /\ pc[r] = "locked" /\ cache[on[r]] # None
    /\ Return(r, cache[on[r]])
    /\ UNCHANGED <<table, cache, on, quiet>>

Query(r) ==
    /\ pc[r] = "locked" /\ cache[on[r]] = None
    /\ rows' = [rows EXCEPT ![r] = table[on[r]]]
    /\ pc' = [pc EXCEPT ![r] = "queried"]
    /\ UNCHANGED <<table, cache, mutex, on, quiet>>

\* Wrong variant: the error path forgets the mutex.
QueryFailsLocked(r) ==
    /\ pc[r] = "locked" /\ cache[on[r]] = None
    /\ pc' = [pc EXCEPT ![r] = "done"]
    /\ rows' = [rows EXCEPT ![r] = None]
    /\ UNCHANGED <<table, cache, mutex, on, quiet>>

QueryFails(r) ==
    /\ pc[r] = "locked" /\ cache[on[r]] = None
    /\ Return(r, None)
    /\ UNCHANGED <<table, cache, on, quiet>>

Fill(r) ==
    /\ pc[r] = "queried"
    /\ cache' = [cache EXCEPT ![on[r]] = rows[r]]
    /\ Return(r, rows[r])
    /\ UNCHANGED <<table, on, quiet>>

\* The caller has used the result.
EndRead(r) ==
    /\ pc[r] = "done"
    /\ pc' = [pc EXCEPT ![r] = "idle"]
    /\ rows' = [rows EXCEPT ![r] = None]
    /\ UNCHANGED <<table, cache, mutex, on, quiet>>

-----------------------------------------------------------------------------
(* SaveEnum, DeleteEnum, SaveCustomAttribute, DeleteCustomAttribute.        *)

\* The statement, which may fail and change nothing ...
Write(w, t) ==
    /\ pc[w] = "idle"
    /\ \E c \in Contents : table' = [table EXCEPT ![t] = c]
    /\ pc' = [pc EXCEPT ![w] = "drop"]
    /\ on' = [on EXCEPT ![w] = t]
    /\ quiet' = [r \in Readers |-> quiet[r] /\ on[r] # t]
    /\ UNCHANGED <<cache, mutex, rows>>

\* Wrong variant: the copy is dropped without the mutex.
DropUnlocked(w) ==
    /\ pc[w] = "drop"
    /\ cache' = [cache EXCEPT ![on[w]] = None]
    /\ pc' = [pc EXCEPT ![w] = "idle"]
    /\ UNCHANGED <<table, mutex, on, rows, quiet>>

\* ... then the mutex, the copy dropped, the mutex released.
Drop(w) ==
    /\ pc[w] = "drop" /\ mutex[on[w]] = None
    /\ cache' = [cache EXCEPT ![on[w]] = None]
    /\ pc' = [pc EXCEPT ![w] = "idle"]
    /\ UNCHANGED <<table, mutex, on, rows, quiet>>

Read(r) == Lock(r) \/ Hit(r) \/ Query(r) \/ QueryFails(r) \/ Fill(r) \/ EndRead(r)

CacheNext ==
    \/ \E r \in Readers : (\E t \in Tables : BeginRead(r, t)) \/ Read(r)
    \/ \E w \in Writers : (\E t \in Tables : Write(w, t)) \/ Drop(w)

CacheSpec == CacheInit /\ [][CacheNext]_cacheVars

\* A started request goes on, and sync.Mutex starves nobody.
FairCacheSpec ==
    /\ CacheSpec
    /\ \A r \in Readers : WF_cacheVars(Read(r)) /\ SF_cacheVars(Lock(r))
    /\ \A w \in Writers : SF_cacheVars(Drop(w))

-----------------------------------------------------------------------------
(* Properties.                                                              *)

\* Unless a write is still to drop it, a copy is the table (comment on
\* Store: "nil'd out on write ... and lazily repopulated on the next read"):
\* no query that raced a write leaves old rows behind.
CopyIsCurrent == \A t \in Tables : Dropping(t) \/ cache[t] \in {None, table[t]}

\* A read during which no write is under way answers with the table as it is
\* (or fails): a saved value list is there on the next page.
QuietReadsAreCurrent ==
    \A r \in Readers : pc[r] = "done" /\ quiet[r] => rows[r] \in {None, table[on[r]]}

\* No request waits for a mutex for ever, whatever queries fail.
ReadsAndWritesEnd == \A p \in Procs : pc[p] # "idle" ~> pc[p] = "idle"
=============================================================================
