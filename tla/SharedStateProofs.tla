--------------------------- MODULE SharedStateProofs ---------------------------
(***************************************************************************)
(* Proofs about the two objects that all requests share in memory, each    *)
(* behind a mutex that guards less than it seems to: the copies of the     *)
(* reference data (ReferenceCache), for any number of readers, writers and *)
(* tables, and the Timesketch client (TimesketchClient), for any number of *)
(* requests, events, files and chunk and page sizes.                       *)
(*                                                                         *)
(* What carries those about the client: a request whose session nobody     *)
(* took relies on the token, the cookie and the server naming one session  *)
(* (LoneInv), and what an upload has sent and an import received is what   *)
(* comes before its next chunk or page (TransferInv).  That the chunks put *)
(* together are the file is an induction over their number.                *)
(***************************************************************************)
EXTENDS ReferenceCache, TimesketchClient, FiniteSetTheorems, SequenceTheorems,
        WellFoundedInduction, TLAPS

-----------------------------------------------------------------------------
(* The copies of the reference data.                                        *)

\* Who is past the lock holds the mutex of its table.
MutexInv == \A r \in Readers : pc[r] \in {"locked", "queried"} => mutex[on[r]] = r

\* What a reader has queried is the table, or a write of it is still to drop
\* the copy, which it can not do before the reader has filled it.
QueryInv == \A r \in Readers : pc[r] = "queried" => Dropping(on[r]) \/ rows[r] = table[on[r]]

\* While no write has been under way, there is none to wait for.
QuietInv == \A r \in Readers : pc[r] # "idle" /\ quiet[r] =>
                /\ ~Dropping(on[r])
                /\ pc[r] \in {"queried", "done"} => rows[r] \in {None, table[on[r]]}

PcInv == /\ \A r \in Readers : pc[r] # "drop"
         /\ \A w \in Writers : pc[w] \in {"idle", "drop"}

CacheInv == CacheTypeOK /\ PcInv /\ MutexInv /\ QueryInv /\ CopyIsCurrent /\ QuietInv

\* The invariant holds initially.
LEMMA InitCache == CacheInit => CacheInv
  BY CacheAssumption DEF CacheInit, CacheInv, CacheTypeOK, PcInv, MutexInv, QueryInv, CopyIsCurrent,
                         QuietInv, Dropping, Procs

\* Starting a read: quiet only if no write is under way.
LEMMA BeginReadKeeps == ASSUME CacheInv, NEW r \in Readers, NEW t \in Tables, BeginRead(r, t)
                        PROVE  CacheInv'
<1> USE CacheAssumption DEF BeginRead, CacheInv, Procs
<1>1. CacheTypeOK' /\ PcInv'
  BY DEF CacheTypeOK, PcInv
<1>2. /\ pc'[r] = "wait" /\ on'[r] = t /\ quiet'[r] = ~Dropping(t)
      /\ \A q \in Readers : q # r => pc'[q] = pc[q] /\ on'[q] = on[q] /\ quiet'[q] = quiet[q]
      /\ \A u \in Tables : Dropping(u)' <=> Dropping(u)
  BY DEF CacheTypeOK, PcInv, Dropping
<1>3. MutexInv' /\ QueryInv' /\ CopyIsCurrent'
  BY <1>2 DEF CacheTypeOK, MutexInv, QueryInv, CopyIsCurrent
<1>4. QuietInv'
  BY <1>2 DEF CacheTypeOK, QuietInv
<1> QED BY <1>1, <1>3, <1>4

\* Taking the mutex.
LEMMA LockKeeps == ASSUME CacheInv, NEW r \in Readers, Lock(r) PROVE CacheInv'
  BY CacheAssumption DEF Lock, CacheInv, CacheTypeOK, PcInv, MutexInv, QueryInv, CopyIsCurrent,
                         QuietInv, Dropping, Procs

\* Answering from the copy.
LEMMA HitKeeps == ASSUME CacheInv, NEW r \in Readers, Hit(r) PROVE CacheInv'
  BY CacheAssumption DEF Hit, Return, CacheInv, CacheTypeOK, PcInv, MutexInv, QueryInv, CopyIsCurrent,
                         QuietInv, Dropping, Procs

\* Querying the table.
LEMMA QueryKeeps == ASSUME CacheInv, NEW r \in Readers, Query(r) PROVE CacheInv'
  BY CacheAssumption DEF Query, CacheInv, CacheTypeOK, PcInv, MutexInv, QueryInv, CopyIsCurrent,
                         QuietInv, Dropping, Procs

\* Failing to.
LEMMA QueryFailsKeeps == ASSUME CacheInv, NEW r \in Readers, QueryFails(r) PROVE CacheInv'
  BY CacheAssumption DEF QueryFails, Return, CacheInv, CacheTypeOK, PcInv, MutexInv, QueryInv,
                         CopyIsCurrent, QuietInv, Dropping, Procs

\* Leaving a copy behind: the reader's rows are the table or about to go.
LEMMA FillKeeps == ASSUME CacheInv, NEW r \in Readers, Fill(r) PROVE CacheInv'
  BY CacheAssumption DEF Fill, Return, CacheInv, CacheTypeOK, PcInv, MutexInv, QueryInv, CopyIsCurrent,
                         QuietInv, Dropping, Procs

\* Finishing a read.
LEMMA EndReadKeeps == ASSUME CacheInv, NEW r \in Readers, EndRead(r) PROVE CacheInv'
  BY CacheAssumption DEF EndRead, CacheInv, CacheTypeOK, PcInv, MutexInv, QueryInv, CopyIsCurrent,
                         QuietInv, Dropping, Procs

\* Writing the table: from now on its copy is to be dropped.
LEMMA WriteKeeps == ASSUME CacheInv, NEW w \in Writers, NEW t \in Tables, Write(w, t)
                    PROVE  CacheInv'
<1> USE CacheAssumption DEF Write, CacheInv, PcInv, Procs
<1>1. CacheTypeOK'
  BY DEF CacheTypeOK
<1>2. PcInv'
  BY DEF CacheTypeOK
<1>3. /\ \A r \in Readers : pc'[r] = pc[r] /\ on'[r] = on[r]
      /\ \A u \in Tables : u # t => table'[u] = table[u]
      /\ Dropping(t)'
      /\ \A u \in Tables : u # t => (Dropping(u) <=> Dropping(u)')
  BY DEF CacheTypeOK, Dropping
<1>4. MutexInv'
  BY <1>3 DEF MutexInv, CacheTypeOK
<1>5. QueryInv'
  BY <1>3 DEF QueryInv, CacheTypeOK
<1>6. CopyIsCurrent'
  BY <1>3 DEF CopyIsCurrent, CacheTypeOK
<1>7. QuietInv'
  BY <1>3, ZenonT(60) DEF QuietInv, CacheTypeOK
<1> QED BY <1>1, <1>2, <1>4, <1>5, <1>6, <1>7

\* Dropping the copy: nobody is between query and fill, the mutex is free.
LEMMA DropKeeps == ASSUME CacheInv, NEW w \in Writers, Drop(w) PROVE CacheInv'
  BY CacheAssumption DEF Drop, CacheInv, CacheTypeOK, PcInv, MutexInv, QueryInv, CopyIsCurrent,
                         QuietInv, Dropping, Procs

\* Every behaviour keeps the invariant.
THEOREM CacheInvariant == CacheSpec => []CacheInv
<1>1. CacheInv /\ [CacheNext]_cacheVars => CacheInv'
  <2> SUFFICES ASSUME CacheInv, [CacheNext]_cacheVars PROVE CacheInv'
    OBVIOUS
  <2>1. CASE UNCHANGED cacheVars
    BY <2>1 DEF cacheVars, CacheInv, CacheTypeOK, PcInv, MutexInv, QueryInv, CopyIsCurrent, QuietInv,
                Dropping, Procs
  <2>2. ASSUME NEW r \in Readers, Read(r) PROVE CacheInv'
    BY <2>2, LockKeeps, HitKeeps, QueryKeeps, QueryFailsKeeps, FillKeeps, EndReadKeeps DEF Read
  <2>3. CASE CacheNext
    BY <2>2, <2>3, BeginReadKeeps, WriteKeeps, DropKeeps DEF CacheNext
  <2> QED BY <2>1, <2>3
<1> QED BY <1>1, InitCache, PTL DEF CacheSpec

\* Mutexes are held by readers between their steps only, and a writer that dropped
\* its copy holds none (Drop).
THEOREM CacheTypeCorrect == CacheSpec => []CacheTypeOK
<1>1. CacheInv => CacheTypeOK
  BY DEF CacheInv
<1> QED BY <1>1, CacheInvariant, PTL

\* The copies agree with their tables unless a write is still to drop them
\* (ListValueLists and SaveEnum, with the query inside the critical section).
THEOREM CopiesAreCurrent == CacheSpec => []CopyIsCurrent
<1>1. CacheInv => CopyIsCurrent
  BY DEF CacheInv
<1> QED BY <1>1, CacheInvariant, PTL

\* A read that no write overlaps returns the table.
THEOREM ReadsAreCurrent == CacheSpec => []QuietReadsAreCurrent
<1>1. CacheInv => QuietReadsAreCurrent
  BY DEF CacheInv, QuietInv, QuietReadsAreCurrent
<1> QED BY <1>1, CacheInvariant, PTL

-----------------------------------------------------------------------------
(* Induction.                                                              *)

\* Induction over the subsets of a finite set, without an operator parameter:
\* P is a set that has every subset all of whose proper subsets it has.
LEMMA SubsetInduction ==
    ASSUME NEW S, IsFiniteSet(S), NEW P,
           \A T \in SUBSET S : (\A U \in SUBSET T : U # T => U \in P) => T \in P
    PROVE  SUBSET S \subseteq P
<1> SUFFICES ASSUME NEW T0 \in SUBSET S, T0 \notin P PROVE FALSE
  OBVIOUS
<1> DEFINE Bad == (SUBSET S) \ P
<1>1. IsWellFoundedOn(StrictSubsetOrdering(S), SUBSET S)
  <2>1. FiniteSubsetsOf(S) = SUBSET S
    BY FS_FiniteSubsetsOfFinite
  <2>2. IsWellFoundedOn(StrictSubsetOrdering(S), FiniteSubsetsOf(S))
    BY FS_StrictSubsetOrderingWellFounded
  <2> QED BY <2>1, <2>2
<1>2. Bad \subseteq SUBSET S /\ Bad # {}
  OBVIOUS
<1> HIDE DEF Bad
<1>3. PICK T \in Bad : \A U \in Bad : <<U, T>> \notin StrictSubsetOrdering(S)
  BY <1>1, <1>2, WFMin
<1>4. \A U \in SUBSET T : U # T => U \in P
  <2> SUFFICES ASSUME NEW U \in SUBSET T, U # T, U \notin P PROVE FALSE
    OBVIOUS
  <2>1. U \in Bad /\ T \in SUBSET S
    BY <1>2 DEF Bad
  <2>2. <<U, T>> \in (SUBSET S) \X (SUBSET S)
    BY <2>1
  <2>3. <<U, T>>[1] \subseteq <<U, T>>[2] /\ <<U, T>>[1] # <<U, T>>[2]
    OBVIOUS
  <2>4. <<U, T>> \in StrictSubsetOrdering(S)
    BY <2>2, <2>3, Zenon DEF StrictSubsetOrdering
  <2> QED BY <1>3, <2>1, <2>4
<1> QED BY <1>2, <1>4 DEF Bad

\* The same for natural numbers.
LEMMA NatInduct ==
    ASSUME NEW P, 0 \in P, \A n \in Nat : n \in P => n + 1 \in P
    PROVE  Nat \subseteq P
<1> SUFFICES ASSUME NEW m \in Nat PROVE m \in P
  OBVIOUS
<1> DEFINE S == 0..m
           Q == {T \in SUBSET S : \A n \in Nat : T = 0..n => n \in P}
<1>1. IsFiniteSet(S)
  BY FS_Interval
<1>2. ASSUME NEW T \in SUBSET S, \A U \in SUBSET T : U # T => U \in Q
      PROVE  T \in Q
  <2> SUFFICES ASSUME NEW n \in Nat, T = 0..n PROVE n \in P
    OBVIOUS
  <2>1. CASE n = 0
    BY <2>1
  <2>2. CASE n # 0
    <3>1. n - 1 \in Nat /\ 0..(n - 1) \in SUBSET T /\ n \in T /\ n \notin 0..(n - 1)
      BY <2>2
    <3>2. 0..(n - 1) \in Q
      BY <1>2, <3>1
    <3>3. n - 1 \in P
      BY <3>1, <3>2
    <3> QED BY <3>1, <3>3
  <2> QED BY <2>1, <2>2
<1> HIDE DEF Q, S
<1>3. SUBSET S \subseteq Q
  BY <1>1, <1>2, SubsetInduction
<1> USE DEF Q, S
<1>4. 0..m \in Q
  BY <1>3
<1> QED BY <1>4

-----------------------------------------------------------------------------
(* The sorted enumeration of the starred events.                            *)

\* A finite set of numbers has a largest.
LEMMA LargestThere ==
    ASSUME NEW S, IsFiniteSet(S), S \subseteq Nat
    PROVE  \A T \in SUBSET S : T # {} => Max(T) \in T /\ \A y \in T : Max(T) >= y
<1> DEFINE P == {T \in SUBSET S : T = {} \/ \E m \in T : \A y \in T : m >= y}
<1>1. ASSUME NEW T \in SUBSET S, \A U \in SUBSET T : U # T => U \in P PROVE T \in P
  <2> SUFFICES ASSUME T # {} PROVE \E m \in T : \A y \in T : m >= y
    OBVIOUS
  <2>1. PICK x \in T : TRUE
    OBVIOUS
  <2>2. T \ {x} \in P
    BY <1>1
  <2>3. T \subseteq Nat
    OBVIOUS
  <2>4. CASE T \ {x} = {}
    <3>1. \A y \in T : y = x
      BY <2>4
    <3> QED BY <2>1, <2>3, <3>1
  <2>5. CASE T \ {x} # {}
    <3>1. PICK m \in T \ {x} : \A y \in T \ {x} : m >= y
      BY <2>2, <2>5
    <3>2. CASE m >= x
      <4>1. \A y \in T : m >= y
        BY <3>1, <3>2
      <4> QED BY <4>1
    <3>3. CASE ~(m >= x)
      <4>1. m \in Nat /\ x \in Nat
        BY <2>1, <2>3
      <4>2. ASSUME NEW y \in T PROVE x >= y
        <5>1. y \in Nat /\ (y = x \/ m >= y)
          BY <2>3, <3>1
        <5> QED BY <3>3, <4>1, <5>1
      <4> QED BY <2>1, <4>2
    <3> QED BY <3>2, <3>3
  <2> QED BY <2>4, <2>5
<1> HIDE DEF P
<1>2. SUBSET S \subseteq P
  BY <1>1, SubsetInduction
<1> USE DEF P
<1> SUFFICES ASSUME NEW T \in SUBSET S, T # {} PROVE Max(T) \in T /\ \A y \in T : Max(T) >= y
  OBVIOUS
<1>3. \E m \in T : \A y \in T : m >= y
  BY <1>2
<1> QED BY <1>3, Zenon DEF Max

\* The set of events can be put in ascending order.
LEMMA SortedThere ==
    ASSUME NEW T \in SUBSET Events
    PROVE  /\ Cardinality(T) \in Nat
           /\ \E s \in [1..Cardinality(T) -> T] : Ascending(s)
<1> DEFINE P == {U \in SUBSET Events : \E s \in [1..Cardinality(U) -> U] : Ascending(s)}
<1>1. ASSUME NEW U \in SUBSET Events PROVE IsFiniteSet(U) /\ Cardinality(U) \in Nat /\ U \subseteq Nat
  BY ClientAssumption, FS_Subset, FS_CardinalityType
<1>2. ASSUME NEW U \in SUBSET Events, \A V \in SUBSET U : V # U => V \in P PROVE U \in P
  <2>1. CASE U = {}
    <3>1. Cardinality(U) = 0
      BY <2>1, FS_EmptySet
    <3> DEFINE s == [i \in 1..0 |-> 0]
    <3>2. s \in [1..0 -> U] /\ Ascending(s)
      BY DEF Ascending
    <3> QED BY <3>1, <3>2
  <2>2. CASE U # {}
    <3> DEFINE m == Max(U)
               V == U \ {m}
               n == Cardinality(V)
    <3>1. m \in U /\ \A y \in U : m >= y
      BY <2>2, ClientAssumption, LargestThere
    <3> HIDE DEF m
    <3>2. V \in P /\ n \in Nat /\ Cardinality(U) = n + 1 /\ U \subseteq Nat
      <4>1. V \in P
        BY <1>2, <3>1
      <4>2. n = Cardinality(U) - 1
        BY <1>1, <3>1, FS_RemoveElement
      <4>3. n \in Nat /\ Cardinality(U) \in Nat
        BY <1>1
      <4>4. U \subseteq Nat
        BY <1>1
      <4> HIDE DEF n, P
      <4>5. Cardinality(U) = n + 1
        BY <4>2, <4>3
      <4> QED BY <4>1, <4>3, <4>4, <4>5
    <3>3. PICK s \in [1..n -> V] : Ascending(s)
      BY <3>2
    <3> HIDE DEF n
    <3> DEFINE t == [i \in 1..(n + 1) |-> IF i <= n THEN s[i] ELSE m]
    <3>4. t \in [1..(n + 1) -> U]
      BY <3>1, <3>2
    <3>5. ASSUME NEW i \in 1..(n + 1), NEW j \in 1..(n + 1), i < j PROVE t[i] < t[j]
      <4>1. i \in 1..n /\ t[i] = s[i] /\ s[i] \in V
        BY <3>2, <3>5
      <4>2. CASE j <= n
        <5>1. j \in 1..n /\ t[j] = s[j]
          BY <3>2, <4>2
        <5> QED BY <3>3, <3>5, <4>1, <5>1 DEF Ascending
      <4>3. CASE ~(j <= n)
        <5>1. t[j] = m
          BY <4>3
        <5>2. m >= s[i] /\ m # s[i] /\ m \in Nat /\ s[i] \in Nat
          BY <3>1, <3>2, <4>1
        <5> QED BY <4>1, <5>1, <5>2
      <4> QED BY <4>2, <4>3
    <3>6. Ascending(t)
      BY <3>5 DEF Ascending
    <3> HIDE DEF t
    <3> QED BY <3>2, <3>4, <3>6
  <2> QED BY <2>1, <2>2
<1> HIDE DEF P
<1>3. SUBSET Events \subseteq P
  BY <1>2, ClientAssumption, SubsetInduction
<1> USE DEF P
<1> QED BY <1>1, <1>3

\* What an explore query pages through.
LEMMA ResultTyped ==
    ASSUME starred \subseteq Events
    PROVE  Result \in Seq(Events) /\ Len(Result) \in Nat
<1>1. /\ Cardinality(starred) \in Nat
      /\ \E s \in [1..Cardinality(starred) -> starred] : Ascending(s)
  BY SortedThere
<1>2. Result \in [1..Cardinality(starred) -> starred]
  BY <1>1, Zenon DEF Result, Sorted
<1>3. Result \in [1..Cardinality(starred) -> Events]
  BY <1>2
<1> QED BY <1>1, <1>3

-----------------------------------------------------------------------------
(* Slices.                                                                  *)

\* A slice has the elements of its sequence.
LEMMA SliceTyped ==
    ASSUME NEW S, NEW s \in Seq(S), NEW n \in Nat, NEW k \in Nat
    PROVE  Slice(s, n, k) \in Seq(S)
<1> DEFINE m == IF n + k < Len(s) THEN n + k ELSE Len(s)
<1>1. m \in Nat /\ m <= Len(s) /\ Len(s) \in Nat
  OBVIOUS
<1>2. Slice(s, n, k) = SubSeq(s, n + 1, m)
  BY DEF Slice
<1> HIDE DEF m
<1>3. \A i \in (n + 1)..m : s[i] \in S
  BY <1>1
<1>4. SubSeq(s, n + 1, m) \in Seq(S)
  BY <1>1, <1>3, SubSeqProperties
<1> QED BY <1>2, <1>4

\* A slice continues what is before it.
LEMMA SliceContinues ==
    ASSUME NEW S, NEW s \in Seq(S), NEW n \in 0..Len(s), NEW k \in Nat
    PROVE  LET m == IF n + k < Len(s) THEN n + k ELSE Len(s)
           IN  /\ m \in n..Len(s)
               /\ Slice(s, n, k) = SubSeq(s, n + 1, m)
               /\ SubSeq(s, 1, n) \o Slice(s, n, k) = SubSeq(s, 1, m)
               /\ Len(Slice(s, n, k)) = m - n
<1> DEFINE m == IF n + k < Len(s) THEN n + k ELSE Len(s)
<1>1. m \in n..Len(s) /\ Len(s) \in Nat
  OBVIOUS
<1>2. Slice(s, n, k) = SubSeq(s, n + 1, m)
  BY DEF Slice
<1> HIDE DEF m
<1>3. SubSeq(s, 1, n) \o SubSeq(s, n + 1, m) = SubSeq(s, 1, m)
  <2>1. 1 \in 1..(Len(s) + 1) /\ n \in (1 - 1)..Len(s)
    BY <1>1
  <2> QED BY <1>1, <2>1, ConcatAdjacentSubSeq
<1>4. Len(SubSeq(s, n + 1, m)) = m - n
  <2>1. \A i \in (n + 1)..m : s[i] \in S
    BY <1>1
  <2>2. Len(SubSeq(s, n + 1, m)) = IF n + 1 <= m THEN m - (n + 1) + 1 ELSE 0
    BY <1>1, <2>1, SubSeqProperties
  <2> QED BY <1>1, <2>2
<1> USE DEF m
<1> QED BY <1>1, <1>2, <1>3, <1>4

-----------------------------------------------------------------------------
(* The Timesketch client: its invariant.                                   *)

Points == {"idle", "build", "ensure", "relogin", "post", "probe", "rotate", "token", "send", "sent", "done"}

Calling ==
    [kind : Kinds, pc : Points, call : Calls, retried : BOOLEAN, tok : Nat, cookie : Nat, size : Sizes \cup {0},
     index : Nat, body : Seq(Nat), got : Seq(Events), result : Results \cup {NoResult}]

\* What each kind of caller asks for, and how far it can have come.
Reached(q) ==
    /\ q.pc = "idle" => q = Idle
    /\ q.pc = "done" <=> q.result # NoResult
    /\ q.kind = "list" => q.call = "list"
    /\ q.kind = "import" => q.call \in {"sketch", "explore"}
    /\ q.kind = "upload" => q.call \in {"login", "upload"}
    /\ q.kind = "validate" => q.call = "login"
    /\ q.pc = "build" => q.call = "upload"
    /\ q.call = "login" => q.pc \notin {"relogin", "token", "send", "sent"} /\ ~q.retried
    /\ q.call \notin {"upload", "explore"} => q.index = 0 /\ q.got = <<>>
    /\ q.pc \in {"build", "ensure"} => ~q.retried
    /\ q.result = "ok" => q.call # "sketch" /\ (q.call = "login" => q.kind = "validate")

CallsInv ==
    /\ req \in [Requests -> Calling] /\ \A r \in Requests : Reached(req[r])
    /\ accepts \in BOOLEAN /\ loggedIn \in BOOLEAN
    /\ starred \subseteq Events /\ moved \subseteq Requests /\ disturbed \subseteq Requests

\* Who logs in holds the mutex, and until it has the token nobody is logged in.
HolderInv ==
    /\ mu \in Requests \cup {NoReq}
    /\ \A r \in Requests : req[r].pc \in {"post", "probe", "rotate"} <=> mu = r
    /\ mu # NoReq => ~loggedIn

\* While the session of the cookie lives, the client's token is its token.
TokenInv ==
    /\ issued \in Nat /\ csrfToken \in 0..issued /\ jar \in 0..issued /\ session \in 0..issued
    /\ loggedIn /\ Live => csrfToken = jar

\* What a request that nobody took the session from relies on.
Relies(q) ==
    /\ q.pc \in {"probe", "rotate"} /\ accepts => Live
    /\ q.pc = "token" /\ Live => csrfToken = jar
    /\ q.pc = "send" /\ Live => q.tok = jar
    /\ q.pc \in {"token", "send"} /\ q.retried /\ accepts => Live
    /\ q.pc = "sent" /\ q.cookie # 0 /\ q.cookie = session => q.tok = q.cookie
    /\ q.pc = "sent" /\ q.retried /\ accepts => q.cookie # 0 /\ q.cookie = session
    /\ q.result \in {"refused", "login"} => ~accepts

LoneInv == \A r \in Requests \ disturbed : Relies(req[r])

SessionInv == CallsInv /\ HolderInv /\ TokenInv /\ LoneInv

\* The chunk of a file at an index.
ChunkAt(size, i) ==
    [index |-> i, offset |-> i * ChunkSize, chunks |-> Chunks(size), total |-> size,
     data |-> Slice(File(size), i * ChunkSize, ChunkSize)]

\* What the server has of an upload: the chunks before the next, and of one
\* that ended perhaps the one it was at.
Sent(q, cs) ==
    IF q.call # "upload" THEN cs = <<>>
    ELSE /\ q.index < Chunks(q.size)
         /\ Len(cs) \in {q.index, q.index + 1}
         /\ q.pc # "done" => Len(cs) = q.index
         /\ q.result = "ok" => Len(cs) = Chunks(q.size)
         /\ q.pc \notin {"build", "done"} => q.body = Slice(File(q.size), q.index * ChunkSize, ChunkSize)
         /\ \A i \in 1..Len(cs) : cs[i] = ChunkAt(q.size, i - 1)

\* What an import has of the result set: the events before the next.
Received(q) ==
    /\ q.index <= Len(Result)
    /\ q.pc # "done" => q.got = SubSeq(Result, 1, q.index)
    /\ q.result = "ok" => q.got = Result

ChunkSet == [index : Nat, offset : Nat, chunks : Nat, total : Nat, data : Seq(Nat)]

TransferInv ==
    /\ stored \in [Requests -> Seq(ChunkSet)]
    /\ \A r \in Requests :
         /\ Sent(req[r], stored[r])
         /\ req[r].call = "explore" /\ r \notin moved => Received(req[r])

-----------------------------------------------------------------------------
(* One request moves on.                                                    *)

Others(r) == \A p \in Requests : p # r => req'[p] = req[p]

\* Asking for the same.
Same(q, p) ==
    /\ q.kind = p.kind /\ q.call = p.call /\ q.size = p.size
    /\ q.index = p.index /\ q.got = p.got

\* One request becomes another record, all others stay.
LEMMA BecomeIs ==
    ASSUME CallsInv, NEW r \in Requests, NEW q \in Calling, Become(r, q)
    PROVE  req' \in [Requests -> Calling] /\ req'[r] = q /\ Others(r)
BY DEF CallsInv, Become, Others

\* Every request is as the invariant says.
LEMMA IsCalling == ASSUME CallsInv, NEW r \in Requests PROVE req[r] \in Calling /\ Reached(req[r])
BY DEF CallsInv

\* A request goes on to another point and keeps the rest.
LEMMA GoIs ==
    ASSUME CallsInv, NEW r \in Requests, NEW to \in Points, Go(r, to)
    PROVE  /\ req' \in [Requests -> Calling] /\ Others(r)
           /\ Same(req'[r], req[r]) /\ req'[r].pc = to /\ req'[r].retried = req[r].retried
           /\ req'[r].tok = req[r].tok /\ req'[r].body = req[r].body /\ req'[r].result = req[r].result
<1> DEFINE q == [req[r] EXCEPT !.pc = to]
<1>1. req[r] \in Calling BY IsCalling
<1>2. /\ q \in Calling /\ Same(q, req[r]) /\ q.pc = to /\ q.retried = req[r].retried
      /\ q.tok = req[r].tok /\ q.body = req[r].body /\ q.result = req[r].result
  BY <1>1 DEF Calling, Same
<1>3. Become(r, q) BY DEF Go
<1> HIDE DEF q
<1> QED BY <1>2, <1>3, BecomeIs

\* A request ends and keeps what it asked for.
LEMMA EndIs ==
    ASSUME CallsInv, NEW r \in Requests, NEW res \in Results, End(r, res)
    PROVE  /\ req' \in [Requests -> Calling] /\ Others(r)
           /\ Same(req'[r], req[r]) /\ req'[r].pc = "done" /\ req'[r].retried = FALSE
           /\ req'[r].result = res
<1> DEFINE q == [Over(req[r]) EXCEPT !.pc = "done", !.result = res]
<1>1. req[r] \in Calling BY IsCalling
<1>2. <<>> \in Seq(Nat) BY EmptySeq
<1>3. q \in Calling /\ Same(q, req[r]) /\ q.pc = "done" /\ q.retried = FALSE /\ q.result = res
  BY <1>1, <1>2 DEF Calling, Same, Over, Points
<1>4. Become(r, q) BY DEF End
<1> HIDE DEF q
<1> QED BY <1>3, <1>4, BecomeIs

\* A round trip begins.
LEMMA RoundTripIs ==
    ASSUME CallsInv, NEW r \in Requests, NEW q \in Calling, RoundTrip(r, q)
    PROVE  /\ req' \in [Requests -> Calling] /\ Others(r) /\ disturbed' = disturbed \ {r}
           /\ Same(req'[r], q) /\ req'[r].pc = "ensure" /\ req'[r].retried = FALSE
           /\ req'[r].body = q.body /\ req'[r].result = q.result
<1> DEFINE p == [q EXCEPT !.pc = "ensure", !.retried = FALSE, !.tok = 0, !.cookie = 0]
<1>1. /\ p \in Calling /\ Same(p, q) /\ p.pc = "ensure" /\ p.retried = FALSE
      /\ p.body = q.body /\ p.result = q.result
  BY DEF Calling, Same, Points
<1>2. Become(r, p) /\ disturbed' = disturbed \ {r} BY DEF RoundTrip
<1> HIDE DEF p
<1> QED BY <1>1, <1>2, BecomeIs

\* Once logged in a request sends its call, or has what it wants, or goes on
\* to the file.
LEMMA LoggedInIs ==
    ASSUME CallsInv, NEW r \in Requests, req[r].pc \in {"ensure", "rotate"}, LoggedIn(r)
    PROVE  /\ req' \in [Requests -> Calling] /\ Others(r) /\ Reached(req'[r])
           /\ \/ /\ Same(req'[r], req[r]) /\ req'[r].pc = "token" /\ req[r].call # "login"
                 /\ req'[r].body = req[r].body /\ req'[r].result = req[r].result
                 /\ req'[r].retried = req[r].retried
              \/ /\ Same(req'[r], req[r]) /\ req'[r].pc = "done" /\ req'[r].result = "ok"
                 /\ req[r].call = "login"
              \/ /\ req'[r].pc = "build" /\ req'[r].call = "upload" /\ req[r].call = "login"
                 /\ req'[r].index = 0 /\ req'[r].result = req[r].result
<1>1. req[r] \in Calling /\ Reached(req[r]) BY IsCalling
<1>2. CASE req[r].call # "login"
  <2>1. Go(r, "token") BY <1>2 DEF LoggedIn
  <2>2. "token" \in Points BY DEF Points
  <2>3. /\ req' \in [Requests -> Calling] /\ Others(r)
        /\ Same(req'[r], req[r]) /\ req'[r].pc = "token" /\ req'[r].retried = req[r].retried
        /\ req'[r].body = req[r].body /\ req'[r].result = req[r].result
    BY <2>1, <2>2, GoIs
  <2>4. Reached(req'[r]) BY <1>1, <1>2, <2>3 DEF Reached, Same
  <2> QED BY <1>2, <2>3, <2>4
<1>3. CASE req[r].call = "login" /\ req[r].kind = "validate"
  <2>1. End(r, "ok") BY <1>3 DEF LoggedIn
  <2>2. "ok" \in Results BY DEF Results
  <2>3. /\ req' \in [Requests -> Calling] /\ Others(r)
        /\ Same(req'[r], req[r]) /\ req'[r].pc = "done" /\ req'[r].retried = FALSE
        /\ req'[r].result = "ok"
    BY <2>1, <2>2, EndIs
  <2>4. Reached(req'[r]) BY <1>1, <1>3, <2>2, <2>3, ClientAssumption DEF Reached, Same
  <2> QED BY <1>3, <2>3, <2>4
<1>4. CASE req[r].call = "login" /\ req[r].kind # "validate"
  <2> DEFINE q == [req[r] EXCEPT !.pc = "build", !.call = "upload"]
  <2>1. Become(r, q) BY <1>4 DEF LoggedIn
  <2>2. /\ q \in Calling /\ q.pc = "build" /\ q.call = "upload" /\ q.kind = req[r].kind
        /\ q.index = req[r].index /\ q.result = req[r].result /\ q.retried = req[r].retried
    BY <1>1 DEF Calling, Points, Calls
  <2> HIDE DEF q
  <2>3. req' \in [Requests -> Calling] /\ req'[r] = q /\ Others(r) BY <2>1, <2>2, BecomeIs
  <2>4. req[r].kind = "upload" BY <1>1, <1>4 DEF Reached, Calling, Kinds
  <2>5. q.index = 0 BY <1>1, <1>4, <2>2 DEF Reached
  <2>6. Reached(q) BY <1>1, <1>4, <2>2, <2>4 DEF Reached
  <2> QED BY <1>4, <2>2, <2>3, <2>5, <2>6
<1> QED BY <1>2, <1>3, <1>4

-----------------------------------------------------------------------------
(* Sessions.                                                                *)

Held == {"post", "probe", "rotate"}

\* A request moves on and leaves the session alone.
LEMMA SessionMoves ==
    ASSUME SessionInv, NEW r \in Requests,
           req' \in [Requests -> Calling], Others(r), Reached(req'[r]),
           csrfToken' = csrfToken, jar' = jar, accepts' = accepts,
           session' = session, issued' = issued, starred' = starred,
           loggedIn' \in BOOLEAN, loggedIn' => loggedIn,
           moved' \subseteq Requests, disturbed' \subseteq Requests,
           disturbed \ {r} \subseteq disturbed',
           mu' \in Requests \cup {NoReq}, req'[r].pc \in Held <=> mu' = r,
           \A p \in Requests : p # r => (mu' = p <=> mu = p),
           mu' # NoReq => ~loggedIn',
           r \notin disturbed' => Relies(req'[r])
    PROVE  SessionInv'
<1>1. CallsInv'
  <2>1. \A p \in Requests : Reached(req'[p]) BY DEF Others, SessionInv, CallsInv
  <2> QED BY <2>1 DEF SessionInv, CallsInv
<1>2. HolderInv'
  <2>1. \A p \in Requests : req'[p].pc \in Held <=> mu' = p
    BY DEF SessionInv, HolderInv, Others, Held
  <2> QED BY <2>1 DEF HolderInv, Held
<1>3. TokenInv'
  BY DEF SessionInv, TokenInv, Live
<1>4. LoneInv'
  <2> SUFFICES ASSUME NEW p \in Requests, p \notin disturbed' PROVE Relies(req[p])'
    BY DEF LoneInv
  <2>1. Relies(req'[p])
    BY DEF SessionInv, LoneInv, Others
  <2> QED BY <2>1 DEF Relies, Live
<1> QED BY <1>1, <1>2, <1>3, <1>4 DEF SessionInv

\* Nor does it take or give back the mutex.
LEMMA QuietMoves ==
    ASSUME SessionInv, NEW r \in Requests,
           req' \in [Requests -> Calling], Others(r), Reached(req'[r]),
           mu' = mu, loggedIn' = loggedIn, csrfToken' = csrfToken, jar' = jar,
           accepts' = accepts, session' = session, issued' = issued, starred' = starred,
           moved' \subseteq Requests, disturbed' \subseteq Requests,
           disturbed \ {r} \subseteq disturbed',
           req[r].pc \notin Held, req'[r].pc \notin Held,
           r \notin disturbed' => Relies(req'[r])
    PROVE  SessionInv'
<1>1. /\ mu \in Requests \cup {NoReq} /\ mu # r /\ (mu # NoReq => ~loggedIn)
      /\ loggedIn \in BOOLEAN
  BY DEF SessionInv, HolderInv, CallsInv, Held
<1> QED BY <1>1, SessionMoves

\* A request whose round trip begins relies on nothing yet.
LEMMA FreshRelies ==
    ASSUME NEW q, q.pc \in {"idle", "build", "ensure", "relogin", "post"}, q.result = NoResult
    PROVE  Relies(q)
BY ClientAssumption DEF Relies, Results

\* The parts of the invariant.
LEMMA SessionSets ==
    ASSUME SessionInv
    PROVE  /\ CallsInv /\ HolderInv /\ TokenInv /\ LoneInv
           /\ moved \subseteq Requests /\ disturbed \subseteq Requests
           /\ \A r \in Requests : req[r] \in Calling /\ Reached(req[r])
BY DEF SessionInv, CallsInv

\* A round trip that begins.
Begins(p, q) == Same(p, q) /\ p.pc = "ensure" /\ p.retried = FALSE /\ p.result = NoResult

\* It leaves the session alone.
LEMMA RoundTripSession ==
    ASSUME SessionInv, NEW r \in Requests, NEW q \in Calling, RoundTrip(r, q),
           req[r].pc \notin Held, q.result = NoResult,
           \A p \in Calling : Begins(p, q) => Reached(p),
           mu' = mu, loggedIn' = loggedIn, csrfToken' = csrfToken, jar' = jar,
           accepts' = accepts, session' = session, issued' = issued, starred' = starred,
           moved' \subseteq Requests
    PROVE  SessionInv'
<1>1. CallsInv /\ disturbed \subseteq Requests BY SessionSets
<1>2. /\ req' \in [Requests -> Calling] /\ Others(r) /\ disturbed' = disturbed \ {r}
      /\ Same(req'[r], q) /\ req'[r].pc = "ensure" /\ req'[r].retried = FALSE
      /\ req'[r].result = q.result
  BY <1>1, RoundTripIs
<1>3. req'[r] \in Calling BY <1>2
<1>4. Reached(req'[r]) BY <1>2, <1>3 DEF Begins
<1>5. Relies(req'[r]) BY <1>2, FreshRelies
<1>6. req'[r].pc \notin Held BY <1>2 DEF Held
<1> QED BY <1>1, <1>2, <1>4, <1>5, <1>6, QuietMoves

\* A round trip of an idle request asks for what its kind asks for first.
LEMMA FreshReached ==
    ASSUME NEW q, NEW p, Same(p, q), p.pc = "ensure", p.retried = FALSE, p.result = NoResult,
           q.index = 0, q.got = <<>>,
           <<q.kind, q.call>> \in {<<"list", "list">>, <<"import", "sketch">>,
                                   <<"upload", "login">>, <<"validate", "login">>}
    PROVE  Reached(p)
<1>1. NoResult # "ok" BY ClientAssumption DEF Results
<1>2. p.kind = q.kind /\ p.call = q.call /\ p.index = 0 /\ p.got = <<>> BY DEF Same
<1> QED BY <1>1, <1>2 DEF Reached

-----------------------------------------------------------------------------

\* A request nobody has made yet is one.
LEMMA IdleCalling ==
    Idle \in Calling /\ Idle.result = NoResult /\ Idle.index = 0 /\ Idle.got = <<>>
<1>1. <<>> \in Seq(Nat) /\ <<>> \in Seq(Events) BY EmptySeq
<1> QED BY <1>1 DEF Idle, Calling, Kinds, Calls, Points

\* A call begins with a round trip for what its kind asks for first.
LEMMA CallIs ==
    ASSUME SessionInv, NEW r \in Requests, Call(r)
    PROVE  /\ \E q \in Calling :
                /\ RoundTrip(r, q) /\ q.result = NoResult /\ q.index = 0 /\ q.got = <<>>
                /\ <<q.kind, q.call>> \in {<<"list", "list">>, <<"import", "sketch">>,
                                           <<"upload", "login">>, <<"validate", "login">>}
           /\ req[r] = Idle
           /\ mu' = mu /\ loggedIn' = loggedIn /\ csrfToken' = csrfToken /\ jar' = jar
           /\ accepts' = accepts /\ session' = session /\ issued' = issued
           /\ starred' = starred /\ stored' = stored /\ moved' = moved
<1>1. req[r].pc = "idle"
  BY DEF Call, List, Import, Upload, Validate, At
<1>2. /\ req[r] = Idle /\ req[r] \in Calling
      /\ req[r].result = NoResult /\ req[r].index = 0 /\ req[r].got = <<>>
  BY <1>1, SessionSets, IdleCalling DEF Reached
<1>3. /\ mu' = mu /\ loggedIn' = loggedIn /\ csrfToken' = csrfToken /\ jar' = jar
      /\ accepts' = accepts /\ session' = session /\ issued' = issued
      /\ starred' = starred /\ stored' = stored /\ moved' = moved
  BY DEF Call, List, Import, Upload, Validate, client, server
<1>4. CASE List(r)
  <2> DEFINE q == [req[r] EXCEPT !.kind = "list", !.call = "list"]
  <2>1. /\ q \in Calling /\ q.result = NoResult /\ q.kind = "list" /\ q.call = "list"
        /\ q.index = 0 /\ q.got = <<>>
    BY <1>2 DEF Calling, Kinds, Calls
  <2>2. RoundTrip(r, q) BY <1>4 DEF List
  <2> HIDE DEF q
  <2> QED BY <1>2, <1>3, <2>1, <2>2
<1>5. CASE Import(r)
  <2> DEFINE q == [req[r] EXCEPT !.kind = "import", !.call = "sketch"]
  <2>1. /\ q \in Calling /\ q.result = NoResult /\ q.kind = "import" /\ q.call = "sketch"
        /\ q.index = 0 /\ q.got = <<>>
    BY <1>2 DEF Calling, Kinds, Calls
  <2>2. RoundTrip(r, q) BY <1>5 DEF Import
  <2> HIDE DEF q
  <2> QED BY <1>2, <1>3, <2>1, <2>2
<1>6. CASE Upload(r)
  <2>1. PICK size \in Sizes : RoundTrip(r, [req[r] EXCEPT !.kind = "upload", !.call = "login", !.size = size])
    BY <1>6 DEF Upload
  <2> DEFINE q == [req[r] EXCEPT !.kind = "upload", !.call = "login", !.size = size]
  <2>2. /\ q \in Calling /\ q.result = NoResult /\ q.kind = "upload" /\ q.call = "login"
        /\ q.index = 0 /\ q.got = <<>>
    BY <1>2 DEF Calling, Kinds, Calls
  <2>3. RoundTrip(r, q) BY <2>1
  <2> HIDE DEF q
  <2> QED BY <1>2, <1>3, <2>2, <2>3
<1>7. CASE Validate(r)
  <2> DEFINE q == [req[r] EXCEPT !.kind = "validate", !.call = "login"]
  <2>1. /\ q \in Calling /\ q.result = NoResult /\ q.kind = "validate" /\ q.call = "login"
        /\ q.index = 0 /\ q.got = <<>>
    BY <1>2 DEF Calling, Kinds, Calls
  <2>2. RoundTrip(r, q) BY <1>7 DEF Validate
  <2> HIDE DEF q
  <2> QED BY <1>2, <1>3, <2>1, <2>2
<1> QED BY <1>4, <1>5, <1>6, <1>7 DEF Call

\* The callers keep the session invariant.
LEMMA CallSession ==
    ASSUME SessionInv, NEW r \in Requests, Call(r)
    PROVE  SessionInv'
<1>1. PICK q \in Calling :
        /\ RoundTrip(r, q) /\ q.result = NoResult /\ q.index = 0 /\ q.got = <<>>
        /\ <<q.kind, q.call>> \in {<<"list", "list">>, <<"import", "sketch">>,
                                   <<"upload", "login">>, <<"validate", "login">>}
  BY CallIs
<1>2. req[r].pc \notin Held
  <2>1. req[r] = Idle BY CallIs
  <2> QED BY <2>1 DEF Idle, Held
<1>3. \A p \in Calling : Begins(p, q) => Reached(p)
  BY <1>1, FreshReached DEF Begins
<1> QED BY <1>1, <1>2, <1>3, CallIs, SessionSets, RoundTripSession

-----------------------------------------------------------------------------

\* The results are none.
LEMMA ResultsAre ==
    /\ NoResult \notin {"ok", "login", "refused", "error"}
    /\ {"ok", "login", "refused", "error"} \subseteq Results
BY ClientAssumption DEF Results

\* Who has the mutex.
LEMMA Holding ==
    ASSUME SessionInv, NEW r \in Requests
    PROVE  /\ req[r].pc \in Held => mu = r /\ ~loggedIn
           /\ req[r].pc \notin Held => mu # r
           /\ mu \in Requests \cup {NoReq} /\ NoReq # r
           /\ mu # NoReq => ~loggedIn
           /\ loggedIn \in BOOLEAN
BY ClientAssumption DEF SessionInv, HolderInv, CallsInv, Held

\* ensureSession: with a session the call goes on, without one the mutex is taken.
LEMMA EnsureSession ==
    ASSUME SessionInv, NEW r \in Requests, ensureSession(r)
    PROVE  SessionInv'
<1>1. /\ CallsInv /\ TokenInv /\ req[r] \in Calling /\ Reached(req[r]) /\ req[r].pc = "ensure"
      /\ mu = NoReq /\ moved \subseteq Requests /\ disturbed \subseteq Requests
      /\ req[r].result = NoResult /\ ~req[r].retried
  BY SessionSets DEF ensureSession, At, Reached
<1>2. /\ csrfToken' = csrfToken /\ jar' = jar /\ loggedIn' = loggedIn /\ accepts' = accepts
      /\ session' = session /\ issued' = issued /\ starred' = starred
      /\ moved' = moved /\ disturbed' = disturbed
  BY DEF ensureSession, server, hist
<1>3. CASE loggedIn /\ LoggedIn(r) /\ mu' = mu
  <2>1. /\ req' \in [Requests -> Calling] /\ Others(r) /\ Reached(req'[r])
        /\ req'[r].pc \in {"token", "done", "build"}
        /\ req'[r].pc = "token" => req'[r].retried = req[r].retried
        /\ req'[r].pc = "done" => req'[r].result = "ok"
        /\ req'[r].pc # "done" => req'[r].result = NoResult
    BY <1>1, <1>3, LoggedInIs
  <2>2. Relies(req'[r])
    BY <1>1, <1>3, <2>1, ResultsAre DEF Relies, TokenInv
  <2>3. req[r].pc \notin Held /\ req'[r].pc \notin Held BY <1>1, <2>1 DEF Held
  <2> QED BY <1>1, <1>2, <1>3, <2>1, <2>2, <2>3, QuietMoves
<1>4. CASE ~loggedIn /\ mu' = r /\ Go(r, "post")
  <2>1. "post" \in Points BY DEF Points
  <2>2. /\ req' \in [Requests -> Calling] /\ Others(r)
        /\ Same(req'[r], req[r]) /\ req'[r].pc = "post" /\ req'[r].retried = req[r].retried
        /\ req'[r].result = req[r].result
    BY <1>1, <1>4, <2>1, GoIs
  <2>3. Reached(req'[r]) BY <1>1, <2>2, ResultsAre DEF Reached, Same
  <2>4. Relies(req'[r]) BY <1>1, <2>2, FreshRelies
  <2>5. req'[r].pc \in Held BY <2>2 DEF Held
  <2> QED BY <1>1, <1>2, <1>4, <2>2, <2>3, <2>4, <2>5, Holding, SessionMoves
<1> QED BY <1>3, <1>4 DEF ensureSession

\* relogin takes the mutex and forgets the login.
LEMMA ReloginSession ==
    ASSUME SessionInv, NEW r \in Requests, relogin(r)
    PROVE  SessionInv'
<1>1. /\ CallsInv /\ req[r] \in Calling /\ Reached(req[r]) /\ req[r].pc = "relogin"
      /\ mu = NoReq /\ moved \subseteq Requests /\ disturbed \subseteq Requests
      /\ req[r].result = NoResult
  BY SessionSets DEF relogin, At, Reached
<1>2. /\ csrfToken' = csrfToken /\ jar' = jar /\ loggedIn' = FALSE /\ accepts' = accepts
      /\ session' = session /\ issued' = issued /\ starred' = starred
      /\ moved' = moved /\ disturbed' = disturbed /\ mu' = r /\ Go(r, "post")
  BY DEF relogin, server, hist
<1>3. "post" \in Points BY DEF Points
<1>4. /\ req' \in [Requests -> Calling] /\ Others(r)
      /\ Same(req'[r], req[r]) /\ req'[r].pc = "post" /\ req'[r].retried = req[r].retried
      /\ req'[r].result = req[r].result
  BY <1>1, <1>2, <1>3, GoIs
<1>5. Reached(req'[r]) BY <1>1, <1>4, ResultsAre DEF Reached, Same
<1>6. Relies(req'[r]) BY <1>1, <1>4, FreshRelies
<1>7. req'[r].pc \in Held BY <1>4 DEF Held
<1> QED BY <1>1, <1>2, <1>4, <1>5, <1>6, <1>7, Holding, SessionMoves

\* The session of the others changes: who was in a round trip is disturbed.
LEMMA LoneApart ==
    ASSUME SessionInv, NEW p \in Requests, p \notin disturbed, ~Underway(p)
    PROVE  /\ req[p].pc \in {"idle", "build", "done"}
           /\ req[p].result \in {"refused", "login"} => ~accepts
BY DEF SessionInv, LoneInv, Relies, Underway, Running, At

\* login: the new session is the one of the cookie, all others lose theirs.
LEMMA LoginSession ==
    ASSUME SessionInv, NEW r \in Requests, login(r)
    PROVE  SessionInv'
<1>1. /\ CallsInv /\ TokenInv /\ req[r] \in Calling /\ Reached(req[r]) /\ req[r].pc = "post"
      /\ moved \subseteq Requests /\ disturbed \subseteq Requests /\ req[r].result = NoResult
  BY SessionSets DEF login, At, Reached
<1>2. /\ csrfToken' = csrfToken /\ loggedIn' = loggedIn /\ accepts' = accepts
      /\ starred' = starred /\ moved' = moved /\ mu' = mu /\ Go(r, "probe")
  BY DEF login
<1>3. "probe" \in Points BY DEF Points
<1>4. /\ req' \in [Requests -> Calling] /\ Others(r)
      /\ Same(req'[r], req[r]) /\ req'[r].pc = "probe" /\ req'[r].retried = req[r].retried
      /\ req'[r].result = req[r].result
  BY <1>1, <1>2, <1>3, GoIs
<1>5. Reached(req'[r]) BY <1>1, <1>4, ResultsAre DEF Reached, Same
<1>6. req[r].pc \in Held /\ req'[r].pc \in Held BY <1>1, <1>4 DEF Held
<1>7. mu = r /\ ~loggedIn BY <1>6, Holding
<1>8. CASE accepts /\ NewSession(r) /\ jar' = issued + 1
  <2>1. /\ issued' = issued + 1 /\ session' = issued + 1
        /\ disturbed' = (disturbed \cup {o \in Requests : Underway(o)}) \ {r}
    BY <1>8 DEF NewSession
  <2>2. CallsInv'
    <3>1. \A p \in Requests : Reached(req'[p]) BY <1>1, <1>4, <1>5 DEF Others, CallsInv
    <3> QED BY <1>1, <1>2, <1>4, <2>1, <3>1 DEF CallsInv
  <2>3. HolderInv'
    <3>1. \A p \in Requests : req'[p].pc \in Held <=> mu' = p
      BY <1>2, <1>4, <1>6 DEF SessionInv, HolderInv, Others, Held
    <3> QED BY <1>2, <1>7, <3>1 DEF SessionInv, HolderInv, Held
  <2>4. TokenInv' BY <1>1, <1>2, <1>7, <1>8, <2>1 DEF TokenInv
  <2>5. LoneInv'
    <3> SUFFICES ASSUME NEW p \in Requests, p \notin disturbed' PROVE Relies(req[p])'
      BY DEF LoneInv
    <3>1. CASE p = r
      <4>1. jar' # 0 /\ jar' = session' BY <1>1, <1>8, <2>1 DEF TokenInv
      <4> QED BY <1>1, <1>4, <3>1, <4>1, ResultsAre DEF Relies, Live
    <3>2. CASE p # r
      <4>1. p \notin disturbed /\ ~Underway(p) BY <2>1, <3>2
      <4>2. req'[p] = req[p] BY <1>4, <3>2 DEF Others
      <4> QED BY <1>2, <4>1, <4>2, LoneApart DEF Relies
    <3> QED BY <3>1, <3>2
  <2> QED BY <2>2, <2>3, <2>4, <2>5 DEF SessionInv
<1>9. CASE ~accepts /\ jar' = jar /\ issued' = issued /\ session' = session /\ disturbed' = disturbed
  <2>1. Relies(req'[r]) BY <1>1, <1>4, <1>9, ResultsAre DEF Relies
  <2> QED BY <1>1, <1>2, <1>4, <1>5, <1>6, <1>7, <1>9, <2>1, Holding, SessionMoves
<1> QED BY <1>8, <1>9 DEF login

\* probe: with the right credentials a session nobody took is live.
LEMMA ProbeSession ==
    ASSUME SessionInv, NEW r \in Requests, probe(r)
    PROVE  SessionInv'
<1>1. /\ CallsInv /\ req[r] \in Calling /\ Reached(req[r]) /\ req[r].pc = "probe"
      /\ moved \subseteq Requests /\ disturbed \subseteq Requests
      /\ req[r].result = NoResult /\ req[r].pc \in Held
      /\ r \notin disturbed => Relies(req[r])
  BY SessionSets DEF probe, At, Reached, LoneInv, Held
<1>2. /\ csrfToken' = csrfToken /\ jar' = jar /\ loggedIn' = loggedIn /\ accepts' = accepts
      /\ session' = session /\ issued' = issued /\ starred' = starred
      /\ moved' = moved /\ disturbed' = disturbed
  BY DEF probe, server, hist
<1>3. CASE Live /\ Go(r, "rotate") /\ mu' = mu
  <2>1. "rotate" \in Points BY DEF Points
  <2>2. /\ req' \in [Requests -> Calling] /\ Others(r)
        /\ Same(req'[r], req[r]) /\ req'[r].pc = "rotate" /\ req'[r].retried = req[r].retried
        /\ req'[r].result = req[r].result
    BY <1>1, <1>3, <2>1, GoIs
  <2>3. Reached(req'[r]) BY <1>1, <2>2, ResultsAre DEF Reached, Same
  <2>4. Relies(req'[r]) BY <1>1, <1>3, <2>2, ResultsAre DEF Relies
  <2>5. req'[r].pc \in Held BY <2>2 DEF Held
  <2> QED BY <1>1, <1>2, <1>3, <2>2, <2>3, <2>4, <2>5, Holding, SessionMoves
<1>4. CASE ~Live /\ End(r, "login") /\ mu' = NoReq
  <2>1. "login" \in Results BY ResultsAre
  <2>2. /\ req' \in [Requests -> Calling] /\ Others(r)
        /\ Same(req'[r], req[r]) /\ req'[r].pc = "done" /\ req'[r].retried = FALSE
        /\ req'[r].result = "login"
    BY <1>1, <1>4, <2>1, EndIs
  <2>3. Reached(req'[r]) BY <1>1, <2>2, ResultsAre DEF Reached, Same
  <2>4. r \notin disturbed' => Relies(req'[r]) BY <1>1, <1>2, <1>4, <2>2 DEF Relies
  <2>5. req'[r].pc \notin Held BY <2>2 DEF Held
  <2>6. mu = r /\ NoReq \notin Requests BY <1>1, Holding, ClientAssumption
  <2> QED BY <1>1, <1>2, <1>4, <2>2, <2>3, <2>4, <2>5, <2>6, Holding, SessionMoves
<1> QED BY <1>3, <1>4 DEF probe

\* rotate: the token is that of the live session.
LEMMA RotateSession ==
    ASSUME SessionInv, NEW r \in Requests, rotate(r)
    PROVE  SessionInv'
<1>1. /\ CallsInv /\ TokenInv /\ req[r] \in Calling /\ Reached(req[r]) /\ req[r].pc = "rotate"
      /\ moved \subseteq Requests /\ disturbed \subseteq Requests
      /\ req[r].result = NoResult /\ req[r].pc \in Held
      /\ r \notin disturbed => Relies(req[r])
  BY SessionSets DEF rotate, At, Reached, LoneInv, Held
<1>2. /\ csrfToken' = (IF Live THEN jar ELSE 0) /\ jar' = jar /\ loggedIn' = TRUE
      /\ accepts' = accepts /\ session' = session /\ issued' = issued /\ starred' = starred
      /\ moved' = moved /\ disturbed' = disturbed /\ mu' = NoReq
      /\ LoggedIn(r)
  BY DEF rotate, server, hist, Page
<1>3. mu = r /\ NoReq \notin Requests BY <1>1, Holding, ClientAssumption
<1>4. /\ req' \in [Requests -> Calling] /\ Others(r) /\ Reached(req'[r])
      /\ req'[r].pc \in {"token", "done", "build"}
      /\ req'[r].pc = "token" => req'[r].retried = req[r].retried
      /\ req'[r].pc = "done" => req'[r].result = "ok"
      /\ req'[r].pc # "done" => req'[r].result = NoResult
  BY <1>1, <1>2, LoggedInIs
<1>5. CallsInv'
  <2>1. \A p \in Requests : Reached(req'[p]) BY <1>1, <1>4 DEF Others, CallsInv
  <2> QED BY <1>1, <1>2, <1>4, <2>1 DEF CallsInv
<1>6. HolderInv'
  <2>1. \A p \in Requests : req'[p].pc \in Held <=> mu' = p
    BY <1>2, <1>3, <1>4 DEF SessionInv, HolderInv, Others, Held
  <2> QED BY <1>2, <2>1 DEF HolderInv, Held
<1>7. TokenInv' BY <1>1, <1>2 DEF TokenInv, Live
<1>8. LoneInv'
  <2> SUFFICES ASSUME NEW p \in Requests, p \notin disturbed' PROVE Relies(req[p])'
    BY DEF LoneInv
  <2>1. CASE p = r
    BY <1>1, <1>2, <1>4, <2>1, ResultsAre DEF Relies, Live
  <2>2. CASE p # r
    <3>1. req'[p] = req[p] /\ Relies(req[p]) BY <1>2, <1>4, <2>2 DEF Others, SessionInv, LoneInv
    <3> QED BY <1>2, <3>1 DEF Relies, Live
  <2> QED BY <2>1, <2>2
<1> QED BY <1>5, <1>6, <1>7, <1>8 DEF SessionInv

-----------------------------------------------------------------------------

\* What a request at a call knows.
LEMMA AtCall ==
    ASSUME SessionInv, NEW r \in Requests, req[r].pc \in {"token", "send", "sent"}
    PROVE  /\ CallsInv /\ req[r] \in Calling /\ Reached(req[r]) /\ req[r].pc \notin Held
           /\ moved \subseteq Requests /\ disturbed \subseteq Requests
           /\ req[r].result = NoResult /\ req[r].call # "login"
           /\ r \notin disturbed => Relies(req[r])
BY SessionSets DEF Reached, LoneInv, Held

\* token reads the token of the session, if it lives.
LEMMA TokenSession ==
    ASSUME SessionInv, NEW r \in Requests, token(r)
    PROVE  SessionInv'
<1>1. req[r].pc = "token" /\ mu = NoReq BY DEF token, At
<1>2. /\ mu' = mu /\ csrfToken' = csrfToken /\ jar' = jar /\ loggedIn' = loggedIn
      /\ accepts' = accepts /\ session' = session /\ issued' = issued /\ starred' = starred
      /\ moved' = moved /\ disturbed' = disturbed
      /\ Become(r, [req[r] EXCEPT !.pc = "send", !.tok = csrfToken])
  BY DEF token, client, server, hist
<1> DEFINE q == [req[r] EXCEPT !.pc = "send", !.tok = csrfToken]
<1>3. csrfToken \in Nat BY DEF SessionInv, TokenInv
<1>4. /\ q \in Calling /\ Same(q, req[r]) /\ q.pc = "send" /\ q.tok = csrfToken
      /\ q.retried = req[r].retried /\ q.result = req[r].result
  BY <1>1, <1>3, AtCall, ZenonT(60) DEF Calling, Points, Same
<1>5. Become(r, q) BY <1>2
<1> HIDE DEF q
<1>6. req' \in [Requests -> Calling] /\ req'[r] = q /\ Others(r) BY <1>1, <1>4, <1>5, AtCall, BecomeIs
<1>7. Reached(q) BY <1>1, <1>4, AtCall, ResultsAre DEF Reached, Same
<1>8. r \notin disturbed => Relies(q) BY <1>1, <1>4, AtCall, ResultsAre DEF Relies
<1>9. q.pc \notin Held BY <1>4 DEF Held
<1> QED BY <1>1, <1>2, <1>6, <1>7, <1>8, <1>9, AtCall, QuietMoves

\* send takes the cookie along: the token read is its token, if it lives.
LEMMA SendSession ==
    ASSUME SessionInv, NEW r \in Requests, send(r)
    PROVE  SessionInv'
<1>1. req[r].pc = "send" BY DEF send, At
<1>2. /\ mu' = mu /\ csrfToken' = csrfToken /\ jar' = jar /\ loggedIn' = loggedIn
      /\ accepts' = accepts /\ session' = session /\ issued' = issued /\ starred' = starred
      /\ moved' = moved /\ disturbed' = disturbed
      /\ Become(r, [req[r] EXCEPT !.pc = "sent", !.cookie = jar])
  BY DEF send, client, server, hist
<1> DEFINE q == [req[r] EXCEPT !.pc = "sent", !.cookie = jar]
<1>3. jar \in Nat BY DEF SessionInv, TokenInv
<1>4. /\ q \in Calling /\ Same(q, req[r]) /\ q.pc = "sent" /\ q.cookie = jar /\ q.tok = req[r].tok
      /\ q.retried = req[r].retried /\ q.result = req[r].result
  BY <1>1, <1>3, AtCall, ZenonT(60) DEF Calling, Points, Same
<1>5. Become(r, q) BY <1>2
<1> HIDE DEF q
<1>6. req' \in [Requests -> Calling] /\ req'[r] = q /\ Others(r) BY <1>1, <1>4, <1>5, AtCall, BecomeIs
<1>7. Reached(q) BY <1>1, <1>4, AtCall, ResultsAre DEF Reached, Same
<1>8. r \notin disturbed => Relies(q) BY <1>1, <1>4, AtCall, ResultsAre DEF Relies, Live
<1>9. q.pc \notin Held BY <1>4 DEF Held
<1> QED BY <1>1, <1>2, <1>6, <1>7, <1>8, <1>9, AtCall, QuietMoves

\* Refused twice: the session was taken, or the credentials are wrong.
LEMMA RefusedSession ==
    ASSUME SessionInv, NEW r \in Requests, Refused(r)
    PROVE  SessionInv'
<1>1. req[r].pc = "sent" /\ ~Authorized(r) BY DEF Refused, At
<1>2. /\ mu' = mu /\ csrfToken' = csrfToken /\ jar' = jar /\ loggedIn' = loggedIn
      /\ accepts' = accepts /\ session' = session /\ issued' = issued /\ starred' = starred
      /\ moved' = moved /\ disturbed' = disturbed
  BY DEF Refused, client, server, hist
<1>3. CASE Become(r, [req[r] EXCEPT !.pc = "relogin", !.retried = TRUE, !.tok = 0, !.cookie = 0])
  <2> DEFINE q == [req[r] EXCEPT !.pc = "relogin", !.retried = TRUE, !.tok = 0, !.cookie = 0]
  <2>1. /\ q \in Calling /\ Same(q, req[r]) /\ q.pc = "relogin" /\ q.result = req[r].result
    BY <1>1, AtCall, ZenonT(60) DEF Calling, Points, Same
  <2>2. Become(r, q) BY <1>3
  <2> HIDE DEF q
  <2>3. req' \in [Requests -> Calling] /\ req'[r] = q /\ Others(r)
    BY <1>1, <2>1, <2>2, AtCall, BecomeIs
  <2>4. Reached(q) BY <1>1, <2>1, AtCall, ResultsAre DEF Reached, Same
  <2>5. Relies(q) BY <1>1, <2>1, AtCall, FreshRelies
  <2>6. q.pc \notin Held BY <2>1 DEF Held
  <2> QED BY <1>1, <1>2, <2>3, <2>4, <2>5, <2>6, AtCall, QuietMoves
<1>4. CASE (req[r].retried \/ Known(r)) /\ End(r, "refused")
  <2>1. "refused" \in Results BY ResultsAre
  <2>2. /\ req' \in [Requests -> Calling] /\ Others(r)
        /\ Same(req'[r], req[r]) /\ req'[r].pc = "done" /\ req'[r].retried = FALSE
        /\ req'[r].result = "refused"
    BY <1>1, <1>4, <2>1, AtCall, EndIs
  <2>3. Reached(req'[r]) BY <1>1, <2>2, AtCall, ResultsAre DEF Reached, Same
  <2>4. r \notin disturbed => Relies(req'[r])
    <3> SUFFICES ASSUME r \notin disturbed PROVE Relies(req'[r])
      OBVIOUS
    <3>1. Relies(req[r]) BY <1>1, AtCall
    <3>2. ~Known(r) BY <1>1, <3>1 DEF Relies, Authorized, Known
    <3>3. ~accepts BY <1>1, <1>4, <3>1, <3>2 DEF Relies, Known
    <3> QED BY <2>2, <3>3 DEF Relies
  <2>5. req'[r].pc \notin Held BY <2>2 DEF Held
  <2> QED BY <1>1, <1>2, <2>2, <2>3, <2>4, <2>5, AtCall, QuietMoves
<1> QED BY <1>3, <1>4 DEF Refused

\* A request that ends with an answer.
LEMMA EndSession ==
    ASSUME SessionInv, NEW r \in Requests, req[r].pc = "sent",
           req' \in [Requests -> Calling], Others(r),
           \/ Same(req'[r], req[r])
           \/ req'[r].kind = req[r].kind /\ req'[r].call = "explore" /\ req[r].call = "explore",
           req'[r].pc = "done", req'[r].retried = FALSE, req'[r].result \in {"ok", "error"},
           req'[r].result = "ok" => req[r].call # "sketch",
           mu' = mu, loggedIn' = loggedIn, csrfToken' = csrfToken, jar' = jar,
           accepts' = accepts, session' = session, issued' = issued, starred' = starred,
           moved' \subseteq Requests, disturbed' \subseteq Requests,
           disturbed \ {r} \subseteq disturbed'
    PROVE  SessionInv'
<1>1. Reached(req'[r]) BY AtCall, ResultsAre DEF Reached, Same
<1>2. Relies(req'[r]) BY DEF Relies
<1>3. req'[r].pc \notin Held BY DEF Held
<1> QED BY <1>1, <1>2, <1>3, AtCall, QuietMoves

\* ListSketches and GetSketch.
LEMMA AnsweredSession ==
    ASSUME SessionInv, NEW r \in Requests, Answered(r)
    PROVE  SessionInv'
<1>1. req[r].pc = "sent" BY DEF Answered, At
<1>2. /\ mu' = mu /\ csrfToken' = csrfToken /\ jar' = jar /\ loggedIn' = loggedIn
      /\ accepts' = accepts /\ session' = session /\ issued' = issued /\ starred' = starred
  BY DEF Answered, client, server
<1>3. CASE req[r].call = "list" /\ End(r, "ok") /\ disturbed' = disturbed /\ moved' = moved
  <2>1. "ok" \in Results BY ResultsAre
  <2>2. /\ req' \in [Requests -> Calling] /\ Others(r)
        /\ Same(req'[r], req[r]) /\ req'[r].pc = "done" /\ req'[r].retried = FALSE
        /\ req'[r].result = "ok"
    BY <1>1, <1>3, <2>1, AtCall, EndIs
  <2> QED BY <1>1, <1>2, <1>3, <2>2, AtCall, EndSession
<1>4. CASE /\ req[r].call = "sketch" /\ RoundTrip(r, [req[r] EXCEPT !.call = "explore"])
           /\ moved' = moved \ {r}
  <2> DEFINE q == [req[r] EXCEPT !.call = "explore"]
  <2>1. /\ q \in Calling /\ q.kind = req[r].kind /\ q.call = "explore" /\ q.result = NoResult
    BY <1>1, AtCall, ZenonT(60) DEF Calling, Calls
  <2>2. RoundTrip(r, q) BY <1>4
  <2> HIDE DEF q
  <2>3. \A p \in Calling : Begins(p, q) => Reached(p)
    BY <1>1, <1>4, <2>1, AtCall, ResultsAre DEF Begins, Same, Reached
  <2>4. moved' \subseteq Requests BY <1>1, <1>4, AtCall
  <2> QED BY <1>1, <1>2, <2>1, <2>2, <2>3, <2>4, AtCall, RoundTripSession
<1> QED BY <1>3, <1>4 DEF Answered

\* A page of the result set.
LEMMA PageTyped ==
    ASSUME SessionInv, NEW n \in Nat
    PROVE  PageAt(n) \in Seq(Events) /\ Len(PageAt(n)) \in Nat /\ Result \in Seq(Events)
<1>1. Result \in Seq(Events) BY ResultTyped DEF SessionInv, CallsInv
<1>2. PageAt(n) \in Seq(Events) BY <1>1, ClientAssumption, SliceTyped DEF PageAt
<1> QED BY <1>1, <1>2

\* ExploreAll goes on or ends.
LEMMA ExploreSession ==
    ASSUME SessionInv, NEW r \in Requests, explore(r)
    PROVE  SessionInv'
<1>1. req[r].pc = "sent" /\ req[r].call = "explore" BY DEF explore, At
<1>2. /\ mu' = mu /\ csrfToken' = csrfToken /\ jar' = jar /\ loggedIn' = loggedIn
      /\ accepts' = accepts /\ session' = session /\ issued' = issued /\ starred' = starred
      /\ moved' = moved
  BY DEF explore, client, server
<1> DEFINE page == PageAt(req[r].index)
           got == req[r].got \o page
           next == NextFrom(r, page)
<1>3. got \in Seq(Events) /\ next \in Nat
  <2>1. req[r].index \in Nat /\ req[r].got \in Seq(Events) BY <1>1, AtCall DEF Calling
  <2>2. page \in Seq(Events) /\ Len(page) \in Nat BY <2>1, PageTyped
  <2> HIDE DEF page
  <2>3. got \in Seq(Events) BY <2>1, <2>2
  <2>4. next \in Nat BY <2>1, <2>2 DEF NextFrom
  <2> QED BY <2>3, <2>4
<1>4. \/ RoundTrip(r, [req[r] EXCEPT !.got = got, !.index = next])
      \/ /\ Become(r, [Over(req[r]) EXCEPT !.pc = "done", !.result = "ok", !.got = got])
         /\ disturbed' = disturbed
  BY DEF explore
<1> HIDE DEF got, next
<1>5. CASE RoundTrip(r, [req[r] EXCEPT !.got = got, !.index = next])
  <2> DEFINE q == [req[r] EXCEPT !.got = got, !.index = next]
  <2>1. /\ q \in Calling /\ q.kind = req[r].kind /\ q.call = "explore" /\ q.result = NoResult
    BY <1>1, <1>3, AtCall, ZenonT(60) DEF Calling
  <2>2. RoundTrip(r, q) BY <1>5
  <2> HIDE DEF q
  <2>3. \A p \in Calling : Begins(p, q) => Reached(p)
    BY <1>1, <2>1, AtCall, ResultsAre DEF Begins, Same, Reached
  <2> QED BY <1>1, <1>2, <2>1, <2>2, <2>3, AtCall, RoundTripSession
<1>6. CASE /\ Become(r, [Over(req[r]) EXCEPT !.pc = "done", !.result = "ok", !.got = got])
           /\ disturbed' = disturbed
  <2> DEFINE q == [Over(req[r]) EXCEPT !.pc = "done", !.result = "ok", !.got = got]
  <2>1. <<>> \in Seq(Nat) BY EmptySeq
  <2>2. /\ q \in Calling /\ q.kind = req[r].kind /\ q.call = "explore" /\ q.result = "ok"
        /\ q.pc = "done" /\ q.retried = FALSE
    BY <1>1, <1>3, <2>1, AtCall, ResultsAre, ZenonT(60) DEF Calling, Points, Over
  <2>3. Become(r, q) BY <1>6
  <2> HIDE DEF q
  <2>4. req' \in [Requests -> Calling] /\ req'[r] = q /\ Others(r)
    BY <1>1, <2>2, <2>3, AtCall, BecomeIs
  <2> QED BY <1>1, <1>2, <1>6, <2>2, <2>4, AtCall, EndSession
<1> QED BY <1>4, <1>5, <1>6

\* Sizes are numbers.
LEMMA SizesAre == \A x \in Sizes \cup {0} : x \in Nat
BY ClientAssumption

\* The bytes of a file.
LEMMA FileIs ==
    ASSUME NEW size \in Nat
    PROVE  File(size) \in Seq(Nat) /\ Len(File(size)) = size
BY DEF File

\* Upload reads the next bytes.
LEMMA BuildSession ==
    ASSUME SessionInv, NEW r \in Requests, Build(r)
    PROVE  SessionInv'
<1>1. /\ req[r].pc = "build" /\ req[r] \in Calling /\ Reached(req[r]) /\ req[r].pc \notin Held
      /\ req[r].result = NoResult /\ moved \subseteq Requests /\ CallsInv
  BY SessionSets DEF Build, At, Reached, Held
<1>2. /\ mu' = mu /\ csrfToken' = csrfToken /\ jar' = jar /\ loggedIn' = loggedIn
      /\ accepts' = accepts /\ session' = session /\ issued' = issued /\ starred' = starred
      /\ moved' = moved
  BY DEF Build, client, server
<1> DEFINE body == Slice(File(req[r].size), req[r].index * ChunkSize, ChunkSize)
           q == [req[r] EXCEPT !.body = body]
<1>3. body \in Seq(Nat)
  <2>1. req[r].size \in Nat /\ req[r].index \in Nat
    <3>1. req[r].size \in Sizes \cup {0} /\ req[r].index \in Nat BY <1>1 DEF Calling
    <3>2. \A x \in Sizes \cup {0} : x \in Nat BY SizesAre
    <3> QED BY <3>1, <3>2, Zenon
  <2>2. req[r].index * ChunkSize \in Nat /\ ChunkSize \in Nat BY <2>1, ClientAssumption
  <2> QED BY <2>1, <2>2, FileIs, SliceTyped
<1>4. RoundTrip(r, q) BY DEF Build
<1> HIDE DEF body
<1>5. q \in Calling /\ Same(q, req[r]) /\ q.result = NoResult
  BY <1>1, <1>3 DEF Calling, Same
<1> HIDE DEF q
<1>6. \A p \in Calling : Begins(p, q) => Reached(p)
  BY <1>1, <1>5, ResultsAre DEF Begins, Same, Reached
<1> QED BY <1>1, <1>2, <1>4, <1>5, <1>6, RoundTripSession

\* Upload goes on or ends.
LEMMA UploadedSession ==
    ASSUME SessionInv, NEW r \in Requests, Uploaded(r)
    PROVE  SessionInv'
<1>1. req[r].pc = "sent" /\ req[r].call = "upload" BY DEF Uploaded, At
<1>2. /\ mu' = mu /\ csrfToken' = csrfToken /\ jar' = jar /\ loggedIn' = loggedIn
      /\ accepts' = accepts /\ session' = session /\ issued' = issued /\ starred' = starred
      /\ moved' = moved /\ disturbed' = disturbed \ {r}
  BY DEF Uploaded, client
<1>3. CASE Become(r, [Over(req[r]) EXCEPT !.pc = "build", !.index = @ + 1])
  <2> DEFINE q == [Over(req[r]) EXCEPT !.pc = "build", !.index = @ + 1]
  <2>1. <<>> \in Seq(Nat) BY EmptySeq
  <2>2. /\ q \in Calling /\ q.kind = req[r].kind /\ q.call = "upload" /\ q.result = NoResult
        /\ q.pc = "build" /\ q.retried = FALSE
    <3>1. req[r] \in Calling /\ req[r].index + 1 \in Nat BY <1>1, AtCall DEF Calling
    <3> QED BY <1>1, <2>1, <3>1, AtCall DEF Calling, Points, Over
  <2>3. Become(r, q) BY <1>3
  <2> HIDE DEF q
  <2>4. req' \in [Requests -> Calling] /\ req'[r] = q /\ Others(r)
    BY <1>1, <2>2, <2>3, AtCall, BecomeIs
  <2>5. Reached(q) BY <1>1, <2>2, AtCall, ResultsAre DEF Reached
  <2>6. Relies(q) BY <2>2, FreshRelies
  <2>7. q.pc \notin Held BY <2>2 DEF Held
  <2> QED BY <1>1, <1>2, <2>4, <2>5, <2>6, <2>7, AtCall, QuietMoves
<1>4. CASE End(r, "ok")
  <2>1. "ok" \in Results BY ResultsAre
  <2>2. /\ req' \in [Requests -> Calling] /\ Others(r)
        /\ Same(req'[r], req[r]) /\ req'[r].pc = "done" /\ req'[r].retried = FALSE
        /\ req'[r].result = "ok"
    BY <1>1, <1>4, <2>1, AtCall, EndIs
  <2> QED BY <1>1, <1>2, <2>2, AtCall, EndSession
<1> QED BY <1>3, <1>4 DEF Uploaded

\* A call that fails gives the mutex back; a login may have happened all the same.
LEMMA LostSession ==
    ASSUME SessionInv, NEW r \in Requests, Lost(r)
    PROVE  SessionInv'
<1>1. /\ CallsInv /\ TokenInv /\ req[r] \in Calling /\ Reached(req[r])
      /\ moved \subseteq Requests /\ disturbed \subseteq Requests
  BY SessionSets
<1>2. /\ csrfToken' = csrfToken /\ jar' = jar /\ loggedIn' = loggedIn /\ accepts' = accepts
      /\ starred' = starred /\ moved' = moved /\ mu' = (IF mu = r THEN NoReq ELSE mu)
      /\ End(r, "error")
  BY DEF Lost
<1>3. "error" \in Results BY ResultsAre
<1>4. /\ req' \in [Requests -> Calling] /\ Others(r)
      /\ Same(req'[r], req[r]) /\ req'[r].pc = "done" /\ req'[r].retried = FALSE
      /\ req'[r].result = "error"
  BY <1>1, <1>2, <1>3, EndIs
<1>5. req[r].pc # "idle"
  BY DEF Lost, At
<1>6. Reached(req'[r])
  BY <1>1, <1>4, <1>5, ResultsAre DEF Reached, Same
<1>7. Relies(req'[r]) BY <1>4 DEF Relies
<1>8. req'[r].pc \notin Held BY <1>4 DEF Held
<1>9. /\ mu' \in Requests \cup {NoReq} /\ mu' # r /\ (mu' # NoReq => ~loggedIn)
      /\ \A p \in Requests : p # r => (mu' = p <=> mu = p)
  BY <1>2, Holding, ClientAssumption
<1>10. CASE NewSession(r) /\ req[r].pc = "post"
  <2>1. /\ issued' = issued + 1 /\ session' = issued + 1
        /\ disturbed' = (disturbed \cup {o \in Requests : Underway(o)}) \ {r}
    BY <1>10 DEF NewSession
  <2>2. CallsInv'
    <3>1. \A p \in Requests : Reached(req'[p]) BY <1>1, <1>4, <1>6 DEF Others, CallsInv
    <3> QED BY <1>1, <1>2, <1>4, <2>1, <3>1 DEF CallsInv
  <2>3. HolderInv'
    <3>1. \A p \in Requests : req'[p].pc \in Held <=> mu' = p
      BY <1>4, <1>8, <1>9 DEF SessionInv, HolderInv, Others, Held
    <3> QED BY <1>2, <1>9, <3>1 DEF HolderInv, Held
  <2>4. TokenInv' BY <1>1, <1>2, <2>1 DEF TokenInv, Live
  <2>5. LoneInv'
    <3> SUFFICES ASSUME NEW p \in Requests, p \notin disturbed' PROVE Relies(req[p])'
      BY DEF LoneInv
    <3>1. CASE p = r
      BY <1>4, <3>1 DEF Relies
    <3>2. CASE p # r
      <4>1. p \notin disturbed /\ ~Underway(p) BY <2>1, <3>2
      <4>2. req'[p] = req[p] BY <1>4, <3>2 DEF Others
      <4> QED BY <1>2, <4>1, <4>2, LoneApart DEF Relies
    <3> QED BY <3>1, <3>2
  <2> QED BY <2>2, <2>3, <2>4, <2>5 DEF SessionInv
<1>11. CASE issued' = issued /\ session' = session /\ disturbed' = disturbed
  <2>1. loggedIn \in BOOLEAN BY Holding
  <2> QED BY <1>1, <1>2, <1>4, <1>6, <1>7, <1>8, <1>9, <1>11, <2>1, SessionMoves
<1> QED BY <1>10, <1>11 DEF Lost, At

\* The server drops the session: who was in a round trip is disturbed.
LEMMA ExpireSession ==
    ASSUME SessionInv, Expire
    PROVE  SessionInv'
<1>1. /\ mu' = mu /\ csrfToken' = csrfToken /\ jar' = jar /\ loggedIn' = loggedIn
      /\ accepts' = accepts /\ issued' = issued /\ starred' = starred /\ session' = 0
      /\ moved' = moved /\ disturbed' = disturbed \cup {r \in Requests : Underway(r)} /\ req' = req
  BY DEF Expire, client
<1>2. CallsInv' BY <1>1, SessionSets DEF CallsInv
<1>3. HolderInv' BY <1>1 DEF SessionInv, HolderInv
<1>4. TokenInv' BY <1>1 DEF SessionInv, TokenInv, Live
<1>5. LoneInv'
  <2> SUFFICES ASSUME NEW p \in Requests, p \notin disturbed' PROVE Relies(req[p])'
    BY DEF LoneInv
  <2>1. p \notin disturbed /\ ~Underway(p) BY <1>1
  <2> QED BY <1>1, <2>1, LoneApart DEF Relies
<1> QED BY <1>2, <1>3, <1>4, <1>5 DEF SessionInv

\* The starred events do not matter to sessions.
LEMMA StarSession ==
    ASSUME SessionInv, Star
    PROVE  SessionInv'
<1>1. /\ mu' = mu /\ csrfToken' = csrfToken /\ jar' = jar /\ loggedIn' = loggedIn
      /\ accepts' = accepts /\ issued' = issued /\ session' = session
      /\ disturbed' = disturbed /\ req' = req
      /\ moved' = moved \cup {r \in Requests : req[r].call = "explore"}
  BY DEF Star, client
<1>2. starred' \subseteq Events
  <2>1. PICK e \in Events : starred' = (IF e \in starred THEN starred \ {e} ELSE starred \cup {e})
    BY DEF Star
  <2>2. starred \subseteq Events BY DEF SessionInv, CallsInv
  <2> QED BY <2>1, <2>2
<1>3. moved' \subseteq Requests BY <1>1, SessionSets
<1>4. CallsInv' BY <1>1, <1>2, <1>3, SessionSets DEF CallsInv
<1>5. HolderInv' BY <1>1 DEF SessionInv, HolderInv
<1>6. TokenInv' BY <1>1 DEF SessionInv, TokenInv, Live
<1>7. LoneInv'
  BY <1>1 DEF SessionInv, LoneInv, Relies, Live
<1> QED BY <1>4, <1>5, <1>6, <1>7 DEF SessionInv

-----------------------------------------------------------------------------

\* The session invariant holds initially ...
LEMMA SessionInit == Init => SessionInv
<1> SUFFICES ASSUME Init PROVE SessionInv
  OBVIOUS
<1>1. /\ req = [r \in Requests |-> Idle] /\ Idle \in Calling
      /\ \A r \in Requests : req[r] = Idle
  BY IdleCalling DEF Init
<1>2. Reached(Idle)
  BY ResultsAre DEF Reached, Idle
<1>3. CallsInv
  <2>1. req \in [Requests -> Calling] BY <1>1
  <2> QED BY <1>1, <1>2, <2>1 DEF Init, CallsInv
<1>4. Idle.pc = "idle" /\ Idle.result = NoResult BY DEF Idle
<1>5. HolderInv BY <1>1, <1>4, ClientAssumption DEF Init, HolderInv
<1>6. TokenInv BY DEF Init, TokenInv, Live
<1>7. LoneInv BY <1>1, <1>4, FreshRelies DEF LoneInv
<1> QED BY <1>3, <1>5, <1>6, <1>7 DEF SessionInv

\* ... is kept by every step ...
LEMMA SessionNext == SessionInv /\ [Next]_vars => SessionInv'
<1> SUFFICES ASSUME SessionInv, [Next]_vars PROVE SessionInv'
  OBVIOUS
<1>1. CASE UNCHANGED vars
  <2>1. /\ mu' = mu /\ csrfToken' = csrfToken /\ jar' = jar /\ loggedIn' = loggedIn
        /\ accepts' = accepts /\ issued' = issued /\ session' = session /\ starred' = starred
        /\ disturbed' = disturbed /\ req' = req /\ moved' = moved
    BY <1>1 DEF vars, client, server, hist
  <2>2. CallsInv' BY <2>1, SessionSets DEF CallsInv
  <2>3. HolderInv' BY <2>1 DEF SessionInv, HolderInv
  <2>4. TokenInv' BY <2>1 DEF SessionInv, TokenInv, Live
  <2>5. LoneInv' BY <2>1 DEF SessionInv, LoneInv, Relies, Live
  <2> QED BY <2>2, <2>3, <2>4, <2>5 DEF SessionInv
<1>2. CASE Expire
  BY <1>2, ExpireSession
<1>3. CASE Star
  BY <1>3, StarSession
<1>4. ASSUME NEW r \in Requests, Call(r) PROVE SessionInv'
  BY <1>4, CallSession
<1>5. ASSUME NEW r \in Requests, Step(r) PROVE SessionInv'
  BY <1>5, EnsureSession, ReloginSession, LoginSession, ProbeSession, RotateSession, TokenSession, SendSession,
     RefusedSession, AnsweredSession, ExploreSession, BuildSession, UploadedSession, LostSession DEF Step
<1> QED BY <1>1, <1>2, <1>3, <1>4, <1>5 DEF Next

\* ... and implies the properties.
LEMMA SessionSafe == SessionInv => TypeOK /\ LoneRequestsAreServed
<1> SUFFICES ASSUME SessionInv PROVE TypeOK /\ LoneRequestsAreServed
  OBVIOUS
<1>1. ASSUME NEW r \in Requests
      PROVE  /\ req[r].kind \in Kinds /\ req[r].call \in Calls
             /\ req[r].pc \in {"idle", "build", "ensure", "relogin", "post", "probe",
                               "rotate", "token", "send", "sent", "done"}
             /\ req[r].result \in Results \cup {NoResult}
             /\ (req[r].pc = "done") = (req[r].result # NoResult)
             /\ (req[r].pc \in {"post", "probe", "rotate"}) = (mu = r)
             /\ Range(req[r].got) \subseteq Events
             /\ req[r].index \in Nat
  <2>1. req[r] \in Calling /\ Reached(req[r]) BY SessionSets
  <2>2. req[r].pc \in {"post", "probe", "rotate"} <=> mu = r BY DEF SessionInv, HolderInv
  <2>3. Range(req[r].got) \subseteq Events
    <3>1. req[r].got \in Seq(Events) BY <2>1 DEF Calling
    <3>2. \A i \in DOMAIN req[r].got : req[r].got[i] \in Events BY <3>1
    <3> QED BY <3>2, Zenon DEF Range
  <2> QED BY <2>1, <2>2, <2>3 DEF Calling, Reached, Points
<1>2. TypeOK
  BY <1>1 DEF TypeOK, SessionInv, CallsInv, HolderInv, TokenInv
<1>3. LoneRequestsAreServed
  BY DEF LoneRequestsAreServed, SessionInv, LoneInv, Relies
<1> QED BY <1>2, <1>3

\* Types, and who holds the mutex: exactly a request between login and rotate
\* (ensureSession, relogin), whatever fails.
THEOREM ClientTypeCorrect == Spec => []TypeOK
<1>1. Init => SessionInv BY SessionInit
<1>2. SessionInv /\ [Next]_vars => SessionInv' BY SessionNext
<1>3. SessionInv => TypeOK BY SessionSafe
<1> QED BY <1>1, <1>2, <1>3, PTL DEF Spec

\* With the right credentials a call is refused only if its session was taken after its
\* last login (roundtrip's one retry is enough).
THEOREM LoneRequestsGetThrough == Spec => []LoneRequestsAreServed
<1>1. Init => SessionInv BY SessionInit
<1>2. SessionInv /\ [Next]_vars => SessionInv' BY SessionNext
<1>3. SessionInv => LoneRequestsAreServed BY SessionSafe
<1> QED BY <1>1, <1>2, <1>3, PTL DEF Spec

-----------------------------------------------------------------------------
(* Transfers.                                                               *)

\* A file is sent in at least one chunk, and the chunks reach just to its end.
LEMMA ChunksReach ==
    ASSUME NEW size \in Nat
    PROVE  /\ Chunks(size) \in Nat \ {0}
           /\ Chunks(size) * ChunkSize >= size
           /\ (Chunks(size) - 1) * ChunkSize <= size
<1> DEFINE C == ChunkSize
           n == (size + C - 1) \div C
<1>1. C \in Nat \ {0} BY ClientAssumption
<1> HIDE DEF C
<1>2. n \in Nat /\ n * C <= size + C - 1 /\ size + C - 1 < (n + 1) * C
  BY <1>1
<1>3. (n + 1) * C = n * C + C BY <1>1, <1>2
<1>4. Chunks(size) = IF n = 0 THEN 1 ELSE n BY DEF Chunks, C
<1> HIDE DEF n
<1>5. CASE n = 0
  <2>1. n * C = 0 /\ 1 * C = C /\ 0 * C = 0 /\ Chunks(size) = 1 BY <1>1, <1>4, <1>5
  <2>2. size < C BY <1>1, <1>2, <1>3, <2>1
  <2> QED BY <1>1, <2>1, <2>2 DEF C
<1>6. CASE n # 0
  <2>1. Chunks(size) = n BY <1>4, <1>6
  <2>2. n - 1 \in Nat /\ n * C = (n - 1) * C + C /\ n * C \in Nat /\ (n - 1) * C \in Nat
    BY <1>1, <1>2, <1>6
  <2>3. n * C >= size /\ (n - 1) * C <= size BY <1>1, <1>2, <1>3, <2>2
  <2> QED BY <1>2, <1>6, <2>1, <2>3 DEF C
<1> QED BY <1>5, <1>6

\* What a request counts with.
LEMMA SizeOf ==
    ASSUME NEW q \in Calling
    PROVE  q.size \in Nat /\ q.index \in Nat /\ Chunks(q.size) \in Nat \ {0}
<1>1. q.size \in Sizes \cup {0} /\ q.index \in Nat BY DEF Calling
<1>2. q.size \in Nat BY <1>1, SizesAre, Zenon
<1> QED BY <1>1, <1>2, ChunksReach

\* One request moves on, and the result set does not change.
LEMMA TransferMoves ==
    ASSUME TransferInv, NEW r \in Requests, Others(r), starred' = starred,
           stored' \in [Requests -> Seq(ChunkSet)],
           \A p \in Requests : p # r => stored'[p] = stored[p],
           \A p \in Requests : p # r /\ p \notin moved' => p \notin moved,
           Sent(req'[r], stored'[r]),
           req'[r].call = "explore" /\ r \notin moved' => Received(req'[r])
    PROVE  TransferInv'
<1>1. Result' = Result BY DEF Result
<1>2. ASSUME NEW p \in Requests
      PROVE  /\ Sent(req'[p], stored'[p])
             /\ req'[p].call = "explore" /\ p \notin moved' => Received(req'[p])
  BY DEF TransferInv, Others
<1>3. \A q : Received(q) <=> Received(q)' BY <1>1 DEF Received
<1>4. ASSUME NEW p \in Requests, req'[p].call = "explore", p \notin moved'
      PROVE  Received(req[p])'
  <2>1. Received(req'[p]) BY <1>2, <1>4
  <2> QED BY <1>1, <2>1 DEF Received
<1> QED BY <1>2, <1>4 DEF TransferInv

\* What was sent stays so while a request goes through its round trip, and when it ends.
LEMMA SentGoesOn ==
    ASSUME NEW q, NEW p, NEW cs, Sent(q, cs), Same(p, q), q.pc \notin {"build", "done"},
           p.pc = "done" \/ (p.pc # "build" /\ p.body = q.body),
           p.result = "ok" => q.call # "upload"
    PROVE  Sent(p, cs)
BY DEF Sent, Same

\* So does what was received.
LEMMA ReceivedGoesOn ==
    ASSUME NEW q, NEW p, Received(q), Same(p, q), q.pc # "done", p.result # "ok"
    PROVE  Received(p)
BY DEF Received, Same

\* A step that sends nothing and receives nothing.
LEMMA TransferWaits ==
    ASSUME TransferInv, NEW r \in Requests, Others(r), starred' = starred,
           stored' = stored, moved' = moved,
           Same(req'[r], req[r]), req[r].pc \notin {"build", "done"},
           req'[r].pc = "done" \/ (req'[r].pc # "build" /\ req'[r].body = req[r].body),
           req'[r].result = "ok" => req[r].call \notin {"upload", "explore"}
    PROVE  TransferInv'
<1>1. Sent(req'[r], stored'[r]) BY SentGoesOn DEF TransferInv
<1>2. req'[r].call = "explore" /\ r \notin moved' => Received(req'[r])
  BY ReceivedGoesOn DEF TransferInv, Same
<1>3. stored' \in [Requests -> Seq(ChunkSet)] BY DEF TransferInv
<1> QED BY <1>1, <1>2, <1>3, TransferMoves

\* A request that asks for something else has sent and received nothing.
LEMMA TransferBegins ==
    ASSUME TransferInv, NEW r \in Requests, Others(r), starred' = starred,
           stored' = stored, moved' = moved, req[r].call # "upload",
           req'[r].call \notin {"upload", "explore"}
    PROVE  TransferInv'
<1>1. stored[r] = <<>> BY DEF TransferInv, Sent
<1>2. Sent(req'[r], stored'[r]) BY <1>1 DEF Sent
<1>3. stored' \in [Requests -> Seq(ChunkSet)] BY DEF TransferInv
<1> QED BY <1>2, <1>3, TransferMoves

\* The callers begin no transfer yet.
LEMMA CallTransfer ==
    ASSUME SessionInv, TransferInv, NEW r \in Requests, Call(r)
    PROVE  TransferInv'
<1>1. PICK q \in Calling :
        /\ RoundTrip(r, q)
        /\ <<q.kind, q.call>> \in {<<"list", "list">>, <<"import", "sketch">>,
                                   <<"upload", "login">>, <<"validate", "login">>}
  BY CallIs
<1>2. Others(r) /\ req'[r].call = q.call BY <1>1, SessionSets, RoundTripIs DEF Same
<1>3. req[r].call = "list"
  <2>1. req[r] = Idle BY CallIs
  <2> QED BY <2>1 DEF Idle
<1> QED BY <1>1, <1>2, <1>3, CallIs, TransferBegins

\* After the login of an upload its first chunk is next.
LEMMA LoggedInTransfer ==
    ASSUME SessionInv, TransferInv, NEW r \in Requests, req[r].pc \in {"ensure", "rotate"},
           LoggedIn(r), starred' = starred, stored' = stored, moved' = moved
    PROVE  TransferInv'
<1>1. CallsInv /\ req[r] \in Calling /\ Reached(req[r]) /\ req[r].result = NoResult
  BY SessionSets DEF Reached
<1>2. /\ req' \in [Requests -> Calling] /\ Others(r)
      /\ \/ /\ Same(req'[r], req[r]) /\ req'[r].pc = "token" /\ req[r].call # "login"
            /\ req'[r].body = req[r].body /\ req'[r].result = req[r].result
         \/ /\ Same(req'[r], req[r]) /\ req'[r].pc = "done" /\ req'[r].result = "ok"
            /\ req[r].call = "login"
         \/ /\ req'[r].pc = "build" /\ req'[r].call = "upload" /\ req[r].call = "login"
            /\ req'[r].index = 0 /\ req'[r].result = req[r].result
  BY <1>1, LoggedInIs
<1>3. CASE /\ Same(req'[r], req[r]) /\ req'[r].pc = "token"
           /\ req'[r].body = req[r].body /\ req'[r].result = req[r].result
  BY <1>1, <1>2, <1>3, ResultsAre, TransferWaits
<1>4. CASE /\ Same(req'[r], req[r]) /\ req'[r].pc = "done" /\ req'[r].result = "ok"
           /\ req[r].call = "login"
  BY <1>1, <1>2, <1>4, TransferWaits
<1>5. CASE /\ req'[r].pc = "build" /\ req'[r].call = "upload" /\ req[r].call = "login"
           /\ req'[r].index = 0 /\ req'[r].result = req[r].result
  <2>1. stored[r] = <<>> BY <1>5 DEF TransferInv, Sent
  <2>2. Chunks(req'[r].size) \in Nat \ {0} BY <1>2, SizeOf
  <2>3. Sent(req'[r], stored'[r])
    BY <1>1, <1>5, <2>1, <2>2, ResultsAre DEF Sent
  <2>4. stored' \in [Requests -> Seq(ChunkSet)] BY DEF TransferInv
  <2> QED BY <1>2, <1>5, <2>3, <2>4, TransferMoves
<1> QED BY <1>2, <1>3, <1>4, <1>5

\* Moving on in a round trip.
LEMMA GoTransfer ==
    ASSUME SessionInv, TransferInv, NEW r \in Requests, NEW to \in Points \ {"build", "done"},
           Go(r, to), req[r].pc \notin {"build", "done"},
           starred' = starred, stored' = stored, moved' = moved
    PROVE  TransferInv'
<1>1. CallsInv /\ Reached(req[r]) BY SessionSets
<1>2. Others(r) /\ Same(req'[r], req[r]) /\ req'[r].pc = to /\ req'[r].body = req[r].body
      /\ req'[r].result = req[r].result
  BY <1>1, GoIs
<1>3. req[r].result # "ok" BY <1>1, ResultsAre DEF Reached
<1> QED BY <1>2, <1>3, TransferWaits

\* Ending without success.
LEMMA EndTransfer ==
    ASSUME SessionInv, TransferInv, NEW r \in Requests, NEW res \in Results,
           End(r, res), req[r].pc \notin {"build", "done"},
           res = "ok" => req[r].call \notin {"upload", "explore"},
           starred' = starred, stored' = stored, moved' = moved
    PROVE  TransferInv'
<1>1. CallsInv BY SessionSets
<1>2. Others(r) /\ Same(req'[r], req[r]) /\ req'[r].pc = "done" /\ req'[r].result = res
  BY <1>1, EndIs
<1> QED BY <1>2, TransferWaits

\* A chunk arrives.
LEMMA TakeIs ==
    ASSUME SessionInv, TransferInv, NEW r \in Requests, req[r].pc = "sent",
           req[r].call = "upload", Take(r)
    PROVE  /\ stored' \in [Requests -> Seq(ChunkSet)]
           /\ \A p \in Requests : p # r => stored'[p] = stored[p]
           /\ Len(stored[r]) = req[r].index
           /\ Len(stored'[r]) = req[r].index + 1
           /\ \A i \in 1..(req[r].index + 1) : stored'[r][i] = ChunkAt(req[r].size, i - 1)
<1> DEFINE c == Chunk(r)
           n == req[r].index
           cs == stored[r]
<1>1. req[r] \in Calling /\ n \in Nat /\ req[r].size \in Nat /\ Chunks(req[r].size) \in Nat
  BY SessionSets, SizeOf
<1>2. /\ cs \in Seq(ChunkSet) /\ Len(cs) = n
      /\ req[r].body = Slice(File(req[r].size), n * ChunkSize, ChunkSize)
      /\ \A i \in 1..n : cs[i] = ChunkAt(req[r].size, i - 1)
  BY DEF TransferInv, Sent
<1>3. c = ChunkAt(req[r].size, n) BY <1>2 DEF Chunk, ChunkAt
<1>4. c \in ChunkSet
  <2>1. n * ChunkSize \in Nat BY <1>1, ClientAssumption
  <2>2. req[r].body \in Seq(Nat) BY <1>1 DEF Calling
  <2> QED BY <1>1, <2>1, <2>2 DEF Chunk, ChunkSet
<1>5. stored' = [stored EXCEPT ![r] = Append(@, c)] BY DEF Take
<1> HIDE DEF c, n, cs
<1>6. /\ Append(cs, c) \in Seq(ChunkSet) /\ Len(Append(cs, c)) = n + 1
      /\ \A i \in 1..(n + 1) : Append(cs, c)[i] = IF i <= n THEN cs[i] ELSE c
  BY <1>1, <1>2, <1>4
<1>7. \A i \in 1..(n + 1) : Append(cs, c)[i] = ChunkAt(req[r].size, i - 1)
  <2> SUFFICES ASSUME NEW i \in 1..(n + 1) PROVE Append(cs, c)[i] = ChunkAt(req[r].size, i - 1)
    OBVIOUS
  <2>1. CASE i <= n BY <1>1, <1>2, <1>6, <2>1 DEF n
  <2>2. CASE ~(i <= n)
    <3>1. i - 1 = n BY <1>1, <2>2 DEF n
    <3> QED BY <1>3, <1>6, <2>2, <3>1
  <2> QED BY <2>1, <2>2
<1>8. /\ stored'[r] = Append(cs, c) /\ stored' \in [Requests -> Seq(ChunkSet)]
      /\ \A p \in Requests : p # r => stored'[p] = stored[p]
  BY <1>5, <1>6 DEF TransferInv, cs
<1>9. /\ Len(stored'[r]) = n + 1
      /\ \A i \in 1..(n + 1) : stored'[r][i] = ChunkAt(req[r].size, i - 1)
  BY <1>6, <1>7, <1>8
<1> QED BY <1>2, <1>8, <1>9 DEF n, cs

\* Refused: the same chunk or page is asked for again.
LEMMA RefusedTransfer ==
    ASSUME SessionInv, TransferInv, NEW r \in Requests, Refused(r)
    PROVE  TransferInv'
<1>1. req[r].pc = "sent" /\ starred' = starred /\ stored' = stored /\ moved' = moved
  BY DEF Refused, At, server, hist
<1>2. CASE Become(r, [req[r] EXCEPT !.pc = "relogin", !.retried = TRUE, !.tok = 0, !.cookie = 0])
  <2> DEFINE q == [req[r] EXCEPT !.pc = "relogin", !.retried = TRUE, !.tok = 0, !.cookie = 0]
  <2>1. /\ q \in Calling /\ Same(q, req[r]) /\ q.pc = "relogin" /\ q.result = NoResult
        /\ q.body = req[r].body
    BY <1>1, AtCall, ZenonT(60) DEF Calling, Points, Same
  <2>2. Become(r, q) BY <1>2
  <2> HIDE DEF q
  <2>3. req'[r] = q /\ Others(r) BY <1>1, <2>1, <2>2, AtCall, BecomeIs
  <2> QED BY <1>1, <2>1, <2>3, ResultsAre, TransferWaits
<1>3. CASE End(r, "refused")
  BY <1>1, <1>3, ResultsAre, EndTransfer
<1> QED BY <1>2, <1>3 DEF Refused

\* Reading the token.
LEMMA TokenTransfer ==
    ASSUME SessionInv, TransferInv, NEW r \in Requests, token(r)
    PROVE  TransferInv'
<1>1. req[r].pc = "token" /\ starred' = starred /\ stored' = stored /\ moved' = moved
  BY DEF token, At, server, hist
<1> DEFINE q == [req[r] EXCEPT !.pc = "send", !.tok = csrfToken]
<1>2. csrfToken \in Nat BY DEF SessionInv, TokenInv
<1>3. /\ q \in Calling /\ Same(q, req[r]) /\ q.pc = "send" /\ q.result = NoResult
      /\ q.body = req[r].body
  BY <1>1, <1>2, AtCall, ZenonT(60) DEF Calling, Points, Same
<1>4. Become(r, q) BY DEF token
<1> HIDE DEF q
<1>5. req'[r] = q /\ Others(r) BY <1>1, <1>3, <1>4, AtCall, BecomeIs
<1> QED BY <1>1, <1>3, <1>5, ResultsAre, TransferWaits

\* Sending.
LEMMA SendTransfer ==
    ASSUME SessionInv, TransferInv, NEW r \in Requests, send(r)
    PROVE  TransferInv'
<1>1. req[r].pc = "send" /\ starred' = starred /\ stored' = stored /\ moved' = moved
  BY DEF send, At, server, hist
<1> DEFINE q == [req[r] EXCEPT !.pc = "sent", !.cookie = jar]
<1>2. jar \in Nat BY DEF SessionInv, TokenInv
<1>3. /\ q \in Calling /\ Same(q, req[r]) /\ q.pc = "sent" /\ q.result = NoResult
      /\ q.body = req[r].body
  BY <1>1, <1>2, AtCall, ZenonT(60) DEF Calling, Points, Same
<1>4. Become(r, q) BY DEF send
<1> HIDE DEF q
<1>5. req'[r] = q /\ Others(r) BY <1>1, <1>3, <1>4, AtCall, BecomeIs
<1> QED BY <1>1, <1>3, <1>5, ResultsAre, TransferWaits

\* GetSketch answered, an import has received nothing yet.
LEMMA AnsweredTransfer ==
    ASSUME SessionInv, TransferInv, NEW r \in Requests, Answered(r)
    PROVE  TransferInv'
<1>1. req[r].pc = "sent" /\ starred' = starred /\ stored' = stored
  BY DEF Answered, At, server
<1>2. CASE req[r].call = "list" /\ End(r, "ok") /\ moved' = moved
  BY <1>1, <1>2, ResultsAre, EndTransfer
<1>3. CASE /\ req[r].call = "sketch" /\ RoundTrip(r, [req[r] EXCEPT !.call = "explore"])
           /\ moved' = moved \ {r}
  <2> DEFINE q == [req[r] EXCEPT !.call = "explore"]
  <2>1. /\ q \in Calling /\ q.call = "explore" /\ q.result = NoResult
        /\ q.index = 0 /\ q.got = <<>>
    BY <1>1, <1>3, AtCall, ZenonT(60) DEF Calling, Calls, Reached
  <2>2. RoundTrip(r, q) BY <1>3
  <2> HIDE DEF q
  <2>3. /\ Others(r) /\ Same(req'[r], q) /\ req'[r].pc = "ensure" /\ req'[r].result = NoResult
    BY <1>1, <2>1, <2>2, AtCall, RoundTripIs
  <2>4. req'[r].call = "explore" /\ req'[r].index = 0 /\ req'[r].got = <<>>
    BY <2>1, <2>3 DEF Same
  <2>5. stored[r] = <<>> BY <1>3 DEF TransferInv, Sent
  <2>6. Sent(req'[r], stored'[r]) BY <1>1, <2>4, <2>5 DEF Sent
  <2>7. Received(req'[r])
    <3>1. Result \in Seq(Events) BY PageTyped
    <3>2. SubSeq(Result, 1, 0) = <<>> /\ Len(Result) \in Nat BY <3>1
    <3> QED BY <2>3, <2>4, <3>2, ResultsAre DEF Received
  <2>8. stored' \in [Requests -> Seq(ChunkSet)] BY <1>1 DEF TransferInv
  <2> QED BY <1>1, <1>3, <2>3, <2>6, <2>7, <2>8, TransferMoves
<1> QED BY <1>2, <1>3 DEF Answered

\* ExploreAll: each page continues the events received so far.
LEMMA ExploreTransfer ==
    ASSUME SessionInv, TransferInv, NEW r \in Requests, explore(r)
    PROVE  TransferInv'
<1>1. /\ req[r].pc = "sent" /\ req[r].call = "explore" /\ starred' = starred
      /\ stored' = stored /\ moved' = moved
  BY DEF explore, At, server
<1> DEFINE n == req[r].index
           page == PageAt(n)
           got == req[r].got \o page
           next == NextFrom(r, page)
           m == IF n + PageSize < Len(Result) THEN n + PageSize ELSE Len(Result)
<1>2. /\ req[r] \in Calling /\ n \in Nat /\ req[r].got \in Seq(Events) /\ CallsInv
      /\ page \in Seq(Events) /\ Len(page) \in Nat /\ Result \in Seq(Events)
  <2>1. req[r] \in Calling /\ CallsInv BY <1>1, AtCall
  <2>2. n \in Nat /\ req[r].got \in Seq(Events) BY <2>1 DEF Calling
  <2> QED BY <2>1, <2>2, PageTyped
<1>3. got \in Seq(Events) /\ next = n + Len(page) /\ next \in Nat BY <1>2 DEF NextFrom
<1>4. \/ /\ RoundTrip(r, [req[r] EXCEPT !.got = got, !.index = next])
         /\ HasNext(n) /\ page # <<>>
      \/ /\ Become(r, [Over(req[r]) EXCEPT !.pc = "done", !.result = "ok", !.got = got])
         /\ ~HasNext(n) \/ page = <<>>
  BY DEF explore
<1>5. PageSize \in Nat \ {0} BY ClientAssumption
<1>6. r \notin moved =>
        /\ m \in n..Len(Result) /\ page = SubSeq(Result, n + 1, m)
        /\ got = SubSeq(Result, 1, m) /\ Len(page) = m - n
  <2> SUFFICES ASSUME r \notin moved
               PROVE  /\ m \in n..Len(Result) /\ page = SubSeq(Result, n + 1, m)
                      /\ got = SubSeq(Result, 1, m) /\ Len(page) = m - n
    OBVIOUS
  <2>1. Received(req[r]) BY <1>1 DEF TransferInv
  <2>2. n <= Len(Result) /\ req[r].got = SubSeq(Result, 1, n) BY <1>1, <2>1 DEF Received
  <2>3. Len(Result) \in Nat /\ n \in 0..Len(Result) BY <1>2, <2>2
  <2>4. page = Slice(Result, n, PageSize) BY DEF PageAt
  <2> HIDE DEF n, page
  <2> QED BY <1>2, <1>5, <2>2, <2>3, <2>4, SliceContinues, ZenonT(60)
<1>7. stored[r] = <<>> /\ stored' \in [Requests -> Seq(ChunkSet)] BY <1>1 DEF TransferInv, Sent
<1> HIDE DEF n, page, got, next
<1>8. CASE /\ RoundTrip(r, [req[r] EXCEPT !.got = got, !.index = next])
           /\ HasNext(n) /\ page # <<>>
  <2> DEFINE q == [req[r] EXCEPT !.got = got, !.index = next]
  <2>1. /\ q \in Calling /\ q.call = "explore" /\ q.result = NoResult /\ q.got = got /\ q.index = next
    BY <1>1, <1>2, <1>3, AtCall DEF Calling
  <2>2. RoundTrip(r, q) BY <1>8
  <2> HIDE DEF q
  <2>3. Others(r) /\ Same(req'[r], q) /\ req'[r].pc = "ensure" /\ req'[r].result = NoResult
    BY <1>2, <2>1, <2>2, RoundTripIs
  <2>4. req'[r].call = "explore" /\ req'[r].index = next /\ req'[r].got = got
    BY <2>1, <2>3 DEF Same
  <2>5. Sent(req'[r], stored'[r]) BY <1>1, <1>7, <2>4 DEF Sent
  <2>6. r \notin moved => Received(req'[r])
    <3> SUFFICES ASSUME r \notin moved PROVE Received(req'[r])
      OBVIOUS
    <3>1. /\ m \in n..Len(Result) /\ got = SubSeq(Result, 1, m) /\ Len(page) = m - n BY <1>6
    <3> HIDE DEF m
    <3>2. next = m /\ m <= Len(Result) BY <1>2, <1>3, <3>1
    <3> QED BY <2>3, <2>4, <3>1, <3>2, ResultsAre DEF Received
  <2> QED BY <1>1, <1>7, <2>3, <2>5, <2>6, TransferMoves
<1>9. CASE /\ Become(r, [Over(req[r]) EXCEPT !.pc = "done", !.result = "ok", !.got = got])
           /\ ~HasNext(n) \/ page = <<>>
  <2> DEFINE q == [Over(req[r]) EXCEPT !.pc = "done", !.result = "ok", !.got = got]
  <2>1. <<>> \in Seq(Nat) BY EmptySeq
  <2>2. /\ q \in Calling /\ q.call = "explore" /\ q.pc = "done" /\ q.got = got /\ q.index = n
    BY <1>1, <1>2, <1>3, <2>1, ResultsAre DEF Calling, Points, Over, n
  <2>3. Become(r, q) BY <1>9
  <2> HIDE DEF q
  <2>4. req'[r] = q /\ Others(r) BY <1>2, <2>2, <2>3, BecomeIs
  <2>5. Sent(req'[r], stored'[r]) BY <1>1, <1>7, <2>2, <2>4 DEF Sent
  <2>6. r \notin moved => Received(req'[r])
    <3> SUFFICES ASSUME r \notin moved PROVE Received(req'[r])
      OBVIOUS
    <3>1. /\ m \in n..Len(Result) /\ got = SubSeq(Result, 1, m) /\ Len(page) = m - n BY <1>6
    <3>2. Len(Result) \in Nat BY <1>2
    <3>3. m = Len(Result)
      <4>1. CASE ~HasNext(n) BY <1>2, <1>5, <3>2, <4>1 DEF HasNext
      <4>2. CASE page = <<>>
        <5>1. Len(page) = 0 BY <4>2
        <5> QED BY <1>2, <1>5, <3>1, <3>2, <5>1
      <4> QED BY <1>9, <4>1, <4>2
    <3> HIDE DEF m
    <3>4. SubSeq(Result, 1, Len(Result)) = Result BY <1>2
    <3>5. n <= Len(Result) BY <1>2, <3>1, <3>2, <3>3
    <3>6. got = Result BY <3>1, <3>3, <3>4
    <3> QED BY <2>2, <2>4, <3>5, <3>6 DEF Received
  <2> QED BY <1>1, <1>7, <2>4, <2>5, <2>6, TransferMoves
<1> QED BY <1>4, <1>8, <1>9

\* The next chunk is read from where the chunks sent end.
LEMMA BuildTransfer ==
    ASSUME SessionInv, TransferInv, NEW r \in Requests, Build(r)
    PROVE  TransferInv'
<1>1. /\ req[r].pc = "build" /\ req[r].call = "upload" /\ req[r] \in Calling /\ CallsInv
      /\ req[r].result = NoResult /\ starred' = starred /\ stored' = stored /\ moved' = moved
  BY SessionSets DEF Build, At, Reached, server
<1> DEFINE body == Slice(File(req[r].size), req[r].index * ChunkSize, ChunkSize)
           q == [req[r] EXCEPT !.body = body]
<1>2. body \in Seq(Nat)
  <2>1. req[r].size \in Nat /\ req[r].index \in Nat BY <1>1, SizeOf
  <2>2. req[r].index * ChunkSize \in Nat /\ ChunkSize \in Nat BY <2>1, ClientAssumption
  <2> QED BY <2>1, <2>2, FileIs, SliceTyped
<1>3. RoundTrip(r, q) BY DEF Build
<1> HIDE DEF body
<1>4. q \in Calling /\ Same(q, req[r]) /\ q.result = NoResult /\ q.body = body
  BY <1>1, <1>2 DEF Calling, Same
<1> HIDE DEF q
<1>5. /\ Others(r) /\ Same(req'[r], q) /\ req'[r].pc = "ensure"
      /\ req'[r].body = body /\ req'[r].result = NoResult
  BY <1>1, <1>3, <1>4, RoundTripIs
<1>6. Same(req'[r], req[r]) BY <1>4, <1>5 DEF Same
<1>7. Sent(req'[r], stored'[r])
  <2>1. Sent(req[r], stored[r]) BY DEF TransferInv
  <2>2. body = Slice(File(req'[r].size), req'[r].index * ChunkSize, ChunkSize)
    BY <1>6 DEF body, Same
  <2> QED BY <1>1, <1>5, <1>6, <2>1, <2>2, ResultsAre DEF Sent, Same
<1>8. stored' \in [Requests -> Seq(ChunkSet)] BY <1>1 DEF TransferInv
<1>9. req'[r].call # "explore" BY <1>1, <1>6 DEF Same
<1> QED BY <1>1, <1>5, <1>7, <1>8, <1>9, TransferMoves

\* A chunk is taken and the next one is due, or it was the last.
LEMMA UploadedTransfer ==
    ASSUME SessionInv, TransferInv, NEW r \in Requests, Uploaded(r)
    PROVE  TransferInv'
<1>1. /\ req[r].pc = "sent" /\ req[r].call = "upload" /\ starred' = starred /\ moved' = moved
      /\ Take(r)
  BY DEF Uploaded, At
<1>2. /\ CallsInv /\ req[r] \in Calling /\ req[r].result = NoResult /\ req[r].index \in Nat
      /\ Chunks(req[r].size) \in Nat
  BY <1>1, AtCall, SizeOf
<1>3. /\ stored' \in [Requests -> Seq(ChunkSet)]
      /\ \A p \in Requests : p # r => stored'[p] = stored[p]
      /\ Len(stored'[r]) = req[r].index + 1
      /\ \A i \in 1..(req[r].index + 1) : stored'[r][i] = ChunkAt(req[r].size, i - 1)
  BY <1>1, TakeIs
<1>4. CASE /\ req[r].index + 1 < Chunks(req[r].size)
           /\ Become(r, [Over(req[r]) EXCEPT !.pc = "build", !.index = @ + 1])
  <2> DEFINE q == [Over(req[r]) EXCEPT !.pc = "build", !.index = @ + 1]
  <2>1. <<>> \in Seq(Nat) BY EmptySeq
  <2>2. /\ q \in Calling /\ q.call = "upload" /\ q.result = NoResult /\ q.pc = "build"
        /\ q.size = req[r].size /\ q.index = req[r].index + 1
    <3>1. req[r].index + 1 \in Nat BY <1>2
    <3> QED BY <1>1, <1>2, <2>1, <3>1 DEF Calling, Points, Over
  <2>3. Become(r, q) BY <1>4
  <2> HIDE DEF q
  <2>4. req'[r] = q /\ Others(r) BY <1>2, <2>2, <2>3, BecomeIs
  <2>5. Sent(req'[r], stored'[r])
    BY <1>2, <1>3, <1>4, <2>2, <2>4, ResultsAre DEF Sent
  <2> QED BY <1>1, <1>3, <2>2, <2>4, <2>5, TransferMoves
<1>5. CASE req[r].index + 1 = Chunks(req[r].size) /\ End(r, "ok")
  <2>1. Others(r) /\ Same(req'[r], req[r]) /\ req'[r].pc = "done"
    BY <1>2, <1>5, ResultsAre, EndIs
  <2>2. Sent(req'[r], stored'[r])
    BY <1>1, <1>2, <1>3, <1>5, <2>1 DEF Sent, Same
  <2>3. req'[r].call # "explore" BY <1>1, <2>1 DEF Same
  <2> QED BY <1>1, <1>3, <2>1, <2>2, <2>3, TransferMoves
<1> QED BY <1>4, <1>5 DEF Uploaded

\* A call that fails may have brought its chunk.
LEMMA LostTransfer ==
    ASSUME SessionInv, TransferInv, NEW r \in Requests, Lost(r)
    PROVE  TransferInv'
<1>1. End(r, "error") /\ starred' = starred /\ moved' = moved
  BY DEF Lost
<1>2. CASE stored' = stored /\ ~At(r, "build")
  <2>1. req[r].pc \notin {"build", "done"} BY <1>2 DEF Lost, At
  <2> QED BY <1>1, <1>2, <2>1, ResultsAre, EndTransfer
<1>3. CASE stored' = stored /\ At(r, "build")
  <2>1. /\ CallsInv /\ req[r].call = "upload" /\ req[r] \in Calling /\ req[r].index \in Nat
    BY <1>3, SessionSets, SizeOf DEF Reached, At
  <2>2. Others(r) /\ Same(req'[r], req[r]) /\ req'[r].pc = "done" /\ req'[r].result = "error"
    BY <1>1, <2>1, ResultsAre, EndIs
  <2>3. Sent(req'[r], stored'[r])
    BY <1>3, <2>1, <2>2 DEF TransferInv, Sent, Same
  <2>4. req'[r].call # "explore" BY <2>1, <2>2 DEF Same
  <2>5. stored' \in [Requests -> Seq(ChunkSet)] BY <1>3 DEF TransferInv
  <2> QED BY <1>1, <1>3, <2>2, <2>3, <2>4, <2>5, TransferMoves
<1>4. CASE At(r, "sent") /\ req[r].call = "upload" /\ Take(r)
  <2>1. req[r].pc = "sent" BY <1>4 DEF At
  <2>2. /\ CallsInv /\ req[r] \in Calling /\ req[r].index \in Nat
        /\ Chunks(req[r].size) \in Nat
    BY <2>1, AtCall, SizeOf
  <2>3. /\ stored' \in [Requests -> Seq(ChunkSet)]
        /\ \A p \in Requests : p # r => stored'[p] = stored[p]
        /\ Len(stored'[r]) = req[r].index + 1
        /\ \A i \in 1..(req[r].index + 1) : stored'[r][i] = ChunkAt(req[r].size, i - 1)
    BY <1>4, <2>1, TakeIs
  <2>4. Others(r) /\ Same(req'[r], req[r]) /\ req'[r].pc = "done" /\ req'[r].result = "error"
    BY <1>1, <2>2, ResultsAre, EndIs
  <2>5. req[r].index < Chunks(req[r].size) BY <1>4 DEF TransferInv, Sent
  <2>6. Sent(req'[r], stored'[r])
    BY <1>4, <2>2, <2>3, <2>4, <2>5 DEF Sent, Same
  <2>7. req'[r].call # "explore" BY <1>4, <2>4 DEF Same
  <2> QED BY <1>1, <2>3, <2>4, <2>6, <2>7, TransferMoves
<1> QED BY <1>2, <1>3, <1>4 DEF Lost

\* Whose result set changes is no longer told what it has of it.
LEMMA StarTransfer ==
    ASSUME TransferInv, Star
    PROVE  TransferInv'
<1>1. /\ req' = req /\ stored' = stored
      /\ moved' = moved \cup {r \in Requests : req[r].call = "explore"}
  BY DEF Star
<1>2. \A r \in Requests : req[r].call = "explore" => r \in moved' BY <1>1
<1> QED BY <1>1, <1>2 DEF TransferInv

\* The transfer invariant holds initially ...
LEMMA TransferInit == Init => TransferInv
<1> SUFFICES ASSUME Init PROVE TransferInv
  OBVIOUS
<1>1. \A r \in Requests : req[r].call = "list" BY DEF Init, Idle
<1>2. <<>> \in Seq(ChunkSet) BY EmptySeq
<1>3. stored \in [Requests -> Seq(ChunkSet)] /\ \A r \in Requests : stored[r] = <<>>
  BY <1>2 DEF Init
<1> QED BY <1>1, <1>3 DEF TransferInv, Sent

\* ... is kept by every step ...
LEMMA TransferNext == SessionInv /\ TransferInv /\ [Next]_vars => TransferInv'
<1> SUFFICES ASSUME SessionInv, TransferInv, [Next]_vars PROVE TransferInv'
  OBVIOUS
<1>1. CASE UNCHANGED vars \/ Expire
  <2>1. req' = req /\ stored' = stored /\ moved' = moved /\ starred' = starred
    BY <1>1 DEF vars, server, hist, Expire
  <2>2. Result' = Result BY <2>1 DEF Result
  <2> QED BY <2>1, <2>2 DEF TransferInv, Received
<1>2. CASE Star
  BY <1>2, StarTransfer
<1>3. ASSUME NEW r \in Requests, Call(r) PROVE TransferInv'
  BY <1>3, CallTransfer
<1>4. ASSUME NEW r \in Requests, Step(r) PROVE TransferInv'
  <2>1. CASE ensureSession(r)
    <3>1. req[r].pc = "ensure" /\ starred' = starred /\ stored' = stored /\ moved' = moved
      BY <2>1 DEF ensureSession, At, server, hist
    <3>2. LoggedIn(r) \/ Go(r, "post") BY <2>1 DEF ensureSession
    <3>3. "post" \in Points \ {"build", "done"} BY DEF Points
    <3> QED BY <3>1, <3>2, <3>3, LoggedInTransfer, GoTransfer
  <2>2. CASE relogin(r) \/ login(r)
    <3>1. /\ req[r].pc \in {"relogin", "post"}
          /\ starred' = starred /\ stored' = stored /\ moved' = moved
      BY <2>2 DEF relogin, login, At, server, hist
    <3>2. Go(r, "post") \/ Go(r, "probe") BY <2>2 DEF relogin, login
    <3>3. "post" \in Points \ {"build", "done"} /\ "probe" \in Points \ {"build", "done"}
      BY DEF Points
    <3> QED BY <3>1, <3>2, <3>3, GoTransfer
  <2>3. CASE probe(r)
    <3>1. req[r].pc = "probe" /\ starred' = starred /\ stored' = stored /\ moved' = moved
      BY <2>3 DEF probe, At, server, hist
    <3>2. Go(r, "rotate") \/ End(r, "login") BY <2>3 DEF probe
    <3>3. "rotate" \in Points \ {"build", "done"} BY DEF Points
    <3> QED BY <3>1, <3>2, <3>3, ResultsAre, GoTransfer, EndTransfer
  <2>4. CASE rotate(r)
    <3>1. /\ req[r].pc = "rotate" /\ starred' = starred /\ stored' = stored /\ moved' = moved
          /\ LoggedIn(r)
      BY <2>4 DEF rotate, At, server, hist
    <3> QED BY <3>1, LoggedInTransfer
  <2> QED BY <1>4, <2>1, <2>2, <2>3, <2>4, TokenTransfer, SendTransfer, RefusedTransfer, AnsweredTransfer,
             ExploreTransfer, BuildTransfer, UploadedTransfer, LostTransfer DEF Step
<1> QED BY <1>1, <1>2, <1>3, <1>4 DEF Next

-----------------------------------------------------------------------------
(* The chunks joined.                                                       *)

\* One step of the fold behind Joined.
Continued(cs, g, s) == IF s = {} THEN <<>> ELSE g[s \ {Max(s)}] \o cs[Max(s)].data

\* What the fold puts together, for every set of positions.
Joining(cs, S) == CHOOSE iter : iter = [s \in SUBSET S |-> Continued(cs, iter, s)]

\* Joined is the fold of all positions.
LEMMA JoinedIs == ASSUME NEW cs PROVE Joined(cs) = Joining(cs, DOMAIN cs)[DOMAIN cs]
  BY Zenon DEF Joined, FoldLeft, MapThenFoldSet, Joining, Continued

\* The fold is defined: on the sets of up to n positions for every n.
LEMMA JoiningDefined ==
    ASSUME NEW cs, NEW S, IsFiniteSet(S), S \subseteq Nat
    PROVE  \A s \in SUBSET S : Joining(cs, S)[s] = Continued(cs, Joining(cs, S), s)
<1> DEFINE Upto(g, n) == \A s \in SUBSET S : Cardinality(s) <= n => g[s] = Continued(cs, g, s)
           P == {n \in Nat : \E g : Upto(g, n)}
<1>1. \A s \in SUBSET S : IsFiniteSet(s) /\ Cardinality(s) \in Nat
  BY FS_Subset, FS_CardinalityType
<1>2. \A s \in SUBSET S : s # {} => /\ Max(s) \in s /\ s \ {Max(s)} \in SUBSET S
                                   /\ Cardinality(s \ {Max(s)}) = Cardinality(s) - 1
                                   /\ Cardinality(s) >= 1
  <2> SUFFICES ASSUME NEW s \in SUBSET S, s # {}
               PROVE  /\ Max(s) \in s /\ s \ {Max(s)} \in SUBSET S
                      /\ Cardinality(s \ {Max(s)}) = Cardinality(s) - 1
                      /\ Cardinality(s) >= 1
    OBVIOUS
  <2>1. Max(s) \in s
    BY LargestThere
  <2>2. Cardinality(s) # 0
    BY <1>1, FS_EmptySet
  <2>3. Cardinality(s \ {Max(s)}) = Cardinality(s) - 1
    BY <1>1, <2>1, FS_RemoveElement
  <2>4. Cardinality(s) >= 1
    <3>1. Cardinality(s) \in Nat BY <1>1
    <3> QED BY <2>2, <3>1
  <2>5. s \ {Max(s)} \in SUBSET S
    OBVIOUS
  <2> QED BY <2>1, <2>3, <2>4, <2>5
<1>3. 0 \in P
  <2>1. ASSUME NEW s \in SUBSET S, Cardinality(s) <= 0 PROVE s = {}
    <3> SUFFICES ASSUME s # {} PROVE FALSE
      OBVIOUS
    <3>1. Cardinality(s) >= 1
      BY <1>2
    <3>2. Cardinality(s) \in Nat
      BY <1>1
    <3> QED BY <2>1, <3>1, <3>2
  <2>2. Upto([s \in SUBSET S |-> <<>>], 0)
    BY <2>1 DEF Continued
  <2> QED BY <2>2
<1>4. ASSUME NEW n \in Nat, n \in P PROVE n + 1 \in P
  <2>1. PICK g : Upto(g, n)
    BY <1>4
  <2> DEFINE h == [s \in SUBSET S |-> IF Cardinality(s) <= n THEN g[s] ELSE Continued(cs, g, s)]
  <2>2. ASSUME NEW s \in SUBSET S, Cardinality(s) <= n + 1 PROVE h[s] = Continued(cs, h, s)
    <3>1. h[s] = Continued(cs, g, s)
      BY <2>1
    <3>2. s # {} => h[s \ {Max(s)}] = g[s \ {Max(s)}]
      BY <1>1, <1>2, <2>2
    <3> HIDE DEF h
    <3> QED BY <3>1, <3>2 DEF Continued
  <2> HIDE DEF h
  <2>3. Upto(h, n + 1)
    BY <2>2
  <2> QED BY <2>3
<1>5. PICK g : \A s \in SUBSET S : g[s] = Continued(cs, g, s)
  <2> HIDE DEF P
  <2>1. Nat \subseteq P
    BY <1>3, <1>4, NatInduct
  <2> USE DEF P
  <2>2. PICK g : Upto(g, Cardinality(S))
    BY <1>1, <2>1
  <2>3. \A s \in SUBSET S : Cardinality(s) <= Cardinality(S)
    BY FS_Subset
  <2> QED BY <2>2, <2>3
<1>6. \E iter : iter = [s \in SUBSET S |-> Continued(cs, iter, s)]
  <2> DEFINE h == [s \in SUBSET S |-> g[s]]
  <2>1. \A s \in SUBSET S : Continued(cs, h, s) = Continued(cs, g, s)
    BY <1>2 DEF Continued
  <2>2. h = [s \in SUBSET S |-> Continued(cs, h, s)]
    BY <1>5, <2>1
  <2> QED BY <2>2
<1>7. Joining(cs, S) = [s \in SUBSET S |-> Continued(cs, Joining(cs, S), s)]
  BY <1>6, Zenon DEF Joining
<1>8. \A h : h = [s \in SUBSET S |-> Continued(cs, h, s)] => \A s \in SUBSET S : h[s] = Continued(cs, h, s)
  OBVIOUS
<1> QED BY <1>7, <1>8, Zenon

\* One chunk after the other.
LEMMA JoiningStep ==
    ASSUME NEW cs, NEW n \in Nat
    PROVE  /\ Joining(cs, 1..n)[{}] = <<>>
           /\ \A k \in 0..(n - 1) :
                Joining(cs, 1..n)[1..(k + 1)] = Joining(cs, 1..n)[1..k] \o cs[k + 1].data
<1> DEFINE J == Joining(cs, 1..n)
<1>1. IsFiniteSet(1..n) /\ 1..n \subseteq Nat
  BY FS_Interval
<1>3. \A s \in SUBSET (1..n) : J[s] = Continued(cs, J, s)
  BY <1>1, JoiningDefined
<1> HIDE DEF J
<1>4. J[{}] = <<>>
  <2>1. J[{}] = Continued(cs, J, {}) BY <1>3
  <2> QED BY <2>1 DEF Continued
<1>5. ASSUME NEW k \in 0..(n - 1) PROVE J[1..(k + 1)] = J[1..k] \o cs[k + 1].data
  <2> DEFINE T == 1..(k + 1)
  <2>1. T \in SUBSET (1..n) /\ T # {} /\ k + 1 \in T /\ T \subseteq Nat
    OBVIOUS
  <2>2. Max(T) \in T /\ \A y \in T : Max(T) >= y
    BY <1>1, <2>1, LargestThere
  <2>3. Max(T) = k + 1
    <3>1. Max(T) >= k + 1 BY <2>1, <2>2
    <3>2. Max(T) \in Nat /\ Max(T) <= k + 1 BY <2>2
    <3> QED BY <3>1, <3>2
  <2>4. T \ {k + 1} = 1..k
    OBVIOUS
  <2>5. J[T] = Continued(cs, J, T)
    BY <1>3, <2>1
  <2> HIDE DEF T
  <2>6. J[T] = J[T \ {Max(T)}] \o cs[Max(T)].data
    BY <2>1, <2>5 DEF Continued
  <2>7. J[T] = J[1..k] \o cs[k + 1].data
    BY <2>3, <2>4, <2>6
  <2> QED BY <2>7 DEF T
<1> QED BY <1>4, <1>5 DEF J

\* How much of a file the first k chunks are.
Covered(size, k) == IF k * ChunkSize < size THEN k * ChunkSize ELSE size

\* All chunks cover the file, every chunk begins where those before it end.
LEMMA CoveredIs ==
    ASSUME NEW size \in Nat
    PROVE  /\ Covered(size, 0) = 0 /\ Covered(size, Chunks(size)) = size
           /\ \A k \in 0..(Chunks(size) - 1) :
                /\ k * ChunkSize \in 0..size /\ Covered(size, k) = k * ChunkSize
                /\ Covered(size, k + 1) = IF k * ChunkSize + ChunkSize < size
                                          THEN k * ChunkSize + ChunkSize ELSE size
<1> DEFINE C == ChunkSize
           n == Chunks(size)
<1>1. C \in Nat \ {0} BY ClientAssumption
<1>2. n \in Nat \ {0} /\ n * C >= size /\ (n - 1) * C <= size BY ChunksReach
<1> HIDE DEF C, n
<1>3. 0 * C = 0 /\ n * C \in Nat BY <1>1, <1>2
<1>4. Covered(size, 0) = 0 /\ Covered(size, n) = size
  BY <1>2, <1>3 DEF Covered, C
<1>5. ASSUME NEW k \in 0..(n - 1)
      PROVE  /\ k * C \in 0..size /\ Covered(size, k) = k * C
             /\ Covered(size, k + 1) = IF k * C + C < size THEN k * C + C ELSE size
  <2>1. k \in Nat /\ k * C \in Nat /\ (k + 1) * C = k * C + C
    BY <1>1, <1>2
  <2>2. k * C <= (n - 1) * C
    <3> DEFINE d == (n - 1) - k
    <3>1. d \in Nat /\ n - 1 = k + d BY <1>2
    <3> HIDE DEF d
    <3>2. (k + d) * C = k * C + d * C /\ d * C \in Nat BY <1>1, <2>1, <3>1
    <3> QED BY <2>1, <3>1, <3>2
  <2>3. (n - 1) * C \in Nat BY <1>1, <1>2
  <2>4. k * C <= size BY <1>2, <2>1, <2>2, <2>3
  <2> QED BY <2>1, <2>4 DEF Covered, C
<1> QED BY <1>4, <1>5 DEF C, n

\* The first chunks of a file put together are the first bytes of the file.
LEMMA JoinedChunks ==
    ASSUME NEW size \in Nat, NEW n \in 0..Chunks(size), NEW cs \in Seq(ChunkSet), Len(cs) = n,
           \A i \in 1..n : cs[i] = ChunkAt(size, i - 1)
    PROVE  /\ Joined(cs) = SubSeq(File(size), 1, Covered(size, n))
           /\ Len(Joined(cs)) = Covered(size, n)
<1> DEFINE J == Joining(cs, 1..n)
           F == File(size)
           P == {k \in Nat : k <= n => /\ J[1..k] = SubSeq(F, 1, Covered(size, k))
                                       /\ Covered(size, k) \in 0..size}
<1>1. n \in Nat /\ Chunks(size) \in Nat /\ ChunkSize \in Nat
  BY ChunksReach, ClientAssumption
<1>2. F \in Seq(Nat) /\ Len(F) = size
  BY FileIs
<1>3. 0 \in P
  <2>1. 1..0 = {} OBVIOUS
  <2>2. J[{}] = <<>> BY <1>1, JoiningStep
  <2> HIDE DEF J, F
  <2>3. SubSeq(F, 1, 0) = <<>> BY <1>2
  <2>4. J[1..0] = SubSeq(F, 1, Covered(size, 0)) BY <2>1, <2>2, <2>3, CoveredIs
  <2>5. Covered(size, 0) \in 0..size BY CoveredIs
  <2> QED BY <2>4, <2>5
<1>4. ASSUME NEW k \in Nat, k \in P PROVE k + 1 \in P
  <2> SUFFICES ASSUME k + 1 <= n
               PROVE  /\ J[1..(k + 1)] = SubSeq(F, 1, Covered(size, k + 1))
                      /\ Covered(size, k + 1) \in 0..size
    OBVIOUS
  <2> DEFINE a == k * ChunkSize
             m == IF a + ChunkSize < size THEN a + ChunkSize ELSE size
  <2>1. k \in 0..(n - 1) /\ k \in 0..(Chunks(size) - 1) /\ k + 1 \in 1..n /\ k <= n BY <1>1
  <2>2. J[1..(k + 1)] = J[1..k] \o cs[k + 1].data BY <1>1, <2>1, JoiningStep
  <2>3. a \in 0..size /\ Covered(size, k) = a /\ Covered(size, k + 1) = m
    BY <2>1, CoveredIs
  <2>4. cs[k + 1].data = Slice(F, a, ChunkSize)
    <3>1. cs[k + 1] = ChunkAt(size, (k + 1) - 1) BY <2>1
    <3>2. (k + 1) - 1 = k OBVIOUS
    <3> HIDE DEF F
    <3> QED BY <3>1, <3>2 DEF ChunkAt, F
  <2>5. J[1..k] = SubSeq(F, 1, a) BY <1>4, <2>1, <2>3
  <2> HIDE DEF J, F, a, P
  <2>6. m \in a..size /\ SubSeq(F, 1, a) \o Slice(F, a, ChunkSize) = SubSeq(F, 1, m)
    BY <1>1, <1>2, <2>3, SliceContinues
  <2> HIDE DEF m
  <2>7. J[1..(k + 1)] = SubSeq(F, 1, m) BY <2>2, <2>4, <2>5, <2>6
  <2>8. m \in 0..size BY <2>3, <2>6
  <2> QED BY <2>3, <2>7, <2>8
<1> HIDE DEF P
<1>5. n \in P
  BY <1>1, <1>3, <1>4, NatInduct
<1> USE DEF P
<1>6. J[1..n] = SubSeq(F, 1, Covered(size, n)) /\ Covered(size, n) \in 0..size
  BY <1>1, <1>5
<1>7. Joined(cs) = J[1..n]
  <2>1. DOMAIN cs = 1..n OBVIOUS
  <2> QED BY <2>1, JoinedIs
<1> HIDE DEF J, F
<1>8. Len(SubSeq(F, 1, Covered(size, n))) = Covered(size, n)
  BY <1>2, <1>6
<1> QED BY <1>6, <1>7, <1>8 DEF F

-----------------------------------------------------------------------------

\* A chunk is the last one only if it is the last of all that were to be sent.
LEMMA LastIsLast ==
    ASSUME SessionInv, TransferInv, NEW r \in Requests, NEW i \in DOMAIN stored[r],
           stored[r][i].index + 1 = Chunks(req[r].size)
    PROVE  /\ req[r].call = "upload" /\ Len(stored[r]) = Chunks(req[r].size)
           /\ \A j \in 1..Len(stored[r]) : stored[r][j] = ChunkAt(req[r].size, j - 1)
<1>1. /\ req[r] \in Calling /\ req[r].index \in Nat /\ Chunks(req[r].size) \in Nat \ {0}
  BY SessionSets, SizeOf
<1>2. Sent(req[r], stored[r]) /\ stored[r] \in Seq(ChunkSet) BY DEF TransferInv
<1>3. req[r].call = "upload"
  <2> SUFFICES ASSUME req[r].call # "upload" PROVE FALSE
    OBVIOUS
  <2>1. stored[r] = <<>> BY <1>2 DEF Sent
  <2>2. DOMAIN stored[r] = {} BY <2>1
  <2> QED BY <2>2
<1>4. i \in 1..Len(stored[r]) /\ Len(stored[r]) \in Nat BY <1>2
<1>5. /\ req[r].index < Chunks(req[r].size)
      /\ Len(stored[r]) \in {req[r].index, req[r].index + 1}
      /\ \A j \in 1..Len(stored[r]) : stored[r][j] = ChunkAt(req[r].size, j - 1)
  BY <1>2, <1>3 DEF Sent
<1>6. stored[r][i].index = i - 1
  <2>1. stored[r][i] = ChunkAt(req[r].size, i - 1) BY <1>4, <1>5
  <2> QED BY <2>1 DEF ChunkAt
<1>7. i = Chunks(req[r].size) BY <1>1, <1>4, <1>6
<1>8. Len(stored[r]) = Chunks(req[r].size) BY <1>1, <1>4, <1>5, <1>7
<1> QED BY <1>3, <1>5, <1>8

\* ... and implies that transfers are whole.
LEMMA TransferSafe == SessionInv /\ TransferInv => TransfersAreWhole
<1> SUFFICES ASSUME SessionInv, TransferInv, NEW r \in Requests
             PROVE  LET q == req[r]
                        last == \E i \in DOMAIN stored[r] : stored[r][i].index + 1 = Chunks(q.size)
                    IN /\ last => /\ Joined(stored[r]) = File(q.size)
                                  /\ Positions(r) = [i \in 1..Chunks(q.size) |-> i - 1]
                                  /\ \A i \in DOMAIN stored[r] :
                                        stored[r][i].offset = Len(Joined(SubSeq(stored[r], 1, i - 1)))
                       /\ q.kind = "upload" /\ q.result = "ok" => last
                       /\ q.kind = "import" /\ q.result = "ok" /\ r \notin moved => q.got = Result
  BY DEF TransfersAreWhole
<1> DEFINE cs == stored[r]
           size == req[r].size
           last == \E i \in DOMAIN cs : cs[i].index + 1 = Chunks(size)
<1>1. /\ req[r] \in Calling /\ Reached(req[r]) /\ size \in Nat /\ Chunks(size) \in Nat \ {0}
      /\ Chunks(size) \in 0..Chunks(size)
  BY SessionSets, SizeOf
<1>2. Sent(req[r], cs) /\ cs \in Seq(ChunkSet) BY DEF TransferInv
<1>3. ASSUME last
      PROVE  /\ Joined(cs) = File(size)
             /\ Positions(r) = [i \in 1..Chunks(size) |-> i - 1]
             /\ \A i \in DOMAIN cs : cs[i].offset = Len(Joined(SubSeq(cs, 1, i - 1)))
  <2>1. PICK l \in DOMAIN stored[r] : stored[r][l].index + 1 = Chunks(req[r].size)
    BY <1>3
  <2>2. /\ Len(cs) = Chunks(size)
        /\ \A j \in 1..Len(cs) : cs[j] = ChunkAt(size, j - 1)
    BY <2>1, LastIsLast
  <2> HIDE DEF cs, size, last
  <2>3. \A j \in 1..Chunks(size) : cs[j] = ChunkAt(size, j - 1) BY <2>2
  <2>4. DOMAIN cs = 1..Chunks(size) BY <1>2, <2>2
  <2>5. Joined(cs) = File(size)
    <3>1. Joined(cs) = SubSeq(File(size), 1, Covered(size, Chunks(size)))
      BY <1>1, <1>2, <2>2, <2>3, JoinedChunks
    <3>2. File(size) \in Seq(Nat) /\ Len(File(size)) = size BY <1>1, FileIs
    <3>3. SubSeq(File(size), 1, Len(File(size))) = File(size) BY <3>2
    <3>4. Covered(size, Chunks(size)) = size BY <1>1, CoveredIs
    <3> QED BY <3>1, <3>2, <3>3, <3>4
  <2>6. Positions(r) = [i \in 1..Chunks(size) |-> i - 1]
    <3>1. \A i \in DOMAIN cs : cs[i].index = i - 1 BY <2>3, <2>4 DEF ChunkAt
    <3>2. Positions(r) = [i \in DOMAIN cs |-> cs[i].index] BY DEF Positions, cs
    <3> QED BY <2>4, <3>1, <3>2
  <2>7. ASSUME NEW i \in DOMAIN cs PROVE cs[i].offset = Len(Joined(SubSeq(cs, 1, i - 1)))
    <3> DEFINE k == i - 1
               part == SubSeq(cs, 1, k)
    <3>1. i \in 1..Chunks(size) /\ k \in 0..(Chunks(size) - 1) /\ k \in 0..Chunks(size) /\ k <= Len(cs)
      BY <1>1, <2>2, <2>4
    <3>2. cs[i].offset = k * ChunkSize
      <4>1. cs[i] = ChunkAt(size, k) BY <2>3, <3>1
      <4> QED BY <4>1 DEF ChunkAt
    <3>3. part \in Seq(ChunkSet) /\ Len(part) = k /\ \A j \in 1..k : part[j] = cs[j]
      BY <1>1, <1>2, <3>1
    <3>4. \A j \in 1..k : part[j] = ChunkAt(size, j - 1) BY <1>1, <2>3, <3>1, <3>3
    <3> HIDE DEF part, k
    <3>5. Len(Joined(part)) = Covered(size, k) BY <1>1, <3>1, <3>3, <3>4, JoinedChunks
    <3>6. Covered(size, k) = k * ChunkSize BY <1>1, <3>1, CoveredIs
    <3> QED BY <3>2, <3>5, <3>6 DEF part, k
  <2> QED BY <2>5, <2>6, <2>7
<1>4. ASSUME req[r].kind = "upload", req[r].result = "ok" PROVE last
  <2>1. req[r].call = "upload" BY <1>1, <1>4 DEF Reached
  <2>2. Len(cs) = Chunks(size) /\ \A j \in 1..Len(cs) : cs[j] = ChunkAt(size, j - 1)
    BY <1>2, <1>4, <2>1 DEF Sent
  <2> HIDE DEF cs, size
  <2> DEFINE n == Chunks(size)
  <2>3. n \in DOMAIN cs /\ cs[n] = ChunkAt(size, n - 1) BY <1>1, <1>2, <2>2
  <2>4. cs[n].index = n - 1 BY <2>3 DEF ChunkAt
  <2>5. cs[n].index + 1 = n BY <1>1, <2>4
  <2> QED BY <2>3, <2>5
<1>5. ASSUME req[r].kind = "import", req[r].result = "ok", r \notin moved
      PROVE  req[r].got = Result
  <2>1. req[r].call = "explore" BY <1>1, <1>5 DEF Reached
  <2>2. Received(req[r]) BY <1>5, <2>1 DEF TransferInv
  <2> QED BY <1>5, <2>2 DEF Received
<1> QED BY <1>3, <1>4, <1>5

\* What arrives is whole: the chunks of a file, put together, are the file (Upload), and
\* the pages of an import the result set (ExploreAll), whatever is repeated or lost.
THEOREM TransfersArriveWhole == Spec => []TransfersAreWhole
<1> DEFINE Inv == SessionInv /\ TransferInv
<1>1. Init => Inv BY SessionInit, TransferInit
<1>2. Inv /\ [Next]_vars => Inv' BY SessionNext, TransferNext
<1>3. Inv => TransfersAreWhole BY TransferSafe
<1> HIDE DEF Inv
<1> QED BY <1>1, <1>2, <1>3, PTL DEF Spec
=============================================================================
