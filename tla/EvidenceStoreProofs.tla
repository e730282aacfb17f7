-------------------------- MODULE EvidenceStoreProofs --------------------------
(***************************************************************************)
(* Proofs about EvidenceStore, for any number of rows, names, contents and *)
(* concurrent requests.                                                    *)
(*                                                                         *)
(* What a request holds depends on how far it has come (StepOK).  From the *)
(* types alone follow the rows' unique names and that no row goes without  *)
(* a word in the log.  That the log and the hashes are right needs what    *)
(* the handler established on the way: the row it has read is still there, *)
(* its new name is free, and the file under it has the hash it will save.  *)
(***************************************************************************)
EXTENDS EvidenceStore, TLAPS

Req == [pc : Steps, id : Ids \cup {NoId}, new : BOOLEAN,
        old : Rows \cup {Absent}, dto : Rows \cup {Absent},
        upload : Contents \cup {NoFile}, attached : BOOLEAN,
        outs : SUBSET Names, recs : SUBSET Rows]

Saving  == {"check", "write", "copy", "stat", "rename", "adopt", "commit"}
Running == {"tool", "output", "hash", "add"}

StepOK(q) ==
    /\ q.pc \in Saving => q.id \in Ids /\ q.dto \in Rows /\ (~q.new => q.old \in Rows)
    /\ q.pc = "check" /\ q.new => (q.dto.fileless <=> q.upload = NoFile)
    /\ q.pc \in {"write", "copy"} => q.upload # NoFile
    /\ q.pc \in {"stat", "rename"} => q.old \in Rows
    /\ q.pc \in {"remove", "delete"} => q.id \in Ids /\ q.old \in Rows
    /\ q.pc \in Running => q.old \in Rows
    /\ q.pc = "addlog" => q.id \in Ids

ReqsOK(reqs) == reqs \in [Requests -> Req] /\ \A r \in Requests : StepOK(reqs[r])

RowsOK ==
    /\ row \in [Ids -> Rows \cup {Absent}]
    /\ told \in [Ids -> Rows \cup {Absent}]
    /\ caseRow \in BOOLEAN /\ used \subseteq Ids
    /\ \A i, j \in Ids : row[i] # Absent /\ row[j] # Absent /\ row[i].name = row[j].name => i = j

DiskOK == disk \in [Names -> Files]

HistoryOK ==
    /\ foreign \subseteq Ids /\ unlogged \subseteq Ids
    /\ overlapped \in BOOLEAN /\ begun \in Nat /\ crashes \in Nat

TypeInv == RowsOK /\ DiskOK /\ HistoryOK /\ ReqsOK(req)

-----------------------------------------------------------------------------
(* The requests.                                                           *)

LEMMA IdleOK == Idle \in Req /\ StepOK(Idle)
  BY DEF Idle, Req, StepOK, Steps, Saving, Running

LEMMA AbsentIsNoRow == Absent \notin Rows
  BY EvidenceAssumption DEF Rows, Hashes

LEMMA UpdateOK ==
    ASSUME ReqsOK(req), NEW r \in Requests, NEW q \in Req, StepOK(q)
    PROVE  ReqsOK([req EXCEPT ![r] = q])
  BY DEF ReqsOK

LEMMA EndOK ==
    ASSUME ReqsOK(req), NEW r \in Requests, End(r)
    PROVE  ReqsOK(req') /\ req' = [req EXCEPT ![r] = Idle]
  BY UpdateOK, IdleOK DEF End

LEMMA BeginOK ==
    ASSUME TypeInv, NEW r \in Requests, NEW rec \in Req, StepOK(rec), Begin(r, rec)
    PROVE  /\ ReqsOK(req') /\ req' = [req EXCEPT ![r] = rec]
           /\ overlapped' \in BOOLEAN /\ begun' \in Nat
  <1>1. req' = [req EXCEPT ![r] = rec]  BY DEF Begin
  <1>2. overlapped' \in BOOLEAN /\ begun' \in Nat
    BY EvidenceAssumption DEF Begin, TypeInv, HistoryOK
  <1>3. ReqsOK(req')  BY <1>1, UpdateOK DEF TypeInv
  <1> QED  BY <1>1, <1>2, <1>3

LEMMA GotoOK ==
    ASSUME ReqsOK(req), NEW r \in Requests, NEW pc \in Steps, Goto(r, pc),
           StepOK([req[r] EXCEPT !.pc = pc])
    PROVE  ReqsOK(req') /\ req' = [req EXCEPT ![r] = [req[r] EXCEPT !.pc = pc]]
  <1> DEFINE q == [req[r] EXCEPT !.pc = pc]
  <1>1. q \in Req  BY DEF ReqsOK, Req
  <1>2. req' = [req EXCEPT ![r] = q]  BY DEF Goto, ReqsOK
  <1>3. ReqsOK([req EXCEPT ![r] = q])
    <2> HIDE DEF q
    <2> QED  BY <1>1, UpdateOK DEF q
  <1> QED  BY <1>2, <1>3

\* What a reader finds is a hash.
LEMMA HashOfOK ==
    ASSUME DiskOK, NEW n \in Names, disk[n] # NoFile
    PROVE  HashOf(n) \in Hashes
  BY DEF DiskOK, Files, HashOf, Hashes

LEMMA WrittenOK ==
    ASSUME DiskOK, NEW r \in Requests, NEW c \in Contents \cup {Partial}
    PROVE  Written(r, c) \in [Names -> Files]
  BY DEF DiskOK, Files, Written

\* Saving a row under a free name.
LEMMA SaveOK ==
    ASSUME RowsOK, NEW i \in Ids, NEW rec \in Rows, NEW entry \in BOOLEAN,
           Savable(i, rec), Save(i, rec, entry), UNCHANGED caseRow
    PROVE  RowsOK'
  BY AbsentIsNoRow DEF RowsOK, Savable, Save, Named, Present

-----------------------------------------------------------------------------
(* Types: EvidenceSave.                                                    *)

LEMMA SaveNewType ==
    ASSUME TypeInv, NEW r \in Requests, SaveNew(r)
    PROVE  TypeInv'
  <1>1. PICK i \in Ids, n \in Entered, h \in Typed, u \in Contents \cup {NoFile} :
          Begin(r, [Idle EXCEPT !.pc = "check", !.id = i, !.new = TRUE, !.upload = u,
                      !.dto = [name |-> n, fileless |-> u = NoFile, hash |-> h]])
    BY DEF SaveNew
  <1> DEFINE q == [Idle EXCEPT !.pc = "check", !.id = i, !.new = TRUE, !.upload = u,
                     !.dto = [name |-> n, fileless |-> u = NoFile, hash |-> h]]
  <1>2. q \in Req /\ StepOK(q)
    BY EvidenceAssumption DEF Idle, Req, StepOK, Steps, Saving, Running, Rows, Hashes
  <1>3. ReqsOK(req') /\ overlapped' \in BOOLEAN /\ begun' \in Nat
    <2> HIDE DEF q
    <2>1. Begin(r, q)  BY <1>1 DEF q
    <2> QED  BY <1>2, <2>1, BeginOK
  <1> QED  BY <1>3 DEF SaveNew, TypeInv, RowsOK, DiskOK, HistoryOK

LEMMA SaveEditType ==
    ASSUME TypeInv, NEW r \in Requests, SaveEdit(r)
    PROVE  TypeInv'
  <1>1. PICK i \in Ids, n \in Entered, h \in Typed, u \in Contents \cup {NoFile} :
          /\ Present(i)
          /\ Begin(r, [Idle EXCEPT !.pc = "check", !.id = i, !.upload = u, !.old = row[i],
                        !.dto = [name |-> n, fileless |-> row[i].fileless,
                                 hash |-> IF row[i].fileless THEN h ELSE row[i].hash]])
    BY DEF SaveEdit
  <1> DEFINE q == [Idle EXCEPT !.pc = "check", !.id = i, !.upload = u, !.old = row[i],
                     !.dto = [name |-> n, fileless |-> row[i].fileless,
                              hash |-> IF row[i].fileless THEN h ELSE row[i].hash]]
  <1>2. row[i] \in Rows  BY <1>1 DEF Present, TypeInv, RowsOK
  <1>3. q \in Req /\ StepOK(q)
    BY <1>2, EvidenceAssumption DEF Idle, Req, StepOK, Steps, Saving, Running, Rows, Hashes
  <1>4. ReqsOK(req') /\ overlapped' \in BOOLEAN /\ begun' \in Nat
    <2> HIDE DEF q
    <2>1. Begin(r, q)  BY <1>1 DEF q
    <2> QED  BY <1>3, <2>1, BeginOK
  <1> QED  BY <1>4 DEF SaveEdit, TypeInv, RowsOK, DiskOK, HistoryOK

LEMMA CheckNameType ==
    ASSUME TypeInv, NEW r \in Requests, CheckName(r)
    PROVE  TypeInv'
  <1> DEFINE q == req[r]
             backed == ~q.dto.fileless
             stored == backed /\ q.upload = NoFile
             refuse == \/ Named(q.dto.name) \ {q.id} # {}
                       \/ backed /\ ~q.new /\ q.upload # NoFile
             next == CASE q.upload # NoFile -> "write"
                       [] stored /\ q.dto.name # q.old.name -> "stat"
                       [] stored /\ q.dto.name = q.old.name -> "commit"
                       [] OTHER -> "adopt"
  <1>1. ReqsOK(req) /\ q \in Req /\ StepOK(q) /\ q.pc = "check"
    BY DEF TypeInv, ReqsOK, CheckName
  <1>2. ReqsOK(req')
    <2>1. CASE refuse
      <3>1. End(r)  BY <2>1 DEF CheckName
      <3> QED  BY <1>1, <3>1, EndOK
    <2>2. CASE ~refuse
      <3>1. Goto(r, next)  BY <2>2 DEF CheckName
      <3>2. next \in {"write", "stat", "commit", "adopt"}
        OBVIOUS
      <3>3. next = "write" => q.upload # NoFile
        OBVIOUS
      <3>4. next = "stat" => q.old \in Rows
        <4>1. q.upload = NoFile /\ backed => ~q.new  BY <1>1 DEF StepOK
        <4>2. next = "stat" => q.upload = NoFile /\ backed  OBVIOUS
        <4>3. ~q.new => q.old \in Rows  BY <1>1 DEF StepOK, Saving
        <4> HIDE DEF next, backed
        <4> QED  BY <4>1, <4>2, <4>3
      <3> HIDE DEF next
      <3>5. next \in Steps /\ StepOK([q EXCEPT !.pc = next])
        BY <1>1, <3>2, <3>3, <3>4 DEF Steps, StepOK, Req, Saving, Running
      <3> QED  BY <1>1, <3>1, <3>5, GotoOK
    <2> QED  BY <2>1, <2>2
  <1> QED  BY <1>2 DEF CheckName, TypeInv, RowsOK, DiskOK, HistoryOK

LEMMA OpenFileType ==
    ASSUME TypeInv, NEW r \in Requests, OpenFile(r)
    PROVE  TypeInv'
  <1>1. ReqsOK(req) /\ req[r] \in Req /\ StepOK(req[r]) /\ req[r].pc = "write"
    BY DEF TypeInv, ReqsOK, OpenFile
  <1>2. req[r].dto \in Rows  BY <1>1 DEF StepOK, Saving
  <1>3. ReqsOK(req')
    <2>1. "copy" \in Steps /\ StepOK([req[r] EXCEPT !.pc = "copy"])
      BY <1>1 DEF Steps, StepOK, Req, Saving, Running
    <2> QED  BY <1>1, <2>1, EndOK, GotoOK DEF OpenFile
  <1>4. DiskOK'  BY <1>2 DEF OpenFile, TypeInv, DiskOK, Files, Rows
  <1> QED  BY <1>3, <1>4 DEF OpenFile, TypeInv, RowsOK, HistoryOK

LEMMA CopyFileType ==
    ASSUME TypeInv, NEW r \in Requests, CopyFile(r)
    PROVE  TypeInv'
  <1>1. ReqsOK(req) /\ req[r] \in Req /\ StepOK(req[r]) /\ req[r].pc = "copy"
    BY DEF TypeInv, ReqsOK, CopyFile
  <1>2. req[r].dto \in Rows /\ req[r].upload \in Contents
    BY <1>1 DEF StepOK, Req, Saving
  <1> DEFINE d == [req[r].dto EXCEPT !.hash = req[r].upload, !.fileless = FALSE]
             q == [req[r] EXCEPT !.pc = "commit", !.dto = d, !.attached = ~req[r].new]
  <1>3. d \in Rows  BY <1>2 DEF Rows, Hashes
  <1>4. req' = [req EXCEPT ![r] = q]
    BY <1>1, ZenonT(60) DEF CopyFile, ReqsOK, Req
  <1>5. q \in Req /\ StepOK(q)
    <2> HIDE DEF d
    <2> QED  BY <1>1, <1>3 DEF Req, StepOK, Steps, Saving, Running
  <1>6. ReqsOK(req')
    <2> HIDE DEF q
    <2> QED  BY <1>1, <1>4, <1>5, UpdateOK
  <1>7. DiskOK'
    BY <1>2, WrittenOK DEF CopyFile, TypeInv, DiskOK
  <1> QED  BY <1>6, <1>7 DEF CopyFile, TypeInv, RowsOK, HistoryOK

LEMMA CopyFailsType ==
    ASSUME TypeInv, NEW r \in Requests, CopyFails(r)
    PROVE  TypeInv'
  <1>1. ReqsOK(req')  BY EndOK DEF CopyFails, TypeInv
  <1>2. DiskOK'  BY WrittenOK DEF CopyFails, TypeInv, DiskOK
  <1> QED  BY <1>1, <1>2 DEF CopyFails, TypeInv, RowsOK, HistoryOK

LEMMA AdoptType ==
    ASSUME TypeInv, NEW r \in Requests, Adopt(r)
    PROVE  TypeInv'
  <1>1. ReqsOK(req) /\ req[r] \in Req /\ StepOK(req[r]) /\ req[r].pc = "adopt"
    BY DEF TypeInv, ReqsOK, Adopt
  <1>2. req[r].dto \in Rows /\ req[r].dto.name \in Names  BY <1>1 DEF StepOK, Saving, Rows
  <1> DEFINE n == req[r].dto.name
             d == [req[r].dto EXCEPT !.hash = HashOf(n), !.fileless = FALSE]
             q == IF disk[n] = NoFile THEN [req[r] EXCEPT !.pc = "commit"]
                  ELSE [req[r] EXCEPT !.pc = "commit", !.dto = d, !.attached = TRUE]
  <1>3. disk[n] # NoFile => d \in Rows
    <2> HIDE DEF n
    <2>1. disk[n] # NoFile => HashOf(n) \in Hashes
      BY <1>2, HashOfOK DEF TypeInv, n
    <2> QED  BY <1>2, <2>1 DEF Rows
  <1>4. req' = [req EXCEPT ![r] = q]
    BY <1>1 DEF Adopt, ReqsOK, Req
  <1>5. q \in Req /\ StepOK(q)
    <2> HIDE DEF d
    <2> QED  BY <1>1, <1>3 DEF Req, StepOK, Steps, Saving, Running
  <1>6. ReqsOK(req')
    <2> HIDE DEF q
    <2> QED  BY <1>1, <1>4, <1>5, UpdateOK
  <1> QED  BY <1>6 DEF Adopt, TypeInv, RowsOK, DiskOK, HistoryOK

LEMMA StatTargetType ==
    ASSUME TypeInv, NEW r \in Requests, StatTarget(r)
    PROVE  TypeInv'
  <1>1. ReqsOK(req) /\ req[r] \in Req /\ StepOK(req[r]) /\ req[r].pc = "stat"
    BY DEF TypeInv, ReqsOK, StatTarget
  <1>2. "rename" \in Steps /\ StepOK([req[r] EXCEPT !.pc = "rename"])
    BY <1>1 DEF Steps, StepOK, Req, Saving, Running
  <1>3. ReqsOK(req')  BY <1>1, <1>2, EndOK, GotoOK DEF StatTarget
  <1> QED  BY <1>3 DEF StatTarget, TypeInv, RowsOK, DiskOK, HistoryOK

LEMMA RenameFileType ==
    ASSUME TypeInv, NEW r \in Requests, RenameFile(r)
    PROVE  TypeInv'
  <1>1. ReqsOK(req) /\ req[r] \in Req /\ StepOK(req[r]) /\ req[r].pc = "rename"
    BY DEF TypeInv, ReqsOK, RenameFile
  <1>2. req[r].old.name \in Names /\ req[r].dto.name \in Names
    BY <1>1 DEF StepOK, Saving, Rows
  <1>3. "commit" \in Steps /\ StepOK([req[r] EXCEPT !.pc = "commit"])
    BY <1>1 DEF Steps, StepOK, Req, Saving, Running
  <1>4. ReqsOK(req')  BY <1>1, <1>3, EndOK, GotoOK DEF RenameFile
  <1>5. DiskOK'  BY <1>2 DEF RenameFile, TypeInv, DiskOK, Files
  <1> QED  BY <1>4, <1>5 DEF RenameFile, TypeInv, RowsOK, HistoryOK

LEMMA CommitType ==
    ASSUME TypeInv, NEW r \in Requests, Commit(r)
    PROVE  TypeInv'
  <1>1. ReqsOK(req) /\ req[r] \in Req /\ StepOK(req[r]) /\ req[r].pc = "commit"
    BY DEF TypeInv, ReqsOK, Commit
  <1>2. req[r].id \in Ids /\ req[r].dto \in Rows /\ req[r].new \in BOOLEAN
        /\ req[r].attached \in BOOLEAN
    BY <1>1 DEF StepOK, Saving, Req
  <1>3. PICK entry \in BOOLEAN : Save(req[r].id, req[r].dto, entry)
    BY <1>2 DEF Commit
  <1>4. RowsOK'  BY <1>2, <1>3, SaveOK DEF Commit, TypeInv
  <1>5. ReqsOK(req')  BY <1>1, EndOK DEF Commit
  <1> QED  BY <1>4, <1>5 DEF Commit, TypeInv, DiskOK, HistoryOK

LEMMA FailsType ==
    ASSUME TypeInv, NEW r \in Requests, Fails(r)
    PROVE  TypeInv'
  <1>1. ReqsOK(req')  BY EndOK DEF Fails, TypeInv
  <1>2. req[r].pc = "addlog" => req[r].id \in Ids  BY DEF TypeInv, ReqsOK, StepOK
  <1> QED  BY <1>1, <1>2 DEF Fails, TypeInv, RowsOK, DiskOK, HistoryOK

-----------------------------------------------------------------------------
(* Types: import, deletion, module runs.                                   *)

LEMMA ImportType ==
    ASSUME TypeInv, NEW r \in Requests, Import(r)
    PROVE  TypeInv'
  <1>1. PICK i \in Ids, rec \in Rows, logged \in BOOLEAN :
          /\ Savable(i, rec) /\ Save(i, rec, logged)
          /\ foreign' = foreign \cup {i}
          /\ unlogged' = IF logged THEN unlogged ELSE unlogged \cup {i}
    BY DEF Import
  <1>2. RowsOK'  BY <1>1, SaveOK DEF Import, TypeInv
  <1>3. overlapped' \in BOOLEAN /\ begun' \in Nat
    BY EvidenceAssumption DEF Import, TypeInv, HistoryOK
  <1> QED  BY <1>1, <1>2, <1>3 DEF Import, TypeInv, DiskOK, HistoryOK, ReqsOK

LEMMA DeleteReadType ==
    ASSUME TypeInv, NEW r \in Requests, DeleteRead(r)
    PROVE  TypeInv'
  <1>1. PICK i \in Ids :
          /\ Present(i)
          /\ Begin(r, [Idle EXCEPT !.id = i, !.old = row[i],
                         !.pc = IF row[i].fileless THEN "delete" ELSE "remove"])
    BY DEF DeleteRead
  <1> DEFINE q == [Idle EXCEPT !.id = i, !.old = row[i],
                     !.pc = IF row[i].fileless THEN "delete" ELSE "remove"]
  <1>2. row[i] \in Rows  BY <1>1 DEF Present, TypeInv, RowsOK
  <1>3. q \in Req /\ StepOK(q)
    BY <1>2 DEF Idle, Req, StepOK, Steps, Saving, Running
  <1>4. ReqsOK(req') /\ overlapped' \in BOOLEAN /\ begun' \in Nat
    <2> HIDE DEF q
    <2>1. Begin(r, q)  BY <1>1 DEF q
    <2> QED  BY <1>3, <2>1, BeginOK
  <1> QED  BY <1>4 DEF DeleteRead, TypeInv, RowsOK, DiskOK, HistoryOK

LEMMA RemoveFileType ==
    ASSUME TypeInv, NEW r \in Requests, RemoveFile(r)
    PROVE  TypeInv'
  <1>1. ReqsOK(req) /\ req[r] \in Req /\ StepOK(req[r]) /\ req[r].pc = "remove"
    BY DEF TypeInv, ReqsOK, RemoveFile
  <1>2. "delete" \in Steps /\ StepOK([req[r] EXCEPT !.pc = "delete"])
    BY <1>1 DEF Steps, StepOK, Req, Saving, Running
  <1>3. ReqsOK(req')  BY <1>1, <1>2, GotoOK DEF RemoveFile
  <1>4. DiskOK'  BY DEF RemoveFile, TypeInv, DiskOK, Files
  <1> QED  BY <1>3, <1>4 DEF RemoveFile, TypeInv, RowsOK, HistoryOK

LEMMA DeleteRowType ==
    ASSUME TypeInv, NEW r \in Requests, DeleteRow(r)
    PROVE  TypeInv'
  <1>1. ReqsOK(req')  BY EndOK DEF DeleteRow, TypeInv
  <1>2. RowsOK'  BY DEF DeleteRow, TypeInv, RowsOK
  <1> QED  BY <1>1, <1>2 DEF DeleteRow, TypeInv, DiskOK, HistoryOK

LEMMA PurgeLogType ==
    ASSUME TypeInv, NEW i \in Ids, PurgeLog(i)
    PROVE  TypeInv'
  BY DEF PurgeLog, TypeInv, RowsOK, DiskOK, HistoryOK, ReqsOK

LEMMA DeleteCaseType ==
    ASSUME TypeInv, NEW r \in Requests, DeleteCase(r)
    PROVE  TypeInv'
  <1> DEFINE q == [Idle EXCEPT !.pc = "rmdir"]
  <1>1. q \in Req /\ StepOK(q)
    BY DEF Idle, Req, StepOK, Steps, Saving, Running
  <1>2. ReqsOK(req') /\ overlapped' \in BOOLEAN /\ begun' \in Nat
    BY <1>1, BeginOK DEF DeleteCase
  <1>3. RowsOK'  BY DEF DeleteCase, TypeInv, RowsOK
  <1> QED  BY <1>2, <1>3 DEF DeleteCase, TypeInv, DiskOK, HistoryOK

LEMMA RemoveDirType ==
    ASSUME TypeInv, NEW r \in Requests, RemoveDir(r)
    PROVE  TypeInv'
  <1>1. ReqsOK(req')  BY EndOK DEF RemoveDir, TypeInv
  <1>2. DiskOK'  BY DEF RemoveDir, DiskOK, Files
  <1> QED  BY <1>1, <1>2 DEF RemoveDir, TypeInv, RowsOK, HistoryOK

\* A module run that begins.
LEMMA RunOK ==
    ASSUME TypeInv, NEW i \in Ids, Present(i), NEW outs \in Outputs(row[i].name)
    PROVE  LET q == [Idle EXCEPT !.pc = "tool", !.old = row[i], !.outs = outs]
           IN  q \in Req /\ StepOK(q) /\ q.pc \notin Saving \cup {"output", "hash", "add"}
  <1>1. row[i] \in Rows /\ row[i].name \in Names
    BY DEF Present, TypeInv, RowsOK, Rows
  <1>2. outs \subseteq Names  BY <1>1, EvidenceAssumption
  <1> QED  BY <1>1, <1>2 DEF Idle, Req, StepOK, Steps, Saving, Running

LEMMA ModuleRunType ==
    ASSUME TypeInv, NEW r \in Requests, ModuleRun(r)
    PROVE  TypeInv'
  <1>1. PICK i \in Ids : Present(i) /\ \E outs \in Outputs(row[i].name) :
          Begin(r, [Idle EXCEPT !.pc = "tool", !.old = row[i], !.outs = outs])
    BY DEF ModuleRun
  <1>2. PICK outs \in Outputs(row[i].name) :
          Begin(r, [Idle EXCEPT !.pc = "tool", !.old = row[i], !.outs = outs])
    BY <1>1
  <1> DEFINE q == [Idle EXCEPT !.pc = "tool", !.old = row[i], !.outs = outs]
  <1>3. q \in Req /\ StepOK(q)  BY <1>1, RunOK
  <1>4. Begin(r, q)  BY <1>2
  <1>5. ReqsOK(req') /\ overlapped' \in BOOLEAN /\ begun' \in Nat
    <2> HIDE DEF q
    <2> QED  BY <1>3, <1>4, BeginOK
  <1> QED  BY <1>5 DEF ModuleRun, TypeInv, RowsOK, DiskOK, HistoryOK

LEMMA OpenOutputType ==
    ASSUME TypeInv, NEW r \in Requests, OpenOutput(r)
    PROVE  TypeInv'
  <1>1. ReqsOK(req) /\ req[r] \in Req /\ StepOK(req[r]) /\ req[r].pc = "tool"
    BY DEF TypeInv, ReqsOK, OpenOutput
  <1>2. "output" \in Steps /\ StepOK([req[r] EXCEPT !.pc = "output"])
    BY <1>1 DEF Steps, StepOK, Req, Saving, Running
  <1>3. ReqsOK(req')  BY <1>1, <1>2, GotoOK DEF OpenOutput
  <1>4. DiskOK'  BY DEF OpenOutput, TypeInv, DiskOK, Files
  <1>5. foreign' \subseteq Ids  BY DEF OpenOutput, TypeInv, HistoryOK, Named
  <1> QED  BY <1>3, <1>4, <1>5 DEF OpenOutput, TypeInv, RowsOK, HistoryOK

LEMMA ToolWritesType ==
    ASSUME TypeInv, NEW r \in Requests, ToolWrites(r)
    PROVE  TypeInv'
  <1>1. ReqsOK(req) /\ req[r] \in Req /\ StepOK(req[r]) /\ req[r].pc = "output"
    BY DEF TypeInv, ReqsOK, ToolWrites
  <1>2. "hash" \in Steps /\ StepOK([req[r] EXCEPT !.pc = "hash"])
    BY <1>1 DEF Steps, StepOK, Req, Saving, Running
  <1>3. ReqsOK(req')  BY <1>1, <1>2, GotoOK DEF ToolWrites
  <1>4. DiskOK'  BY DEF ToolWrites, TypeInv, DiskOK, Files
  <1> QED  BY <1>3, <1>4 DEF ToolWrites, TypeInv, RowsOK, HistoryOK

LEMMA ToolFailsType ==
    ASSUME TypeInv, NEW r \in Requests, ToolFails(r)
    PROVE  TypeInv'
  <1>1. ReqsOK(req')  BY EndOK DEF ToolFails, TypeInv
  <1>2. DiskOK'  BY DEF ToolFails, TypeInv, DiskOK, Files
  <1> QED  BY <1>1, <1>2 DEF ToolFails, TypeInv, RowsOK, HistoryOK

\* What hashing an output leaves of the request.
LEMMA HashedOK ==
    ASSUME TypeInv, NEW r \in Requests, HashOutput(r)
    PROVE  \E n \in req[r].outs :
             LET rec == [name |-> n, fileless |-> FALSE, hash |-> HashOf(n)]
                 q == [req[r] EXCEPT !.pc = IF req[r].outs = {n} THEN "add" ELSE "hash",
                                     !.outs = req[r].outs \ {n},
                                     !.recs = req[r].recs \cup {rec}]
             IN  /\ n \in Names /\ rec \in Rows
                 /\ q \in Req /\ StepOK(q) /\ req' = [req EXCEPT ![r] = q]
  <1>1. ReqsOK(req) /\ req[r] \in Req /\ StepOK(req[r]) /\ req[r].pc = "hash"
    BY DEF TypeInv, ReqsOK, HashOutput
  <1>2. PICK n \in req[r].outs :
          /\ disk[n] # NoFile
          /\ req' = [req EXCEPT
                      ![r].pc = IF req[r].outs = {n} THEN "add" ELSE "hash",
                      ![r].outs = req[r].outs \ {n},
                      ![r].recs = req[r].recs \cup {[name |-> n, fileless |-> FALSE,
                                                    hash |-> HashOf(n)]}]
    BY DEF HashOutput
  <1> DEFINE rec == [name |-> n, fileless |-> FALSE, hash |-> HashOf(n)]
             q == [req[r] EXCEPT !.pc = IF req[r].outs = {n} THEN "add" ELSE "hash",
                                 !.outs = req[r].outs \ {n},
                                 !.recs = req[r].recs \cup {rec}]
  <1>3. n \in Names  BY <1>1 DEF Req
  <1>4. rec \in Rows
    <2>1. HashOf(n) \in Hashes  BY <1>2, <1>3, HashOfOK DEF TypeInv
    <2> QED  BY <1>3, <2>1 DEF Rows
  <1>5. q \in Req /\ StepOK(q)
    <2> HIDE DEF rec
    <2> QED  BY <1>1, <1>4 DEF Req, StepOK, Steps, Saving, Running
  <1>6. req' = [req EXCEPT ![r] = q]
    <2> HIDE DEF rec
    <2> QED  BY <1>1, <1>2 DEF ReqsOK, Req, rec
  <1> QED  BY <1>3, <1>4, <1>5, <1>6

LEMMA HashOutputType ==
    ASSUME TypeInv, NEW r \in Requests, HashOutput(r)
    PROVE  TypeInv'
  <1>1. PICK q \in Req : StepOK(q) /\ req' = [req EXCEPT ![r] = q]
    BY HashedOK
  <1>2. ReqsOK(req')  BY <1>1, UpdateOK DEF TypeInv
  <1> QED  BY <1>2 DEF HashOutput, TypeInv, RowsOK, DiskOK, HistoryOK

\* The request that has inserted its output and has yet to log it.
LEMMA AddedOK ==
    ASSUME TypeInv, NEW r \in Requests, NEW i \in Ids, req[r].pc = "add",
           req' = [req EXCEPT ![r].pc = "addlog", ![r].id = i, ![r].recs = {}]
    PROVE  LET q == [req[r] EXCEPT !.pc = "addlog", !.id = i, !.recs = {}]
           IN  q \in Req /\ StepOK(q) /\ req' = [req EXCEPT ![r] = q]
  <1>1. ReqsOK(req) /\ req[r] \in Req /\ StepOK(req[r])  BY DEF TypeInv, ReqsOK
  <1> QED  BY <1>1 DEF ReqsOK, Req, StepOK, Steps, Saving, Running

LEMMA AddFromFSType ==
    ASSUME TypeInv, NEW r \in Requests, AddFromFS(r)
    PROVE  TypeInv'
  <1>1. PICK i \in Ids, rec \in req[r].recs :
          /\ Savable(i, rec) /\ Save(i, rec, FALSE)
          /\ req' = [req EXCEPT ![r].pc = "addlog", ![r].id = i, ![r].recs = {}]
    BY DEF AddFromFS
  <1>2. rec \in Rows  BY DEF TypeInv, ReqsOK, Req
  <1>3. RowsOK'  BY <1>1, <1>2, SaveOK DEF AddFromFS, TypeInv
  <1>4. PICK q \in Req : StepOK(q) /\ req' = [req EXCEPT ![r] = q]
    BY <1>1, AddedOK DEF AddFromFS
  <1>5. ReqsOK(req')  BY <1>4, UpdateOK DEF TypeInv
  <1> QED  BY <1>3, <1>5 DEF AddFromFS, TypeInv, DiskOK, HistoryOK

\* Both outputs are saved under free names.
Both(i, j, p, c) ==
    /\ p.name # c.name /\ i # j /\ Savable(i, p) /\ Savable(j, c)
    /\ row' = [row EXCEPT ![i] = p, ![j] = c]
    /\ told' = [told EXCEPT ![i] = p, ![j] = c]
    /\ used' = used \cup {i, j}

LEMMA AddBothType ==
    ASSUME TypeInv, NEW r \in Requests, AddBoth(r)
    PROVE  TypeInv'
  <1>1. PICK i \in Ids, j \in Ids, p \in req[r].recs, c \in req[r].recs : Both(i, j, p, c)
    BY DEF AddBoth, Both
  <1>2. /\ p.name # c.name /\ i # j /\ Savable(i, p) /\ Savable(j, c)
        /\ row' = [row EXCEPT ![i] = p, ![j] = c]
        /\ told' = [told EXCEPT ![i] = p, ![j] = c]
        /\ used' = used \cup {i, j}
    BY <1>1 DEF Both
  <1>3. p \in Rows /\ c \in Rows  BY DEF TypeInv, ReqsOK, Req
  <1>4. RowsOK'
    <2>1. row' \in [Ids -> Rows \cup {Absent}] /\ told' \in [Ids -> Rows \cup {Absent}]
          /\ used' \subseteq Ids /\ caseRow' \in BOOLEAN
      BY <1>2, <1>3 DEF AddBoth, TypeInv, RowsOK
    <2>2. /\ row'[i] = p /\ row'[j] = c
          /\ \A k \in Ids : k # i /\ k # j => row'[k] = row[k]
      BY <1>2 DEF TypeInv, RowsOK
    <2>3. \A k \in Ids : Present(k) /\ row[k].name = p.name => k = i
      BY <1>2 DEF Savable, Named
    <2>4. \A k \in Ids : Present(k) /\ row[k].name = c.name => k = j
      BY <1>2 DEF Savable, Named
    <2>5. ASSUME NEW k \in Ids, NEW l \in Ids, row'[k] # Absent, row'[l] # Absent,
                 row'[k].name = row'[l].name
          PROVE  k = l
      <3>1. CASE k \in {i, j} /\ l \in {i, j}
        BY <1>2, <2>2, <2>5, <3>1
      <3>2. CASE k \in {i, j} /\ l \notin {i, j}
        BY <2>2, <2>3, <2>4, <2>5, <3>2 DEF Present
      <3>3. CASE k \notin {i, j} /\ l \in {i, j}
        BY <2>2, <2>3, <2>4, <2>5, <3>3 DEF Present
      <3>4. CASE k \notin {i, j} /\ l \notin {i, j}
        BY <2>2, <2>5, <3>4 DEF TypeInv, RowsOK
      <3> QED  BY <3>1, <3>2, <3>3, <3>4
    <2> QED  BY <2>1, <2>5 DEF RowsOK
  <1>5. ReqsOK(req')  BY EndOK DEF AddBoth, TypeInv
  <1> QED  BY <1>4, <1>5 DEF AddBoth, TypeInv, DiskOK, HistoryOK

LEMMA AddLogType ==
    ASSUME TypeInv, NEW r \in Requests, AddLog(r)
    PROVE  TypeInv'
  <1>1. ReqsOK(req')  BY EndOK DEF AddLog, TypeInv
  <1>2. req[r].id \in Ids  BY DEF AddLog, TypeInv, ReqsOK, StepOK
  <1>3. RowsOK'  BY <1>2 DEF AddLog, TypeInv, RowsOK
  <1> QED  BY <1>1, <1>3 DEF AddLog, TypeInv, DiskOK, HistoryOK

LEMMA CrashType ==
    ASSUME TypeInv, Crash
    PROVE  TypeInv'
  <1>1. ReqsOK(req')  BY IdleOK DEF Crash, ReqsOK
  <1>2. DiskOK'  BY DEF Crash, TypeInv, DiskOK, Files
  <1>3. unlogged' \subseteq Ids  BY DEF Crash, TypeInv, HistoryOK, ReqsOK, StepOK
  <1>4. crashes' \in Nat  BY DEF Crash, TypeInv, HistoryOK
  <1> QED  BY <1>1, <1>2, <1>3, <1>4 DEF Crash, TypeInv, RowsOK, HistoryOK

LEMMA TypeStep == TypeInv /\ [Next]_vars => TypeInv'
  <1> SUFFICES ASSUME TypeInv, [Next]_vars PROVE TypeInv'
    OBVIOUS
  <1>1. CASE UNCHANGED vars
    BY <1>1 DEF vars, TypeInv, RowsOK, DiskOK, HistoryOK, ReqsOK
  <1>2. CASE Next
    BY <1>2, SaveNewType, SaveEditType, CheckNameType, OpenFileType, CopyFileType, CopyFailsType,
       AdoptType, StatTargetType, RenameFileType, CommitType, FailsType, ImportType,
       DeleteReadType, RemoveFileType, DeleteRowType, DeleteCaseType, RemoveDirType,
       ModuleRunType, OpenOutputType, ToolWritesType, ToolFailsType, HashOutputType,
       AddFromFSType, AddBothType, AddLogType, PurgeLogType, CrashType
       DEF Next
  <1> QED  BY <1>1, <1>2

LEMMA TypeInit == Init => TypeInv
  <1> SUFFICES ASSUME Init PROVE TypeInv
    OBVIOUS
  <1>1. ReqsOK(req)  BY IdleOK DEF Init, ReqsOK
  <1> QED  BY <1>1 DEF Init, TypeInv, RowsOK, DiskOK, HistoryOK, Files

\* Types, and one row per file whatever requests overlap: the unique index decides
\* when EvidenceNameTaken's answer is stale (EvidenceSave, AddFromFS).
THEOREM EvidenceTypeCorrect == Spec => []TypeOK
<1>1. TypeInv => TypeOK
  BY DEF TypeInv, RowsOK, DiskOK, HistoryOK, ReqsOK, Req, TypeOK
<1>2. Spec => []TypeInv
  BY TypeInit, TypeStep, PTL DEF Spec
<1> QED  BY <1>1, <1>2, PTL

-----------------------------------------------------------------------------
(* No evidence vanishes without a word.                                    *)

LEMMA VanishSave ==
    ASSUME TypeInv, VanishesLogged, NEW i \in Ids, NEW rec \in Rows, NEW entry \in BOOLEAN,
           Save(i, rec, entry), UNCHANGED caseRow
    PROVE  VanishesLogged'
  BY AbsentIsNoRow DEF TypeInv, RowsOK, VanishesLogged, Save, Present

LEMMA VanishStep == TypeInv /\ VanishesLogged /\ [Next]_vars => VanishesLogged'
  <1> SUFFICES ASSUME TypeInv, VanishesLogged, [Next]_vars PROVE VanishesLogged'
    OBVIOUS
  <1>1. CASE UNCHANGED <<row, told, caseRow>>
    BY <1>1 DEF VanishesLogged, Present
  <1>2. ASSUME NEW r \in Requests, Commit(r) PROVE VanishesLogged'
    <2>1. req[r].id \in Ids /\ req[r].dto \in Rows /\ req[r].new \in BOOLEAN
          /\ req[r].attached \in BOOLEAN
      BY <1>2 DEF TypeInv, ReqsOK, StepOK, Saving, Req, Commit
    <2>2. PICK entry \in BOOLEAN : Save(req[r].id, req[r].dto, entry)
      BY <1>2, <2>1 DEF Commit
    <2> QED  BY <1>2, <2>1, <2>2, VanishSave DEF Commit
  <1>3. ASSUME NEW r \in Requests, Import(r) PROVE VanishesLogged'
    BY <1>3, VanishSave DEF Import
  <1>4. ASSUME NEW r \in Requests, DeleteRow(r) PROVE VanishesLogged'
    BY <1>4 DEF DeleteRow, VanishesLogged, Present, TypeInv, RowsOK
  <1>5. ASSUME NEW i \in Ids, PurgeLog(i) PROVE VanishesLogged'
    BY <1>5 DEF PurgeLog, VanishesLogged, Present, TypeInv, RowsOK
  <1>6. ASSUME NEW r \in Requests, DeleteCase(r) PROVE VanishesLogged'
    BY <1>6 DEF DeleteCase, VanishesLogged
  <1>7. ASSUME NEW r \in Requests, AddFromFS(r) PROVE VanishesLogged'
    <2>1. PICK i \in Ids, rec \in req[r].recs : Save(i, rec, FALSE)
      BY <1>7 DEF AddFromFS
    <2>2. rec \in Rows  BY DEF TypeInv, ReqsOK, Req
    <2>3. UNCHANGED caseRow  BY <1>7 DEF AddFromFS
    <2> QED  BY <2>1, <2>2, <2>3, VanishSave
  <1>13. ASSUME NEW r \in Requests, AddBoth(r) PROVE VanishesLogged'
    <2>1. PICK i \in Ids, j \in Ids, p \in req[r].recs, c \in req[r].recs : Both(i, j, p, c)
      BY <1>13 DEF AddBoth, Both
    <2>2. req[r].recs \subseteq Rows /\ UNCHANGED caseRow
      BY <1>13 DEF TypeInv, ReqsOK, Req, AddBoth
    <2>3. p \in Rows /\ c \in Rows /\ i # j /\ row' = [row EXCEPT ![i] = p, ![j] = c]
          /\ told' = [told EXCEPT ![i] = p, ![j] = c]
      BY <2>1, <2>2 DEF Both
    <2> QED  BY <2>2, <2>3, AbsentIsNoRow DEF TypeInv, RowsOK, VanishesLogged, Present
  <1>8. ASSUME NEW r \in Requests, AddLog(r) PROVE VanishesLogged'
    <2>1. req[r].pc = "addlog"  BY <1>8 DEF AddLog
    <2>2. StepOK(req[r])  BY DEF TypeInv, ReqsOK
    <2>3. req[r].id \in Ids  BY <2>1, <2>2, ZenonT(60) DEF StepOK
    <2> QED  BY <1>8, <2>3 DEF AddLog, VanishesLogged, Present, TypeInv, RowsOK
  <1>9. ASSUME NEW r \in Requests,
               \/ SaveNew(r) \/ SaveEdit(r) \/ CheckName(r) \/ OpenFile(r) \/ CopyFile(r)
               \/ CopyFails(r) \/ Adopt(r) \/ StatTarget(r) \/ RenameFile(r) \/ Fails(r)
        PROVE  UNCHANGED <<row, told, caseRow>>
    BY <1>9 DEF SaveNew, SaveEdit, CheckName, OpenFile, CopyFile, CopyFails, Adopt, StatTarget,
                RenameFile, Fails
  <1>10. ASSUME NEW r \in Requests,
                \/ DeleteRead(r) \/ RemoveFile(r) \/ RemoveDir(r) \/ ModuleRun(r)
                \/ OpenOutput(r) \/ ToolWrites(r) \/ ToolFails(r) \/ HashOutput(r)
         PROVE  UNCHANGED <<row, told, caseRow>>
    BY <1>10 DEF DeleteRead, RemoveFile, RemoveDir, ModuleRun, OpenOutput, ToolWrites, ToolFails,
                 HashOutput
  <1>11. Crash => UNCHANGED <<row, told, caseRow>>
    BY DEF Crash
  <1>12. UNCHANGED vars => UNCHANGED <<row, told, caseRow>>
    BY DEF vars
  <1> QED
    BY <1>1, <1>2, <1>3, <1>4, <1>5, <1>6, <1>7, <1>8, <1>9, <1>10, <1>11, <1>12, <1>13 DEF Next

\* Evidence leaves a case only together with a log entry that says so, however requests
\* overlap, fail or die (DeleteEvidence, SaveEvidence).
THEOREM NothingVanishesUnlogged == Spec => []VanishesLogged
<1>1. Init => VanishesLogged
  BY DEF Init, VanishesLogged
<1> QED  BY <1>1, TypeInit, TypeStep, VanishStep, PTL DEF Spec

-----------------------------------------------------------------------------
(* The invariants.                                                         *)

\* While requests do not overlap, only one is under way.
Lone == ~overlapped => \A r, s \in Requests : req[r].pc # "idle" /\ req[s].pc # "idle" => r = s

\* An edit has read the row that is there, and without an attachment its kind.
EditOK(q) ==
    q.pc \in Saving /\ ~q.new =>
        /\ q.old = row[q.id]
        /\ q.attached \/ q.dto.fileless = q.old.fileless

LogInv ==
    /\ Lone /\ LogDescribesRow
    /\ ~overlapped /\ caseRow => \A r \in Requests : EditOK(req[r])

\* Files are written by who is at it: an upload under the name it was given, a tool
\* where no row has a known hash.
Writes(r, n) ==
    \/ req[r].pc = "copy" /\ req[r].dto.name = n
    \/ req[r].pc = "output" /\ Named(n) \subseteq foreign

WriterOK ==
    \A n \in Names : disk[n] \in Requests => Writes(disk[n], n)

\* The rows' hashes are right.
HashesOK ==
    \A i \in Ids \ foreign :
        FileBacked(i) /\ disk[row[i].name] # NoFile => disk[row[i].name] = row[i].hash

\* What will be saved: the file under the name has the hash.
ToSaveOK(q) ==
    ~q.dto.fileless /\ (q.attached \/ q.id \notin foreign) /\ disk[q.dto.name] # NoFile
        => disk[q.dto.name] = q.dto.hash

\* What a request established on its way.
WayOK(r) ==
    LET q == req[r]
    IN  /\ q.pc \in Saving /\ q.new => row[q.id] = Absent
        /\ q.pc \in Saving \ {"check"} => Named(q.dto.name) \subseteq {q.id}
        /\ q.pc \in {"check", "stat", "rename"} =>
             ~q.attached /\ (~q.new /\ ~q.dto.fileless => q.dto.hash = q.old.hash)
        /\ q.pc \in {"stat", "rename"} => ~q.new /\ ~q.dto.fileless /\ q.dto.name # q.old.name
        /\ q.pc \in {"write", "copy"} => ~FileBacked(q.id)
        /\ q.pc = "copy" => disk[q.dto.name] = r
        /\ q.pc = "adopt" => q.dto.fileless
        /\ q.pc \in {"tool", "output"} => q.recs = {}
        /\ q.pc \in {"hash", "add"} => \A rec \in q.recs :
             disk[rec.name] # NoFile => disk[rec.name] = rec.hash
        /\ q.pc = "commit" => ToSaveOK(q)

RowsLive == \A i \in Ids : Present(i) => caseRow /\ i \in used

HashInv ==
    /\ RowsLive
    /\ ~overlapped /\ caseRow => HashesOK /\ WriterOK /\ \A r \in Requests : WayOK(r)

-----------------------------------------------------------------------------
(* The log.                                                                *)

\* While nothing overlaps, all others are idle.
LEMMA LoneActs ==
    ASSUME Lone, ~overlapped, NEW r \in Requests, req[r].pc # "idle"
    PROVE  \A s \in Requests : s # r => req[s].pc = "idle"
  BY DEF Lone

LEMMA LoneMoves ==
    ASSUME Lone, NEW r \in Requests, req[r].pc # "idle", NEW q, req' = [req EXCEPT ![r] = q],
           req \in [Requests -> Req], UNCHANGED overlapped
    PROVE  Lone'
  BY DEF Lone

LEMMA LoneBegins ==
    ASSUME Lone, NEW r \in Requests, NEW rec, Begin(r, rec), req \in [Requests -> Req]
    PROVE  /\ Lone'
           /\ ~overlapped' => ~overlapped /\ \A s \in Requests : req[s].pc = "idle"
  BY DEF Lone, Begin, InFlight

\* A request goes on without touching rows or log.
LEMMA LogMoves ==
    ASSUME TypeInv, LogInv, NEW r \in Requests, req[r].pc # "idle",
           NEW q, req' = [req EXCEPT ![r] = q],
           ~overlapped /\ caseRow => EditOK(q),
           req[r].pc = "addlog" => req[r].id \in unlogged',
           UNCHANGED <<row, told, caseRow, overlapped>>, unlogged \subseteq unlogged'
    PROVE  LogInv'
  <1>1. req \in [Requests -> Req]  BY DEF TypeInv, ReqsOK
  <1>2. Lone'  BY <1>1, LoneMoves DEF LogInv
  <1>4. LogDescribesRow'
    BY <1>1 DEF LogInv, LogDescribesRow
  <1>5. (~overlapped /\ caseRow => \A s \in Requests : EditOK(req[s]))'
    <2> SUFFICES ASSUME ~overlapped', caseRow', NEW s \in Requests PROVE EditOK(req[s])'
      OBVIOUS
    <2>1. EditOK(q) /\ EditOK(req[s])  BY DEF LogInv
    <2>2. CASE s = r
      <3>1. req'[s] = q  BY <1>1, <2>2
      <3> QED  BY <2>1, <3>1 DEF EditOK
    <2>3. CASE s # r
      <3>1. req'[s] = req[s]  BY <1>1, <2>3
      <3> QED  BY <2>1, <3>1 DEF EditOK
    <2> QED  BY <2>2, <2>3
  <1> QED  BY <1>2, <1>4, <1>5 DEF LogInv

LEMMA LogEnds ==
    ASSUME TypeInv, LogInv, NEW r \in Requests, req[r].pc \notin {"idle", "addlog"}, End(r),
           UNCHANGED <<row, told, caseRow, overlapped, unlogged>>
    PROVE  LogInv'
  <1>1. EditOK(Idle)  BY DEF EditOK, Idle, Saving
  <1>2. req' = [req EXCEPT ![r] = Idle]  BY DEF End
  <1> HIDE DEF Idle
  <1> QED  BY <1>1, <1>2, LogMoves

LEMMA LogGoes ==
    ASSUME TypeInv, LogInv, NEW r \in Requests, req[r].pc \notin {"idle", "addlog"},
           NEW pc \in Steps, Goto(r, pc), pc \in Saving => req[r].pc \in Saving,
           UNCHANGED <<row, told, caseRow, overlapped, unlogged>>
    PROVE  LogInv'
  <1> DEFINE q == [req[r] EXCEPT !.pc = pc]
  <1>1. req[r] \in Req /\ req' = [req EXCEPT ![r] = q]  BY DEF Goto, TypeInv, ReqsOK
  <1>2. q.pc = pc /\ q.new = req[r].new /\ q.old = req[r].old /\ q.id = req[r].id
        /\ q.attached = req[r].attached /\ q.dto = req[r].dto
    BY <1>1 DEF Req
  <1>3. ~overlapped /\ caseRow => EditOK(q)
    <2> HIDE DEF q
    <2> QED  BY <1>2 DEF LogInv, EditOK
  <1> HIDE DEF q
  <1> QED  BY <1>1, <1>3, LogMoves

\* A request begins.
LEMMA LogBegins ==
    ASSUME TypeInv, LogInv, NEW r \in Requests, NEW rec \in Req, Begin(r, rec), EditOK(rec),
           UNCHANGED <<row, told, caseRow, unlogged>>
    PROVE  LogInv'
  <1>1. req \in [Requests -> Req] /\ req' = [req EXCEPT ![r] = rec]
    BY DEF TypeInv, ReqsOK, Begin
  <1>2. Lone' /\ (~overlapped' => ~overlapped /\ \A s \in Requests : req[s].pc = "idle")
    BY <1>1, LoneBegins DEF LogInv
  <1>3. LogDescribesRow'
    BY <1>1, <1>2 DEF LogInv, LogDescribesRow
  <1>4. (~overlapped /\ caseRow => \A s \in Requests : EditOK(req[s]))'
    BY <1>1, <1>2 DEF LogInv, EditOK
  <1> QED  BY <1>2, <1>3, <1>4 DEF LogInv

\* With everybody else idle, what a request leaves behind when it ends.
LEMMA LogSettles ==
    ASSUME TypeInv, LogInv, NEW r \in Requests, req[r].pc # "idle", End(r), UNCHANGED overlapped,
           ASSUME ~overlapped, caseRow',
                  \A i \in Ids : told[i] = row[i] \/ i \in unlogged
                                 \/ (req[r].pc = "addlog" /\ i = req[r].id),
                  caseRow => EditOK(req[r])
           PROVE  \A i \in Ids : told'[i] = row'[i] \/ i \in unlogged',
           caseRow' => caseRow
    PROVE  LogInv'
  <1>1. req \in [Requests -> Req] /\ req' = [req EXCEPT ![r] = Idle]
    BY DEF TypeInv, ReqsOK, End
  <1>2. Lone'
    <2> HIDE DEF Idle
    <2> QED  BY <1>1, LoneMoves DEF LogInv
  <1>3. ASSUME ~overlapped PROVE \A s \in Requests : req'[s].pc = "idle"
    BY <1>1, <1>3, LoneActs DEF LogInv, Idle
  <1>4. LogDescribesRow'
    <2> SUFFICES ASSUME ~overlapped', caseRow' PROVE \A i \in Ids : told'[i] = row'[i] \/ i \in unlogged'
      BY DEF LogDescribesRow
    <2>1. ~overlapped /\ caseRow /\ EditOK(req[r])  BY DEF LogInv
    <2>2. \A i \in Ids : told[i] = row[i] \/ i \in unlogged
                         \/ (req[r].pc = "addlog" /\ i = req[r].id)
      BY <2>1, LoneActs DEF LogInv, LogDescribesRow
    <2> QED  BY <2>1, <2>2
  <1>5. (~overlapped /\ caseRow => \A s \in Requests : EditOK(req[s]))'
    BY <1>3 DEF EditOK, Saving
  <1> QED  BY <1>2, <1>4, <1>5 DEF LogInv

LEMMA CommitLog ==
    ASSUME TypeInv, LogInv, NEW r \in Requests, Commit(r)
    PROVE  LogInv'
  <1> DEFINE q == req[r]
  <1>1. q \in Req /\ StepOK(q) /\ q.pc = "commit"
    BY DEF TypeInv, ReqsOK, Commit
  <1>2. q.id \in Ids /\ q.dto \in Rows /\ (~q.new => q.old \in Rows)
    BY <1>1 DEF StepOK, Saving
  <1>3. PICK other \in BOOLEAN :
          Save(q.id, q.dto, \/ q.new \/ q.attached \/ other
                            \/ q.dto.name # q.old.name \/ q.dto.hash # q.old.hash)
    BY DEF Commit
  <1>4. ASSUME ~overlapped, caseRow',
               \A i \in Ids : told[i] = row[i] \/ i \in unlogged
                              \/ (q.pc = "addlog" /\ i = q.id),
               caseRow => EditOK(q)
        PROVE  \A i \in Ids : told'[i] = row'[i] \/ i \in unlogged'
    <2>1. /\ row' = [row EXCEPT ![q.id] = q.dto] /\ unlogged' = unlogged /\ caseRow
          /\ row \in [Ids -> Rows \cup {Absent}] /\ told \in [Ids -> Rows \cup {Absent}]
      BY <1>3, <1>4 DEF Save, Commit, TypeInv, RowsOK
    <2>2. CASE told' = [told EXCEPT ![q.id] = q.dto]
      BY <1>1, <1>2, <1>4, <2>1, <2>2
    <2>3. CASE told' # [told EXCEPT ![q.id] = q.dto]
      <3>1. ~(q.new \/ q.attached \/ other \/ q.dto.name # q.old.name \/ q.dto.hash # q.old.hash)
            /\ told' = told
        BY <1>3, <2>3 DEF Save
      <3>2. q.old = row[q.id] /\ q.dto.fileless = q.old.fileless
        BY <1>1, <1>4, <2>1, <3>1 DEF EditOK, Saving
      <3>3. q.dto = q.old
        BY <1>2, <3>1, <3>2 DEF Rows
      <3> QED  BY <1>1, <1>4, <2>1, <3>1, <3>2, <3>3
    <2> QED  BY <2>2, <2>3
  <1> QED  BY <1>1, <1>4, LogSettles DEF Commit

LEMMA FailsLog ==
    ASSUME TypeInv, LogInv, NEW r \in Requests, Fails(r)
    PROVE  LogInv'
  <1>1. EditOK(Idle)  BY DEF EditOK, Idle, Saving
  <1>2. req' = [req EXCEPT ![r] = Idle]  BY DEF Fails, End
  <1> HIDE DEF Idle
  <1> QED  BY <1>1, <1>2, LogMoves DEF Fails

LEMMA DeleteRowLog ==
    ASSUME TypeInv, LogInv, NEW r \in Requests, DeleteRow(r)
    PROVE  LogInv'
  <1>1. req[r].id \in Ids  BY DEF DeleteRow, TypeInv, ReqsOK, StepOK
  <1>2. ASSUME \A i \in Ids : told[i] = row[i] \/ i \in unlogged
                              \/ (req[r].pc = "addlog" /\ i = req[r].id)
        PROVE  \A i \in Ids : told'[i] = row'[i] \/ i \in unlogged'
    BY <1>1, <1>2 DEF DeleteRow, TypeInv, RowsOK, Present
  <1> QED  BY <1>2, LogSettles DEF DeleteRow

LEMMA AddLogLog ==
    ASSUME TypeInv, LogInv, NEW r \in Requests, AddLog(r)
    PROVE  LogInv'
  <1>1. req[r].id \in Ids  BY DEF AddLog, TypeInv, ReqsOK, StepOK
  <1>2. ASSUME \A i \in Ids : told[i] = row[i] \/ i \in unlogged
                              \/ (req[r].pc = "addlog" /\ i = req[r].id)
        PROVE  \A i \in Ids : told'[i] = row'[i] \/ i \in unlogged'
    BY <1>1, <1>2 DEF AddLog, TypeInv, RowsOK
  <1> QED  BY <1>2, LogSettles DEF AddLog

LEMMA HashOutputLog ==
    ASSUME TypeInv, LogInv, NEW r \in Requests, HashOutput(r)
    PROVE  LogInv'
  <1>1. PICK n \in req[r].outs :
          req' = [req EXCEPT ![r] =
                    [req[r] EXCEPT !.pc = IF req[r].outs = {n} THEN "add" ELSE "hash",
                                   !.outs = req[r].outs \ {n},
                                   !.recs = req[r].recs \cup
                                     {[name |-> n, fileless |-> FALSE, hash |-> HashOf(n)]}]]
    BY HashedOK
  <1> DEFINE q == [req[r] EXCEPT !.pc = IF req[r].outs = {n} THEN "add" ELSE "hash",
                                 !.outs = req[r].outs \ {n},
                                 !.recs = req[r].recs \cup
                                   {[name |-> n, fileless |-> FALSE, hash |-> HashOf(n)]}]
  <1>2. req[r].pc = "hash" /\ UNCHANGED <<row, told, caseRow, overlapped, unlogged>>
    BY DEF HashOutput
  <1>3. EditOK(q)
    <2>1. req[r] \in Req  BY DEF TypeInv, ReqsOK
    <2>2. q.pc \in {"add", "hash"}  BY <2>1 DEF Req
    <2> HIDE DEF q
    <2> QED  BY <2>2 DEF EditOK, Saving
  <1>4. req' = [req EXCEPT ![r] = q]  BY <1>1
  <1> HIDE DEF q
  <1> QED  BY <1>2, <1>3, <1>4, LogMoves

LEMMA AddFromFSLog ==
    ASSUME TypeInv, LogInv, NEW r \in Requests, AddFromFS(r)
    PROVE  LogInv'
  <1>1. req \in [Requests -> Req] /\ req[r] \in Req /\ req[r].pc = "add"
    BY DEF TypeInv, ReqsOK, AddFromFS
  <1>2. PICK i \in Ids, rec \in req[r].recs :
          /\ Save(i, rec, FALSE)
          /\ req' = [req EXCEPT ![r].pc = "addlog", ![r].id = i, ![r].recs = {}]
    BY DEF AddFromFS
  <1>3. UNCHANGED <<caseRow, overlapped, unlogged>>  BY DEF AddFromFS
  <1> DEFINE q == [req[r] EXCEPT !.pc = "addlog", !.id = i, !.recs = {}]
  <1>4. req' = [req EXCEPT ![r] = q] /\ q.pc = "addlog" /\ q.id = i
    BY <1>1, <1>2, AddedOK DEF Req
  <1> HIDE DEF q
  <1>5. Lone'  BY <1>1, <1>3, <1>4, LoneMoves DEF LogInv
  <1>6. LogDescribesRow'
    <2> SUFFICES ASSUME ~overlapped, caseRow, NEW j \in Ids \ unlogged
                 PROVE  told'[j] = row'[j]
                        \/ \E s \in Requests : req'[s].pc = "addlog" /\ req'[s].id = j
      BY <1>3 DEF LogDescribesRow
    <2>1. CASE j = i
      BY <1>1, <1>4, <2>1
    <2>2. CASE j # i
      <3>1. told[j] = row[j]  BY <1>1, LoneActs DEF LogInv, LogDescribesRow
      <3>2. row'[j] = row[j] /\ told' = told
        BY <1>2, <2>2 DEF Save, TypeInv, RowsOK
      <3> QED  BY <3>1, <3>2
    <2> QED  BY <2>1, <2>2
  <1>7. (~overlapped /\ caseRow => \A s \in Requests : EditOK(req[s]))'
    BY <1>1, <1>3, <1>4, LoneActs DEF LogInv, EditOK, Saving
  <1> QED  BY <1>5, <1>6, <1>7 DEF LogInv

LEMMA AddBothLog ==
    ASSUME TypeInv, LogInv, NEW r \in Requests, AddBoth(r)
    PROVE  LogInv'
  <1>1. req[r].pc = "add" /\ End(r) /\ UNCHANGED <<caseRow, overlapped, unlogged>>
    BY DEF AddBoth
  <1>2. PICK i \in Ids, j \in Ids, p \in req[r].recs, c \in req[r].recs : Both(i, j, p, c)
    BY DEF AddBoth, Both
  <1>3. ASSUME \A k \in Ids : told[k] = row[k] \/ k \in unlogged
                              \/ (req[r].pc = "addlog" /\ k = req[r].id)
        PROVE  \A k \in Ids : told'[k] = row'[k] \/ k \in unlogged'
    BY <1>1, <1>2, <1>3 DEF Both, TypeInv, RowsOK
  <1> QED  BY <1>1, <1>3, LogSettles

LEMMA ImportLog ==
    ASSUME TypeInv, LogInv, NEW r \in Requests, Import(r)
    PROVE  LogInv'
  <1>1. PICK i \in Ids, rec \in Rows, logged \in BOOLEAN :
          /\ Save(i, rec, logged)
          /\ unlogged' = IF logged THEN unlogged ELSE unlogged \cup {i}
    BY DEF Import
  <1>2. /\ UNCHANGED <<caseRow, req>>
        /\ ~overlapped' => ~overlapped /\ \A s \in Requests : req[s].pc = "idle"
    BY DEF Import, InFlight
  <1>3. Lone'  BY <1>2 DEF LogInv, Lone
  <1>4. LogDescribesRow'
    <2> SUFFICES ASSUME ~overlapped', caseRow, NEW j \in Ids, j \notin unlogged'
                 PROVE  told'[j] = row'[j]
      BY <1>2 DEF LogDescribesRow
    <2>1. j \notin unlogged => told[j] = row[j]  BY <1>2 DEF LogInv, LogDescribesRow
    <2> QED  BY <1>1, <2>1 DEF Save, TypeInv, RowsOK
  <1>5. (~overlapped /\ caseRow => \A s \in Requests : EditOK(req[s]))'
    BY <1>2 DEF EditOK, Saving
  <1> QED  BY <1>3, <1>4, <1>5 DEF LogInv

LEMMA DeleteCaseLog ==
    ASSUME TypeInv, LogInv, NEW r \in Requests, DeleteCase(r)
    PROVE  LogInv'
  <1>1. req \in [Requests -> Req]  BY DEF TypeInv, ReqsOK
  <1>2. Lone'  BY <1>1, LoneBegins DEF LogInv, DeleteCase
  <1> QED  BY <1>2 DEF DeleteCase, LogInv, LogDescribesRow

LEMMA PurgeLogLog ==
    ASSUME TypeInv, LogInv, NEW i \in Ids, PurgeLog(i)
    PROVE  LogInv'
  BY DEF PurgeLog, LogInv, Lone, LogDescribesRow, EditOK, TypeInv, RowsOK

LEMMA CrashLog ==
    ASSUME TypeInv, LogInv, Crash
    PROVE  LogInv'
  <1>1. \A s \in Requests : req'[s].pc = "idle"  BY DEF Crash, Idle
  <1>2. \A s \in Requests : req[s].pc = "addlog" => req[s].id \in unlogged'  BY DEF Crash
  <1>3. UNCHANGED <<row, told, caseRow, overlapped>> /\ unlogged \subseteq unlogged'
    BY DEF Crash
  <1> QED  BY <1>1, <1>2, <1>3 DEF LogInv, Lone, LogDescribesRow, EditOK, Saving

LEMMA SaveNewLog ==
    ASSUME TypeInv, LogInv, NEW r \in Requests, SaveNew(r)
    PROVE  LogInv'
  <1>1. PICK i \in Ids, n \in Entered, h \in Typed, u \in Contents \cup {NoFile} :
          Begin(r, [Idle EXCEPT !.pc = "check", !.id = i, !.new = TRUE, !.upload = u,
                      !.dto = [name |-> n, fileless |-> u = NoFile, hash |-> h]])
    BY DEF SaveNew
  <1> DEFINE q == [Idle EXCEPT !.pc = "check", !.id = i, !.new = TRUE, !.upload = u,
                     !.dto = [name |-> n, fileless |-> u = NoFile, hash |-> h]]
  <1>2. q \in Req /\ EditOK(q)
    BY EvidenceAssumption DEF Idle, Req, EditOK, Steps, Rows, Hashes
  <1>3. Begin(r, q)  BY <1>1
  <1> HIDE DEF q
  <1> QED  BY <1>2, <1>3, LogBegins DEF SaveNew

LEMMA SaveEditLog ==
    ASSUME TypeInv, LogInv, NEW r \in Requests, SaveEdit(r)
    PROVE  LogInv'
  <1>1. PICK i \in Ids, n \in Entered, h \in Typed, u \in Contents \cup {NoFile} :
          /\ Present(i)
          /\ Begin(r, [Idle EXCEPT !.pc = "check", !.id = i, !.upload = u, !.old = row[i],
                        !.dto = [name |-> n, fileless |-> row[i].fileless,
                                 hash |-> IF row[i].fileless THEN h ELSE row[i].hash]])
    BY DEF SaveEdit
  <1> DEFINE q == [Idle EXCEPT !.pc = "check", !.id = i, !.upload = u, !.old = row[i],
                     !.dto = [name |-> n, fileless |-> row[i].fileless,
                              hash |-> IF row[i].fileless THEN h ELSE row[i].hash]]
  <1>2. row[i] \in Rows  BY <1>1 DEF Present, TypeInv, RowsOK
  <1>3. q \in Req /\ EditOK(q)
    BY <1>2, EvidenceAssumption DEF Idle, Req, EditOK, Steps, Saving, Rows, Hashes
  <1>4. Begin(r, q)  BY <1>1
  <1> HIDE DEF q
  <1> QED  BY <1>3, <1>4, LogBegins DEF SaveEdit

LEMMA DeleteReadLog ==
    ASSUME TypeInv, LogInv, NEW r \in Requests, DeleteRead(r)
    PROVE  LogInv'
  <1>1. PICK i \in Ids :
          /\ Present(i)
          /\ Begin(r, [Idle EXCEPT !.id = i, !.old = row[i],
                         !.pc = IF row[i].fileless THEN "delete" ELSE "remove"])
    BY DEF DeleteRead
  <1> DEFINE q == [Idle EXCEPT !.id = i, !.old = row[i],
                     !.pc = IF row[i].fileless THEN "delete" ELSE "remove"]
  <1>2. row[i] \in Rows  BY <1>1 DEF Present, TypeInv, RowsOK
  <1>3. q \in Req /\ EditOK(q)
    BY <1>2 DEF Idle, Req, EditOK, Steps, Saving
  <1>4. Begin(r, q)  BY <1>1
  <1> HIDE DEF q
  <1> QED  BY <1>3, <1>4, LogBegins DEF DeleteRead

LEMMA ModuleRunLog ==
    ASSUME TypeInv, LogInv, NEW r \in Requests, ModuleRun(r)
    PROVE  LogInv'
  <1>1. PICK i \in Ids : Present(i) /\ \E outs \in Outputs(row[i].name) :
          Begin(r, [Idle EXCEPT !.pc = "tool", !.old = row[i], !.outs = outs])
    BY DEF ModuleRun
  <1>2. PICK outs \in Outputs(row[i].name) :
          Begin(r, [Idle EXCEPT !.pc = "tool", !.old = row[i], !.outs = outs])
    BY <1>1
  <1> DEFINE q == [Idle EXCEPT !.pc = "tool", !.old = row[i], !.outs = outs]
  <1>3. q \in Req /\ q.pc \notin Saving  BY <1>1, RunOK
  <1>4. Begin(r, q)  BY <1>2
  <1> HIDE DEF q
  <1>5. EditOK(q)  BY <1>3 DEF EditOK
  <1> QED  BY <1>3, <1>4, <1>5, LogBegins DEF ModuleRun

LEMMA CheckNameLog ==
    ASSUME TypeInv, LogInv, NEW r \in Requests, CheckName(r)
    PROVE  LogInv'
  <1> DEFINE q == req[r]
             backed == ~q.dto.fileless
             stored == backed /\ q.upload = NoFile
             refuse == \/ Named(q.dto.name) \ {q.id} # {}
                       \/ backed /\ ~q.new /\ q.upload # NoFile
             next == CASE q.upload # NoFile -> "write"
                       [] stored /\ q.dto.name # q.old.name -> "stat"
                       [] stored /\ q.dto.name = q.old.name -> "commit"
                       [] OTHER -> "adopt"
  <1>1. q.pc = "check" /\ UNCHANGED <<row, told, caseRow, overlapped, unlogged>>
    BY DEF CheckName
  <1>2. CASE refuse
    <2>1. End(r)  BY <1>2 DEF CheckName
    <2> QED  BY <1>1, <2>1, LogEnds
  <1>3. CASE ~refuse
    <2>1. Goto(r, next)  BY <1>3 DEF CheckName
    <2>2. next \in Steps  BY DEF Steps
    <2>3. q.pc \in Saving  BY <1>1 DEF Saving
    <2> HIDE DEF next
    <2> QED  BY <1>1, <2>1, <2>2, <2>3, LogGoes
  <1> QED  BY <1>2, <1>3

LEMMA CopyFileLog ==
    ASSUME TypeInv, LogInv, NEW r \in Requests, CopyFile(r)
    PROVE  LogInv'
  <1>1. ReqsOK(req) /\ req[r] \in Req /\ req[r].pc = "copy" /\ req[r].dto \in Rows
    BY DEF TypeInv, ReqsOK, CopyFile, StepOK, Saving
  <1> DEFINE d == [req[r].dto EXCEPT !.hash = req[r].upload, !.fileless = FALSE]
             q == [req[r] EXCEPT !.pc = "commit", !.dto = d, !.attached = ~req[r].new]
  <1>2. req' = [req EXCEPT ![r] = q]
    BY <1>1, ZenonT(60) DEF CopyFile, ReqsOK, Req
  <1>3. ~overlapped /\ caseRow => EditOK(q)
    <2>1. ~overlapped /\ caseRow => EditOK(req[r])  BY DEF LogInv
    <2> HIDE DEF d
    <2> QED  BY <1>1, <2>1 DEF EditOK, Req, Saving
  <1> HIDE DEF q
  <1> QED  BY <1>1, <1>2, <1>3, LogMoves DEF CopyFile

LEMMA AdoptLog ==
    ASSUME TypeInv, LogInv, NEW r \in Requests, Adopt(r)
    PROVE  LogInv'
  <1>1. ReqsOK(req) /\ req[r] \in Req /\ req[r].pc = "adopt" /\ req[r].dto \in Rows
    BY DEF TypeInv, ReqsOK, Adopt, StepOK, Saving
  <1> DEFINE n == req[r].dto.name
             d == [req[r].dto EXCEPT !.hash = HashOf(n), !.fileless = FALSE]
             q == IF disk[n] = NoFile THEN [req[r] EXCEPT !.pc = "commit"]
                  ELSE [req[r] EXCEPT !.pc = "commit", !.dto = d, !.attached = TRUE]
  <1>2. req' = [req EXCEPT ![r] = q]
    BY <1>1 DEF Adopt, ReqsOK, Req
  <1>3. ~overlapped /\ caseRow => EditOK(q)
    <2>1. ~overlapped /\ caseRow => EditOK(req[r])  BY DEF LogInv
    <2> HIDE DEF d
    <2> QED  BY <1>1, <2>1 DEF EditOK, Req, Saving
  <1> HIDE DEF q
  <1> QED  BY <1>1, <1>2, <1>3, LogMoves DEF Adopt

\* The other steps only move a request on or end it.
LEMMA OtherLog ==
    ASSUME TypeInv, LogInv, NEW r \in Requests,
           \/ OpenFile(r) \/ CopyFails(r) \/ StatTarget(r) \/ RenameFile(r) \/ RemoveFile(r)
           \/ RemoveDir(r) \/ OpenOutput(r) \/ ToolWrites(r) \/ ToolFails(r)
    PROVE  LogInv'
  <1>1. CASE OpenFile(r)
    BY <1>1, LogGoes, LogEnds DEF OpenFile, Steps, Saving
  <1>2. CASE CopyFails(r)
    BY <1>2, LogEnds DEF CopyFails
  <1>3. CASE StatTarget(r)
    BY <1>3, LogGoes, LogEnds DEF StatTarget, Steps, Saving
  <1>4. CASE RenameFile(r)
    BY <1>4, LogGoes, LogEnds DEF RenameFile, Steps, Saving
  <1>5. CASE RemoveFile(r)
    BY <1>5, LogGoes DEF RemoveFile, Steps, Saving
  <1>6. CASE RemoveDir(r)
    BY <1>6, LogEnds DEF RemoveDir
  <1>7. CASE OpenOutput(r)
    BY <1>7, LogGoes DEF OpenOutput, Steps, Saving
  <1>8. CASE ToolWrites(r)
    BY <1>8, LogGoes DEF ToolWrites, Steps, Saving
  <1>9. CASE ToolFails(r)
    BY <1>9, LogEnds DEF ToolFails
  <1> QED  BY <1>1, <1>2, <1>3, <1>4, <1>5, <1>6, <1>7, <1>8, <1>9

LEMMA LogStep == TypeInv /\ LogInv /\ [Next]_vars => LogInv'
  <1> SUFFICES ASSUME TypeInv, LogInv, [Next]_vars PROVE LogInv'
    OBVIOUS
  <1>1. CASE UNCHANGED vars
    BY <1>1 DEF vars, LogInv, Lone, LogDescribesRow, EditOK
  <1>2. CASE Next
    BY <1>2, SaveNewLog, SaveEditLog, CheckNameLog, CopyFileLog, AdoptLog, CommitLog, FailsLog,
       ImportLog, DeleteReadLog, DeleteRowLog, DeleteCaseLog, ModuleRunLog, HashOutputLog,
       AddFromFSLog, AddBothLog, AddLogLog, OtherLog, PurgeLogLog, CrashLog
       DEF Next
  <1> QED  BY <1>1, <1>2

LEMMA LogInit == Init => LogInv
  BY DEF Init, Idle, LogInv, Lone, LogDescribesRow, EditOK, Saving

\* As long as requests do not overlap, the last log entry about an evidence describes it
\* as it is: Commit logs whatever differs from the row that is there, because the row
\* EvidenceSave read is still that row (EvidenceSave, EvidenceDelete, AddFromFS).
THEOREM LogIsRight == Spec => []LogDescribesRow
<1>1. LogInv => LogDescribesRow
  BY DEF LogInv
<1> QED  BY <1>1, TypeInit, TypeStep, LogInit, LogStep, PTL DEF Spec

-----------------------------------------------------------------------------
(* The hashes.                                                             *)

\* While nothing overlaps, a step starts from the invariants of the one request
\* that acts, and only that request can be writing.
LEMMA HashActs ==
    ASSUME TypeInv, LogInv, HashInv, ~overlapped, caseRow, NEW r \in Requests, req[r].pc # "idle"
    PROVE  /\ HashesOK /\ WriterOK /\ WayOK(r) /\ EditOK(req[r])
           /\ \A n \in Names : disk[n] \in Requests => disk[n] = r /\ Writes(r, n)
           /\ req[r].pc \notin {"copy", "output"} => \A n \in Names : disk[n] \notin Requests
  <1>1. HashesOK /\ WriterOK /\ WayOK(r) /\ EditOK(req[r])  BY DEF HashInv, LogInv
  <1>2. \A s \in Requests : s # r => req[s].pc = "idle"  BY LoneActs DEF LogInv
  <1> QED  BY <1>1, <1>2 DEF WriterOK, Writes

LEMMA IdleWay ==
    ASSUME NEW r \in Requests, req[r].pc \notin Saving \cup Running
    PROVE  WayOK(r)
  BY DEF WayOK, Saving, Running

\* One request moves.
LEMMA HashMoves ==
    ASSUME TypeInv, LogInv, HashInv, NEW r \in Requests, req[r].pc # "idle",
           \A s \in Requests : s # r => req'[s] = req[s],
           UNCHANGED overlapped, caseRow' => caseRow, RowsLive',
           ASSUME ~overlapped, caseRow PROVE HashesOK' /\ WriterOK' /\ WayOK(r)'
    PROVE  HashInv'
  <1> SUFFICES ASSUME ~overlapped, caseRow, NEW s \in Requests
               PROVE  HashesOK' /\ WriterOK' /\ WayOK(s)'
    BY DEF HashInv
  <1>1. HashesOK' /\ WriterOK' /\ WayOK(r)'  OBVIOUS
  <1>2. CASE s = r  BY <1>1, <1>2
  <1>3. CASE s # r
    <2>1. req'[s].pc = "idle"  BY <1>3, LoneActs DEF LogInv
    <2>2. WayOK(s)'  BY <2>1 DEF WayOK, Saving
    <2> QED  BY <1>1, <2>2
  <1> QED  BY <1>2, <1>3

\* One request begins.
LEMMA HashBegins ==
    ASSUME TypeInv, LogInv, HashInv, NEW r \in Requests, NEW rec \in Req, Begin(r, rec),
           UNCHANGED <<row, disk, foreign, caseRow, used>>,
           rec.pc \in Saving \cup Running => WayOK(r)'
    PROVE  HashInv'
  <1>1. req \in [Requests -> Req] /\ req' = [req EXCEPT ![r] = rec]
    BY DEF TypeInv, ReqsOK, Begin
  <1>2. ~overlapped' => ~overlapped /\ \A s \in Requests : req[s].pc = "idle"
    BY <1>1, LoneBegins DEF LogInv
  <1>3. RowsLive'  BY DEF HashInv, RowsLive, Present
  <1> SUFFICES ASSUME ~overlapped', caseRow', NEW s \in Requests
               PROVE  HashesOK' /\ WriterOK' /\ WayOK(s)'
    BY <1>3 DEF HashInv
  <1>4. HashesOK /\ WriterOK  BY <1>2 DEF HashInv
  <1>5. HashesOK'  BY <1>4 DEF HashesOK, FileBacked, Present
  <1>6. WriterOK'  BY <1>2, <1>4 DEF WriterOK, Writes
  <1>7. WayOK(s)'
    <2>1. CASE s = r
      <3>1. CASE rec.pc \in Saving \cup Running  BY <2>1, <3>1
      <3>2. CASE rec.pc \notin Saving \cup Running
        <4>1. req'[s].pc \notin Saving \cup Running  BY <1>1, <2>1, <3>2
        <4> QED  BY <4>1 DEF WayOK, Saving, Running
      <3> QED  BY <3>1, <3>2
    <2>2. CASE s # r
      <3>1. req'[s].pc = "idle"  BY <1>1, <1>2, <2>2
      <3> QED  BY <3>1 DEF WayOK, Saving
    <2> QED  BY <2>1, <2>2
  <1> QED  BY <1>5, <1>6, <1>7

LEMMA GotoKeeps ==
    ASSUME TypeInv, NEW r \in Requests, NEW pc \in Steps, Goto(r, pc)
    PROVE  /\ req'[r].pc = pc /\ req'[r].id = req[r].id /\ req'[r].new = req[r].new
           /\ req'[r].old = req[r].old /\ req'[r].dto = req[r].dto
           /\ req'[r].upload = req[r].upload /\ req'[r].attached = req[r].attached
           /\ \A s \in Requests : s # r => req'[s] = req[s]
  <1>1. req \in [Requests -> Req]  BY DEF TypeInv, ReqsOK
  <1> QED  BY <1>1 DEF Goto, Req

LEMMA EndKeeps ==
    ASSUME TypeInv, NEW r \in Requests, End(r)
    PROVE  /\ req'[r].pc = "idle" /\ WayOK(r)'
           /\ \A s \in Requests : s # r => req'[s] = req[s]
  <1>1. req'[r].pc = "idle" /\ \A s \in Requests : s # r => req'[s] = req[s]
    BY DEF TypeInv, ReqsOK, End, Idle
  <1> QED  BY <1>1 DEF WayOK, Saving

LEMMA SaveNewHash ==
    ASSUME TypeInv, LogInv, HashInv, NEW r \in Requests, SaveNew(r)
    PROVE  HashInv'
  <1>1. PICK i \in Ids, n \in Entered, h \in Typed, u \in Contents \cup {NoFile} :
          /\ Fresh(i)
          /\ Begin(r, [Idle EXCEPT !.pc = "check", !.id = i, !.new = TRUE, !.upload = u,
                         !.dto = [name |-> n, fileless |-> u = NoFile, hash |-> h]])
    BY DEF SaveNew
  <1> DEFINE q == [Idle EXCEPT !.pc = "check", !.id = i, !.new = TRUE, !.upload = u,
                     !.dto = [name |-> n, fileless |-> u = NoFile, hash |-> h]]
  <1>2. q \in Req /\ q.pc = "check" /\ q.new /\ q.id = i /\ ~q.attached
    BY EvidenceAssumption DEF Idle, Req, Steps, Rows, Hashes
  <1>3. Begin(r, q)  BY <1>1
  <1> HIDE DEF q
  <1>4. req'[r] = q  BY <1>3 DEF Begin, TypeInv, ReqsOK
  <1>5. row'[i] = Absent  BY <1>1 DEF Fresh, HashInv, RowsLive, Present, SaveNew
  <1>6. WayOK(r)'  BY <1>2, <1>4, <1>5 DEF WayOK, Saving
  <1> QED  BY <1>2, <1>3, <1>6, HashBegins DEF SaveNew

LEMMA SaveEditHash ==
    ASSUME TypeInv, LogInv, HashInv, NEW r \in Requests, SaveEdit(r)
    PROVE  HashInv'
  <1>1. PICK i \in Ids, n \in Entered, h \in Typed, u \in Contents \cup {NoFile} :
          /\ Present(i)
          /\ Begin(r, [Idle EXCEPT !.pc = "check", !.id = i, !.upload = u, !.old = row[i],
                        !.dto = [name |-> n, fileless |-> row[i].fileless,
                                 hash |-> IF row[i].fileless THEN h ELSE row[i].hash]])
    BY DEF SaveEdit
  <1> DEFINE q == [Idle EXCEPT !.pc = "check", !.id = i, !.upload = u, !.old = row[i],
                     !.dto = [name |-> n, fileless |-> row[i].fileless,
                              hash |-> IF row[i].fileless THEN h ELSE row[i].hash]]
  <1>2. row[i] \in Rows  BY <1>1 DEF Present, TypeInv, RowsOK
  <1>3. q \in Req
    BY <1>2, EvidenceAssumption DEF Idle, Req, Steps, Rows, Hashes
  <1>4. /\ q.pc = "check" /\ ~q.new /\ ~q.attached
        /\ ~q.dto.fileless => q.dto.hash = q.old.hash
    BY DEF Idle
  <1>5. Begin(r, q)  BY <1>1
  <1> HIDE DEF q
  <1>6. req'[r] = q  BY <1>5 DEF Begin, TypeInv, ReqsOK
  <1>7. WayOK(r)'  BY <1>4, <1>6 DEF WayOK, Saving
  <1> QED  BY <1>3, <1>5, <1>7, HashBegins DEF SaveEdit

LEMMA DeleteReadHash ==
    ASSUME TypeInv, LogInv, HashInv, NEW r \in Requests, DeleteRead(r)
    PROVE  HashInv'
  <1>1. PICK i \in Ids :
          /\ Present(i)
          /\ Begin(r, [Idle EXCEPT !.id = i, !.old = row[i],
                         !.pc = IF row[i].fileless THEN "delete" ELSE "remove"])
    BY DEF DeleteRead
  <1> DEFINE q == [Idle EXCEPT !.id = i, !.old = row[i],
                     !.pc = IF row[i].fileless THEN "delete" ELSE "remove"]
  <1>2. row[i] \in Rows  BY <1>1 DEF Present, TypeInv, RowsOK
  <1>3. q \in Req /\ q.pc \notin Saving \cup Running
    BY <1>2 DEF Idle, Req, Steps, Saving, Running
  <1>4. Begin(r, q)  BY <1>1
  <1> HIDE DEF q
  <1> QED  BY <1>3, <1>4, HashBegins DEF DeleteRead

LEMMA ModuleRunHash ==
    ASSUME TypeInv, LogInv, HashInv, NEW r \in Requests, ModuleRun(r)
    PROVE  HashInv'
  <1>1. PICK i \in Ids : Present(i) /\ \E outs \in Outputs(row[i].name) :
          Begin(r, [Idle EXCEPT !.pc = "tool", !.old = row[i], !.outs = outs])
    BY DEF ModuleRun
  <1>2. PICK outs \in Outputs(row[i].name) :
          Begin(r, [Idle EXCEPT !.pc = "tool", !.old = row[i], !.outs = outs])
    BY <1>1
  <1> DEFINE q == [Idle EXCEPT !.pc = "tool", !.old = row[i], !.outs = outs]
  <1>3. q \in Req  BY <1>1, RunOK
  <1>4. q.pc = "tool" /\ q.recs = {}  BY DEF Idle
  <1>5. Begin(r, q)  BY <1>2
  <1> HIDE DEF q
  <1>6. WayOK(r)'
    <2>1. req'[r] = q  BY <1>3, <1>5 DEF Begin, TypeInv, ReqsOK
    <2> QED  BY <1>4, <2>1 DEF WayOK, Saving
  <1> QED  BY <1>3, <1>5, <1>6, HashBegins DEF ModuleRun

LEMMA CheckNameHash ==
    ASSUME TypeInv, LogInv, HashInv, NEW r \in Requests, CheckName(r)
    PROVE  HashInv'
  <1> DEFINE q == req[r]
             backed == ~q.dto.fileless
             stored == backed /\ q.upload = NoFile
             refuse == \/ Named(q.dto.name) \ {q.id} # {}
                       \/ backed /\ ~q.new /\ q.upload # NoFile
             next == CASE q.upload # NoFile -> "write"
                       [] stored /\ q.dto.name # q.old.name -> "stat"
                       [] stored /\ q.dto.name = q.old.name -> "commit"
                       [] OTHER -> "adopt"
  <1>1. q \in Req /\ StepOK(q) /\ q.pc = "check"
        /\ UNCHANGED <<row, disk, caseRow, used, foreign, overlapped>>
    BY DEF TypeInv, ReqsOK, CheckName
  <1>2. RowsLive'  BY <1>1 DEF HashInv, RowsLive, Present
  <1>3. \A s \in Requests : s # r => req'[s] = req[s]
    BY DEF CheckName, End, Goto, TypeInv, ReqsOK
  <1>4. ASSUME ~overlapped, caseRow PROVE HashesOK' /\ WriterOK' /\ WayOK(r)'
    <2>1. HashesOK /\ WayOK(r) /\ EditOK(q) /\ \A n \in Names : disk[n] \notin Requests
      BY <1>1, <1>4, HashActs
    <2>2. HashesOK' /\ WriterOK'
      BY <1>1, <2>1 DEF HashesOK, WriterOK, FileBacked, Present
    <2>3. CASE refuse
      <3>1. End(r)  BY <2>3 DEF CheckName
      <3> QED  BY <2>2, <3>1, EndKeeps
    <2>4. CASE ~refuse
      <3>1. Goto(r, next) /\ next \in {"write", "stat", "commit", "adopt"}
        BY <2>4 DEF CheckName
      <3>2. Named(q.dto.name) \subseteq {q.id} /\ (q.upload # NoFile => ~backed \/ q.new)
        BY <2>4
      <3>3. /\ next = "write" => q.upload # NoFile
            /\ next = "stat" => stored /\ q.dto.name # q.old.name
            /\ next = "commit" => stored /\ q.dto.name = q.old.name
            /\ next = "adopt" => q.upload = NoFile /\ ~stored
        OBVIOUS
      <3>4. stored => ~q.new
        <4>1. q.new => (~backed <=> q.upload = NoFile)  BY <1>1 DEF StepOK
        <4> HIDE DEF backed
        <4> QED  BY <4>1
      <3>5. ~q.attached /\ (~q.new /\ backed => q.dto.hash = q.old.hash)
            /\ (q.new => row[q.id] = Absent)
        BY <1>1, <2>1 DEF WayOK, Saving
      <3>6. ~q.new => q.old = row[q.id] /\ q.dto.fileless = q.old.fileless /\ q.old \in Rows
        BY <1>1, <2>1, <3>5 DEF EditOK, StepOK, Saving
      <3>7. ~backed \/ q.new => ~FileBacked(q.id)
        BY <3>5, <3>6 DEF FileBacked, Present
      <3>8. stored /\ q.dto.name = q.old.name => ToSaveOK(q)
        <4>1. q.id \in Ids  BY <1>1 DEF StepOK, Saving
        <4> QED  BY <2>1, <3>4, <3>5, <3>6, <4>1, AbsentIsNoRow
              DEF ToSaveOK, HashesOK, FileBacked, Present
      <3> HIDE DEF next
      <3>9. next \in Steps  BY <3>1 DEF Steps
      <3>10. /\ req'[r].pc = next /\ req'[r].id = q.id /\ req'[r].new = q.new
             /\ req'[r].old = q.old /\ req'[r].dto = q.dto
             /\ req'[r].upload = q.upload /\ req'[r].attached = q.attached
        BY <3>1, <3>9, GotoKeeps
      <3>11. WayOK(r)'
        BY <1>1, <3>1, <3>2, <3>3, <3>4, <3>5, <3>7, <3>8, <3>10
           DEF WayOK, ToSaveOK, Saving, Named, Present, FileBacked
      <3> QED  BY <2>2, <3>11
    <2> QED  BY <2>3, <2>4
  <1> QED  BY <1>1, <1>2, <1>3, <1>4, HashMoves

LEMMA OpenFileHash ==
    ASSUME TypeInv, LogInv, HashInv, NEW r \in Requests, OpenFile(r)
    PROVE  HashInv'
  <1> DEFINE n == req[r].dto.name
  <1>1. req[r].pc = "write" /\ n \in Names /\ req[r].dto \in Rows
        /\ UNCHANGED <<row, caseRow, used, foreign, overlapped>>
    BY DEF TypeInv, ReqsOK, OpenFile, StepOK, Saving, Rows
  <1>2. RowsLive'  BY <1>1 DEF HashInv, RowsLive, Present
  <1>3. \A s \in Requests : s # r => req'[s] = req[s]
    BY DEF OpenFile, End, Goto, TypeInv, ReqsOK
  <1>4. ASSUME ~overlapped, caseRow PROVE HashesOK' /\ WriterOK' /\ WayOK(r)'
    <2>1. HashesOK /\ WayOK(r) /\ \A m \in Names : disk[m] \notin Requests
      BY <1>1, <1>4, HashActs
    <2>2. CASE disk[n] # NoFile
      <3>1. End(r) /\ UNCHANGED disk  BY <2>2 DEF OpenFile
      <3> QED  BY <1>1, <2>1, <3>1, EndKeeps DEF HashesOK, WriterOK, FileBacked, Present
    <2>3. CASE disk[n] = NoFile
      <3>1. Goto(r, "copy") /\ disk' = [disk EXCEPT ![n] = r]  BY <2>3 DEF OpenFile
      <3>2. /\ req'[r].pc = "copy" /\ req'[r].id = req[r].id /\ req'[r].new = req[r].new
            /\ req'[r].dto = req[r].dto
        BY <3>1, GotoKeeps DEF Steps
      <3>3. Named(n) \subseteq {req[r].id} /\ ~FileBacked(req[r].id)
            /\ (req[r].new => row[req[r].id] = Absent)
        BY <1>1, <2>1 DEF WayOK, Saving
      <3>4. disk'[n] = r /\ \A m \in Names : m # n => disk'[m] = disk[m]
        BY <1>1, <3>1 DEF TypeInv, DiskOK
      <3>5. HashesOK'
        BY <1>1, <2>1, <3>3, <3>4 DEF HashesOK, FileBacked, Present, Named, TypeInv, RowsOK, Rows
      <3>6. WriterOK'
        BY <2>1, <3>2, <3>4 DEF WriterOK, Writes
      <3>7. WayOK(r)'
        BY <1>1, <3>2, <3>3, <3>4 DEF WayOK, Saving, Named, Present, FileBacked
      <3> QED  BY <3>5, <3>6, <3>7
    <2> QED  BY <2>2, <2>3
  <1> QED  BY <1>1, <1>2, <1>3, <1>4, HashMoves

\* The files a request has been writing are done.
LEMMA WrittenKeeps ==
    ASSUME TypeInv, LogInv, HashInv, ~overlapped, caseRow, NEW r \in Requests,
           req[r].pc = "copy", NEW c \in Contents \cup {Partial},
           disk' = Written(r, c), UNCHANGED <<row, foreign>>
    PROVE  HashesOK' /\ WriterOK'
           /\ (disk[req[r].dto.name] = r => disk'[req[r].dto.name] = c)
  <1>1. HashesOK /\ WayOK(r) /\ \A n \in Names : disk[n] \in Requests =>
          disk[n] = r /\ req[r].dto.name = n
    BY HashActs DEF Writes
  <1>2. \A n \in Names : disk'[n] = IF disk[n] = r THEN c ELSE disk[n]
    BY DEF Written
  <1>3. req[r].dto.name \in Names
    BY DEF TypeInv, ReqsOK, StepOK, Saving, Running, Rows
  <1>4. c \notin Requests  BY EvidenceAssumption
  <1>5. WriterOK'  BY <1>1, <1>2, <1>4 DEF WriterOK
  <1>6. \A i \in Ids \ foreign : FileBacked(i) => row[i].name # req[r].dto.name
    BY <1>1 DEF WayOK, Saving, Named, FileBacked
  <1>7. HashesOK'
    <2> SUFFICES ASSUME NEW i \in Ids \ foreign, FileBacked(i), disk'[row[i].name] # NoFile
                 PROVE  disk'[row[i].name] = row[i].hash
      BY DEF HashesOK, FileBacked, Present
    <2>1. row[i].name \in Names  BY DEF FileBacked, Present, TypeInv, RowsOK, Rows
    <2>2. disk[row[i].name] # r  BY <1>1, <1>6, <2>1
    <2> QED  BY <1>1, <1>2, <2>1, <2>2 DEF HashesOK
  <1> QED  BY <1>2, <1>3, <1>5, <1>7

LEMMA CopyFileHash ==
    ASSUME TypeInv, LogInv, HashInv, NEW r \in Requests, CopyFile(r)
    PROVE  HashInv'
  <1>1. req[r].pc = "copy" /\ req[r].upload \in Contents /\ req[r].dto \in Rows
        /\ req \in [Requests -> Req]
        /\ UNCHANGED <<row, caseRow, used, foreign, overlapped>>
    BY DEF TypeInv, ReqsOK, CopyFile, StepOK, Saving, Req
  <1> DEFINE d == [req[r].dto EXCEPT !.hash = req[r].upload, !.fileless = FALSE]
             q == [req[r] EXCEPT !.pc = "commit", !.dto = d, !.attached = ~req[r].new]
  <1>2. req' = [req EXCEPT ![r] = q]
    BY <1>1, ZenonT(60) DEF CopyFile, Req
  <1>3. req'[r].pc = "commit" /\ req'[r].new = req[r].new /\ req'[r].id = req[r].id
        /\ req'[r].dto.name = req[r].dto.name /\ req'[r].dto.hash = req[r].upload
    <2>1. req'[r] = q  BY <1>1, <1>2
    <2>2. d.name = req[r].dto.name /\ d.hash = req[r].upload  BY <1>1 DEF Rows
    <2>3. q.pc = "commit" /\ q.new = req[r].new /\ q.id = req[r].id /\ q.dto = d
      <3> HIDE DEF d
      <3> QED  BY <1>1 DEF Req
    <2> HIDE DEF q, d
    <2> QED  BY <2>1, <2>2, <2>3
  <1>4. RowsLive'  BY <1>1 DEF HashInv, RowsLive, Present
  <1>5. \A s \in Requests : s # r => req'[s] = req[s]
    <2> HIDE DEF q
    <2> QED  BY <1>1, <1>2
  <1>6. ASSUME ~overlapped, caseRow PROVE HashesOK' /\ WriterOK' /\ WayOK(r)'
    <2>1. WayOK(r)  BY <1>1, <1>6, HashActs
    <2>2. disk[req[r].dto.name] = r /\ Named(req[r].dto.name) \subseteq {req[r].id}
          /\ (req[r].new => row[req[r].id] = Absent)
      BY <1>1, <2>1 DEF WayOK, Saving
    <2>3. HashesOK' /\ WriterOK' /\ disk'[req[r].dto.name] = req[r].upload
      BY <1>1, <1>6, <2>2, WrittenKeeps DEF CopyFile
    <2>4. WayOK(r)'
      BY <1>1, <1>3, <2>2, <2>3 DEF WayOK, ToSaveOK, Saving, Named, Present
    <2> QED  BY <2>3, <2>4
  <1> HIDE DEF q
  <1> QED  BY <1>1, <1>4, <1>5, <1>6, HashMoves

LEMMA CopyFailsHash ==
    ASSUME TypeInv, LogInv, HashInv, NEW r \in Requests, CopyFails(r)
    PROVE  HashInv'
  <1>1. req[r].pc = "copy" /\ UNCHANGED <<row, caseRow, used, foreign, overlapped>>
    BY DEF CopyFails
  <1>2. RowsLive'  BY <1>1 DEF HashInv, RowsLive, Present
  <1>3. End(r)  BY DEF CopyFails
  <1>4. ASSUME ~overlapped, caseRow PROVE HashesOK' /\ WriterOK' /\ WayOK(r)'
    BY <1>1, <1>3, <1>4, EndKeeps, WrittenKeeps DEF CopyFails
  <1> QED  BY <1>1, <1>2, <1>3, <1>4, EndKeeps, HashMoves

LEMMA ToolWritesHash ==
    ASSUME TypeInv, LogInv, HashInv, NEW r \in Requests, ToolWrites(r)
    PROVE  HashInv'
  <1>1. req[r].pc = "output" /\ Goto(r, "hash")
        /\ UNCHANGED <<row, caseRow, used, foreign, overlapped>>
    BY DEF ToolWrites
  <1>2. RowsLive'  BY <1>1 DEF HashInv, RowsLive, Present
  <1>3. req'[r] = [req[r] EXCEPT !.pc = "hash"] /\ req[r] \in Req
        /\ \A s \in Requests : s # r => req'[s] = req[s]
    BY <1>1 DEF Goto, TypeInv, ReqsOK
  <1>4. req'[r].pc = "hash" /\ req'[r].recs = req[r].recs  BY <1>3 DEF Req
  <1>5. ASSUME ~overlapped, caseRow PROVE HashesOK' /\ WriterOK' /\ WayOK(r)'
    <2>1. PICK c \in [Names -> Contents] :
            disk' = [n \in Names |-> IF disk[n] = r THEN c[n] ELSE disk[n]]
      BY DEF ToolWrites
    <2>2. HashesOK /\ WayOK(r)
          /\ \A n \in Names : disk[n] \in Requests => disk[n] = r /\ Writes(r, n)
      BY <1>1, <1>5, HashActs
    <2>3. \A n \in Names : disk'[n] \notin Requests
      BY <2>1, <2>2, EvidenceAssumption
    <2>4. \A n \in Names : disk[n] = r => Named(n) \subseteq foreign
      BY <1>1, <2>2 DEF Writes
    <2>5. HashesOK'
      BY <1>1, <2>1, <2>2, <2>4
         DEF HashesOK, FileBacked, Present, Named, TypeInv, RowsOK, Rows
    <2>6. WriterOK'  BY <2>3 DEF WriterOK
    <2>7. WayOK(r)'  BY <1>1, <1>4, <2>2 DEF WayOK, Saving
    <2> QED  BY <2>5, <2>6, <2>7
  <1> QED  BY <1>1, <1>2, <1>3, <1>5, HashMoves

\* The tool fails: a file it has written is gone or left half done.
LEMMA ToolFailsHash ==
    ASSUME TypeInv, LogInv, HashInv, NEW r \in Requests, ToolFails(r)
    PROVE  HashInv'
  <1>1. req[r].pc \in {"tool", "output"} /\ End(r)
        /\ UNCHANGED <<row, caseRow, used, foreign, overlapped>>
    BY DEF ToolFails
  <1>2. RowsLive'  BY <1>1 DEF HashInv, RowsLive, Present
  <1>3. ASSUME ~overlapped, caseRow PROVE HashesOK' /\ WriterOK' /\ WayOK(r)'
    <2>1. PICK gone \in SUBSET req[r].outs :
            disk' = [n \in Names |-> IF n \in gone THEN NoFile
                                     ELSE IF disk[n] = r THEN Partial ELSE disk[n]]
      BY DEF ToolFails
    <2>2. HashesOK
          /\ \A n \in Names : disk[n] \in Requests => disk[n] = r /\ Writes(r, n)
      BY <1>1, <1>3, HashActs
    <2>3. \A n \in Names : disk'[n] \notin Requests
      BY <2>1, <2>2, EvidenceAssumption
    <2>4. \A n \in Names : disk[n] = r => Named(n) \subseteq foreign
      BY <1>1, <2>2 DEF Writes
    <2>5. HashesOK'
      BY <1>1, <2>1, <2>2, <2>4
         DEF HashesOK, FileBacked, Present, Named, TypeInv, RowsOK, Rows
    <2>6. WriterOK'  BY <2>3 DEF WriterOK
    <2> QED  BY <1>1, <2>5, <2>6, EndKeeps
  <1> QED  BY <1>1, <1>2, <1>3, EndKeeps, HashMoves

LEMMA HashOutputHash ==
    ASSUME TypeInv, LogInv, HashInv, NEW r \in Requests, HashOutput(r)
    PROVE  HashInv'
  <1>1. PICK n \in req[r].outs :
          /\ n \in Names
          /\ req' = [req EXCEPT ![r] =
                    [req[r] EXCEPT !.pc = IF req[r].outs = {n} THEN "add" ELSE "hash",
                                   !.outs = req[r].outs \ {n},
                                   !.recs = req[r].recs \cup
                                     {[name |-> n, fileless |-> FALSE, hash |-> HashOf(n)]}]]
    BY HashedOK
  <1>2. req[r].pc = "hash" /\ UNCHANGED <<row, disk, caseRow, used, foreign, overlapped>>
    BY DEF HashOutput
  <1>3. req'[r].pc \in {"hash", "add"}
        /\ req'[r].recs = req[r].recs \cup
                            {[name |-> n, fileless |-> FALSE, hash |-> HashOf(n)]}
        /\ \A s \in Requests : s # r => req'[s] = req[s]
    BY <1>1 DEF TypeInv, ReqsOK, Req
  <1>4. RowsLive'  BY <1>2 DEF HashInv, RowsLive, Present
  <1>5. ASSUME ~overlapped, caseRow PROVE HashesOK' /\ WriterOK' /\ WayOK(r)'
    <2>1. HashesOK /\ WayOK(r) /\ \A m \in Names : disk[m] \notin Requests
      BY <1>2, <1>5, HashActs
    <2>2. HashesOK' /\ WriterOK'
      BY <1>2, <2>1 DEF HashesOK, WriterOK, FileBacked, Present
    <2>3. HashOf(n) = disk[n]  BY <1>1, <2>1 DEF HashOf
    <2>4. \A rec \in req[r].recs : disk[rec.name] # NoFile => disk[rec.name] = rec.hash
      BY <1>2, <2>1 DEF WayOK
    <2>5. WayOK(r)'  BY <1>2, <1>3, <2>3, <2>4 DEF WayOK, Saving
    <2> QED  BY <2>2, <2>5
  <1> QED  BY <1>2, <1>3, <1>4, <1>5, HashMoves

LEMMA AdoptHash ==
    ASSUME TypeInv, LogInv, HashInv, NEW r \in Requests, Adopt(r)
    PROVE  HashInv'
  <1> DEFINE n == req[r].dto.name
             d == [req[r].dto EXCEPT !.hash = HashOf(n), !.fileless = FALSE]
             q == IF disk[n] = NoFile THEN [req[r] EXCEPT !.pc = "commit"]
                  ELSE [req[r] EXCEPT !.pc = "commit", !.dto = d, !.attached = TRUE]
  <1>1. req[r].pc = "adopt" /\ req[r] \in Req /\ req[r].dto \in Rows /\ n \in Names
        /\ req \in [Requests -> Req]
        /\ UNCHANGED <<row, disk, caseRow, used, foreign, overlapped>>
    BY DEF TypeInv, ReqsOK, Adopt, StepOK, Saving, Rows
  <1>2. req' = [req EXCEPT ![r] = q]
    BY <1>1 DEF Adopt, Req
  <1>3. /\ req'[r].pc = "commit" /\ req'[r].new = req[r].new /\ req'[r].id = req[r].id
        /\ req'[r].dto.name = n
        /\ IF disk[n] = NoFile THEN req'[r].dto.fileless = req[r].dto.fileless
                               ELSE req'[r].dto.hash = HashOf(n)
    <2>1. req'[r] = q  BY <1>1, <1>2
    <2>2. d.name = n /\ d.hash = HashOf(n)  BY <1>1 DEF Rows
    <2>3. q.pc = "commit" /\ q.new = req[r].new /\ q.id = req[r].id
          /\ q.dto = IF disk[n] = NoFile THEN req[r].dto ELSE d
      <3> HIDE DEF d
      <3> QED  BY <1>1 DEF Req
    <2> HIDE DEF q, d
    <2> QED  BY <2>1, <2>2, <2>3
  <1>4. RowsLive'  BY <1>1 DEF HashInv, RowsLive, Present
  <1>5. \A s \in Requests : s # r => req'[s] = req[s]
    <2> HIDE DEF q
    <2> QED  BY <1>1, <1>2
  <1>6. ASSUME ~overlapped, caseRow PROVE HashesOK' /\ WriterOK' /\ WayOK(r)'
    <2>1. HashesOK /\ WayOK(r) /\ \A m \in Names : disk[m] \notin Requests
      BY <1>1, <1>6, HashActs
    <2>2. HashesOK' /\ WriterOK'
      BY <1>1, <2>1 DEF HashesOK, WriterOK, FileBacked, Present
    <2>3. HashOf(n) = disk[n]  BY <1>1, <2>1 DEF HashOf
    <2>4. req[r].dto.fileless /\ Named(n) \subseteq {req[r].id}
          /\ (req[r].new => row[req[r].id] = Absent)
      BY <1>1, <2>1 DEF WayOK, Saving
    <2>5. WayOK(r)'
      BY <1>1, <1>3, <2>3, <2>4 DEF WayOK, ToSaveOK, Saving, Named, Present
    <2> QED  BY <2>2, <2>5
  <1> HIDE DEF q
  <1> QED  BY <1>1, <1>4, <1>5, <1>6, HashMoves

LEMMA StatTargetHash ==
    ASSUME TypeInv, LogInv, HashInv, NEW r \in Requests, StatTarget(r)
    PROVE  HashInv'
  <1>1. req[r].pc = "stat" /\ UNCHANGED <<row, disk, caseRow, used, foreign, overlapped>>
    BY DEF StatTarget
  <1>2. RowsLive'  BY <1>1 DEF HashInv, RowsLive, Present
  <1>3. \A s \in Requests : s # r => req'[s] = req[s]
    BY DEF StatTarget, End, Goto, TypeInv, ReqsOK
  <1>4. ASSUME ~overlapped, caseRow PROVE HashesOK' /\ WriterOK' /\ WayOK(r)'
    <2>1. HashesOK /\ WayOK(r) /\ \A m \in Names : disk[m] \notin Requests
      BY <1>1, <1>4, HashActs
    <2>2. HashesOK' /\ WriterOK'
      BY <1>1, <2>1 DEF HashesOK, WriterOK, FileBacked, Present
    <2>3. CASE End(r)
      BY <2>2, <2>3, EndKeeps
    <2>4. CASE Goto(r, "rename")
      <3>1. /\ req'[r].pc = "rename" /\ req'[r].id = req[r].id /\ req'[r].new = req[r].new
            /\ req'[r].old = req[r].old /\ req'[r].dto = req[r].dto
            /\ req'[r].attached = req[r].attached
        BY <2>4, GotoKeeps DEF Steps
      <3>2. WayOK(r)'  BY <1>1, <2>1, <3>1 DEF WayOK, Saving, Named, Present
      <3> QED  BY <2>2, <3>2
    <2> QED  BY <2>3, <2>4 DEF StatTarget
  <1> QED  BY <1>1, <1>2, <1>3, <1>4, HashMoves

LEMMA RenameFileHash ==
    ASSUME TypeInv, LogInv, HashInv, NEW r \in Requests, RenameFile(r)
    PROVE  HashInv'
  <1> DEFINE src == req[r].old.name
             dst == req[r].dto.name
             i == req[r].id
  <1>1. req[r].pc = "rename" /\ src \in Names /\ dst \in Names /\ i \in Ids
        /\ req[r].old \in Rows
        /\ UNCHANGED <<row, caseRow, used, foreign, overlapped>>
    BY DEF TypeInv, ReqsOK, RenameFile, StepOK, Saving, Rows
  <1>2. RowsLive'  BY <1>1 DEF HashInv, RowsLive, Present
  <1>3. \A s \in Requests : s # r => req'[s] = req[s]
    BY DEF RenameFile, End, Goto, TypeInv, ReqsOK
  <1>4. ASSUME ~overlapped, caseRow PROVE HashesOK' /\ WriterOK' /\ WayOK(r)'
    <2>1. HashesOK /\ WayOK(r) /\ EditOK(req[r]) /\ \A m \in Names : disk[m] \notin Requests
      BY <1>1, <1>4, HashActs
    <2>2. CASE disk[src] = NoFile
      <3>1. End(r) /\ UNCHANGED disk  BY <2>2 DEF RenameFile
      <3> QED  BY <1>1, <2>1, <3>1, EndKeeps DEF HashesOK, WriterOK, FileBacked, Present
    <2>3. CASE disk[src] # NoFile
      <3>1. Goto(r, "commit") /\ disk' = [disk EXCEPT ![dst] = disk[src], ![src] = NoFile]
        BY <2>3 DEF RenameFile
      <3>2. /\ req'[r].pc = "commit" /\ req'[r].id = i /\ req'[r].new = req[r].new
            /\ req'[r].dto = req[r].dto /\ req'[r].attached = req[r].attached
        BY <3>1, GotoKeeps DEF Steps
      <3>3. /\ ~req[r].new /\ ~req[r].dto.fileless /\ dst # src /\ ~req[r].attached
            /\ req[r].dto.hash = req[r].old.hash /\ Named(dst) \subseteq {i}
        BY <1>1, <2>1 DEF WayOK, Saving
      <3>4. req[r].old = row[i] /\ ~row[i].fileless /\ Present(i)
        BY <1>1, <2>1, <3>3, AbsentIsNoRow DEF EditOK, Saving, Present
      <3>5. /\ disk'[dst] = disk[src] /\ disk'[src] = NoFile
            /\ \A m \in Names : m # dst /\ m # src => disk'[m] = disk[m]
        BY <1>1, <3>1, <3>3 DEF TypeInv, DiskOK
      <3>6. WriterOK'  BY <1>1, <2>1, <3>5, EvidenceAssumption DEF WriterOK
      <3>7. HashesOK'
        <4> SUFFICES ASSUME NEW j \in Ids \ foreign, FileBacked(j), disk'[row[j].name] # NoFile
                     PROVE  disk'[row[j].name] = row[j].hash
          BY <1>1 DEF HashesOK, FileBacked, Present
        <4>1. row[j].name \in Names  BY DEF FileBacked, Present, TypeInv, RowsOK, Rows
        <4>2. row[j].name # dst  BY <3>3, <3>4 DEF Named, FileBacked
        <4> QED  BY <2>1, <3>5, <4>1, <4>2 DEF HashesOK
      <3>8. i \notin foreign => disk[src] = row[i].hash
        BY <1>1, <2>1, <2>3, <3>4 DEF HashesOK, FileBacked
      <3>9. WayOK(r)'
        BY <1>1, <3>2, <3>3, <3>4, <3>5, <3>8 DEF WayOK, ToSaveOK, Saving, Named, Present
      <3> QED  BY <3>6, <3>7, <3>9
    <2> QED  BY <2>2, <2>3
  <1> QED  BY <1>1, <1>2, <1>3, <1>4, HashMoves

LEMMA CommitHash ==
    ASSUME TypeInv, LogInv, HashInv, NEW r \in Requests, Commit(r)
    PROVE  HashInv'
  <1> DEFINE q == req[r]
  <1>1. q.pc = "commit" /\ q.id \in Ids /\ q.dto \in Rows /\ End(r) /\ caseRow
        /\ row' = [row EXCEPT ![q.id] = q.dto] /\ used' = used \cup {q.id}
        /\ foreign' = (IF q.attached THEN foreign \ {q.id} ELSE foreign)
        /\ UNCHANGED <<caseRow, disk, overlapped>>
    BY DEF TypeInv, ReqsOK, Commit, StepOK, Saving, Save, Savable
  <1>2. row'[q.id] = q.dto /\ \A j \in Ids : j # q.id => row'[j] = row[j]
    BY <1>1 DEF TypeInv, RowsOK
  <1>3. RowsLive'  BY <1>1, <1>2 DEF HashInv, RowsLive, Present
  <1>4. ASSUME ~overlapped, caseRow PROVE HashesOK' /\ WriterOK' /\ WayOK(r)'
    <2>1. HashesOK /\ WayOK(r) /\ \A m \in Names : disk[m] \notin Requests
      BY <1>1, <1>4, HashActs
    <2>2. WriterOK'  BY <1>1, <2>1 DEF WriterOK
    <2>3. ToSaveOK(q)  BY <1>1, <2>1 DEF WayOK
    <2>4. HashesOK'
      BY <1>1, <1>2, <2>1, <2>3 DEF HashesOK, ToSaveOK, FileBacked, Present
    <2> QED  BY <1>1, <2>2, <2>4, EndKeeps
  <1> QED  BY <1>1, <1>3, <1>4, EndKeeps, HashMoves

\* New rows have the hashes their files have.
LEMMA AddedHash ==
    ASSUME TypeInv, LogInv, HashInv, NEW r \in Requests, req[r].pc = "add",
           req'[r].pc \in {"idle", "addlog"}, \A s \in Requests : s # r => req'[s] = req[s],
           UNCHANGED <<disk, overlapped, foreign, caseRow>>, caseRow,
           \A i \in Ids : \/ row'[i] = row[i] /\ (i \in used => i \in used')
                          \/ row'[i] \in req[r].recs /\ i \in used'
    PROVE  HashInv'
  <1>1. RowsLive'  BY DEF HashInv, RowsLive, Present
  <1>2. ASSUME ~overlapped PROVE HashesOK' /\ WriterOK' /\ WayOK(r)'
    <2>1. HashesOK /\ WayOK(r) /\ \A m \in Names : disk[m] \notin Requests
      BY <1>2, HashActs
    <2>2. WriterOK'  BY <2>1 DEF WriterOK
    <2>3. \A rec \in req[r].recs : disk[rec.name] # NoFile => disk[rec.name] = rec.hash
      BY <2>1 DEF WayOK
    <2>4. HashesOK'  BY <2>1, <2>3 DEF HashesOK, FileBacked, Present
    <2>5. WayOK(r)'  BY DEF WayOK, Saving
    <2> QED  BY <2>2, <2>4, <2>5
  <1> QED  BY <1>1, <1>2, HashMoves

LEMMA AddFromFSHash ==
    ASSUME TypeInv, LogInv, HashInv, NEW r \in Requests, AddFromFS(r)
    PROVE  HashInv'
  <1>1. req[r].pc = "add" /\ UNCHANGED <<disk, overlapped, foreign, caseRow>>
    BY DEF AddFromFS
  <1>2. PICK i \in Ids, rec \in req[r].recs :
          /\ Savable(i, rec) /\ Save(i, rec, FALSE)
          /\ req' = [req EXCEPT ![r].pc = "addlog", ![r].id = i, ![r].recs = {}]
    BY DEF AddFromFS
  <1>3. req'[r].pc = "addlog" /\ \A s \in Requests : s # r => req'[s] = req[s]
    BY <1>2 DEF TypeInv, ReqsOK, Req
  <1>4. caseRow /\ used' = used \cup {i} /\ row' = [row EXCEPT ![i] = rec]
    BY <1>2 DEF Savable, Save
  <1>5. \A j \in Ids : \/ row'[j] = row[j] /\ (j \in used => j \in used')
                       \/ row'[j] \in req[r].recs /\ j \in used'
    BY <1>2, <1>4 DEF TypeInv, RowsOK
  <1> QED  BY <1>1, <1>3, <1>4, <1>5, AddedHash

LEMMA AddBothHash ==
    ASSUME TypeInv, LogInv, HashInv, NEW r \in Requests, AddBoth(r)
    PROVE  HashInv'
  <1>1. req[r].pc = "add" /\ End(r) /\ UNCHANGED <<disk, overlapped, foreign, caseRow>>
    BY DEF AddBoth
  <1>2. PICK i \in Ids, j \in Ids, p \in req[r].recs, c \in req[r].recs : Both(i, j, p, c)
    BY DEF AddBoth, Both
  <1>3. caseRow /\ used' = used \cup {i, j}  BY <1>2 DEF Both, Savable
  <1>4. \A k \in Ids : \/ row'[k] = row[k] /\ (k \in used => k \in used')
                       \/ row'[k] \in req[r].recs /\ k \in used'
    BY <1>2 DEF Both, TypeInv, RowsOK
  <1>5. req'[r].pc = "idle" /\ \A s \in Requests : s # r => req'[s] = req[s]
    BY <1>1, EndKeeps
  <1> QED  BY <1>1, <1>3, <1>4, <1>5, AddedHash

LEMMA OpenOutputHash ==
    ASSUME TypeInv, LogInv, HashInv, NEW r \in Requests, OpenOutput(r)
    PROVE  HashInv'
  <1>1. PICK opened \in SUBSET req[r].outs :
          /\ disk' = [n \in Names |-> IF n \in opened THEN r ELSE disk[n]]
          /\ foreign' = foreign \cup UNION {Named(n) : n \in opened}
    BY DEF OpenOutput
  <1>2. req[r].pc = "tool" /\ Goto(r, "output") /\ UNCHANGED <<row, caseRow, used, overlapped>>
    BY DEF OpenOutput
  <1>3. RowsLive'  BY <1>2 DEF HashInv, RowsLive, Present
  <1>4. req'[r] = [req[r] EXCEPT !.pc = "output"] /\ req[r] \in Req
        /\ \A s \in Requests : s # r => req'[s] = req[s]
    BY <1>2 DEF Goto, TypeInv, ReqsOK
  <1>5. req'[r].pc = "output" /\ req'[r].recs = req[r].recs  BY <1>4 DEF Req
  <1>6. ASSUME ~overlapped, caseRow PROVE HashesOK' /\ WriterOK' /\ WayOK(r)'
    <2>1. HashesOK /\ WayOK(r) /\ \A m \in Names : disk[m] \notin Requests
      BY <1>2, <1>6, HashActs
    <2>2. \A n \in opened : Named(n) \subseteq foreign'  BY <1>1
    <2>3. \A n \in Names : Named(n)' = Named(n)  BY <1>2 DEF Named, Present
    <2>4. WriterOK'  BY <1>1, <1>5, <2>1, <2>2, <2>3 DEF WriterOK, Writes
    <2>5. HashesOK'
      BY <1>1, <1>2, <2>1, <2>2
         DEF HashesOK, FileBacked, Present, Named, TypeInv, RowsOK, Rows
    <2>6. WayOK(r)'  BY <1>2, <1>5, <2>1 DEF WayOK, Saving
    <2> QED  BY <2>4, <2>5, <2>6
  <1> QED  BY <1>2, <1>3, <1>4, <1>6, HashMoves

\* A request ends, or goes on to delete the row; files may have gone.
LEMMA GoneHash ==
    ASSUME TypeInv, LogInv, HashInv, NEW r \in Requests,
           \/ Fails(r) \/ RemoveFile(r) \/ DeleteRow(r) \/ RemoveDir(r) \/ AddLog(r)
    PROVE  HashInv'
  <1>1. req[r].pc \notin {"idle", "copy", "output"}
        /\ UNCHANGED <<caseRow, used, overlapped, foreign>>
    BY DEF Fails, RemoveFile, DeleteRow, RemoveDir, AddLog
  <1>2. \A i \in Ids : row'[i] \in {row[i], Absent}
    BY DEF Fails, RemoveFile, DeleteRow, RemoveDir, AddLog, TypeInv, RowsOK
  <1>3. \A n \in Names : disk'[n] \in {disk[n], NoFile}
    BY DEF Fails, RemoveFile, DeleteRow, RemoveDir, AddLog, TypeInv, DiskOK
  <1>4. RowsLive'  BY <1>1, <1>2 DEF HashInv, RowsLive, Present
  <1>5. End(r) \/ Goto(r, "delete")
    BY DEF Fails, RemoveFile, DeleteRow, RemoveDir, AddLog
  <1>6. WayOK(r)' /\ \A s \in Requests : s # r => req'[s] = req[s]
    <2>1. CASE End(r)  BY <2>1, EndKeeps
    <2>2. CASE Goto(r, "delete")
      <3>1. req'[r].pc = "delete" /\ \A s \in Requests : s # r => req'[s] = req[s]
        BY <2>2, GotoKeeps DEF Steps
      <3> QED  BY <3>1 DEF WayOK, Saving
    <2> QED  BY <1>5, <2>1, <2>2
  <1>7. ASSUME ~overlapped, caseRow PROVE HashesOK' /\ WriterOK' /\ WayOK(r)'
    <2>1. HashesOK /\ \A m \in Names : disk[m] \notin Requests
      BY <1>1, <1>7, HashActs
    <2>2. HashesOK'
      BY <1>1, <1>2, <1>3, <2>1
         DEF HashesOK, FileBacked, Present, TypeInv, RowsOK, Rows
    <2>3. \A m \in Names : disk'[m] \notin Requests
      BY <1>3, <2>1, EvidenceAssumption
    <2> QED  BY <1>6, <2>2, <2>3 DEF WriterOK
  <1> QED  BY <1>1, <1>4, <1>6, <1>7, HashMoves

LEMMA ImportHash ==
    ASSUME TypeInv, LogInv, HashInv, NEW r \in Requests, Import(r)
    PROVE  HashInv'
  <1>1. PICK i \in Ids, rec \in Rows, logged \in BOOLEAN :
          Savable(i, rec) /\ Save(i, rec, logged) /\ foreign' = foreign \cup {i}
    BY DEF Import
  <1>2. /\ UNCHANGED <<caseRow, disk, req>>
        /\ ~overlapped' => ~overlapped /\ \A s \in Requests : req[s].pc = "idle"
    BY DEF Import, InFlight
  <1>3. (\A j \in Ids : j # i => row'[j] = row[j]) /\ used' = used \cup {i} /\ caseRow
    BY <1>1 DEF Save, Savable, TypeInv, RowsOK
  <1>4. RowsLive'  BY <1>2, <1>3 DEF HashInv, RowsLive, Present
  <1> SUFFICES ASSUME ~overlapped', caseRow, NEW s \in Requests
               PROVE  HashesOK' /\ WriterOK' /\ WayOK(s)'
    BY <1>2, <1>4 DEF HashInv
  <1>5. HashesOK /\ WriterOK  BY <1>2 DEF HashInv
  <1>6. HashesOK'  BY <1>1, <1>2, <1>3, <1>5 DEF HashesOK, FileBacked, Present
  <1>7. WriterOK'
    <2>1. \A n \in Names : disk[n] \notin Requests  BY <1>2, <1>5 DEF WriterOK, Writes
    <2> QED  BY <1>2, <2>1 DEF WriterOK
  <1>8. WayOK(s)'  BY <1>2 DEF WayOK, Saving
  <1> QED  BY <1>6, <1>7, <1>8

LEMMA DeleteCaseHash ==
    ASSUME TypeInv, LogInv, HashInv, NEW r \in Requests, DeleteCase(r)
    PROVE  HashInv'
  BY DEF DeleteCase, HashInv, RowsLive, Present

LEMMA PurgeLogHash ==
    ASSUME TypeInv, LogInv, HashInv, NEW i \in Ids, PurgeLog(i)
    PROVE  HashInv'
  BY DEF PurgeLog, HashInv, RowsLive, HashesOK, WriterOK, Writes, WayOK, ToSaveOK, Named,
         Present, FileBacked

\* What was being written is left half done: no row of a known hash has that name.
LEMMA CrashHash ==
    ASSUME TypeInv, LogInv, HashInv, Crash
    PROVE  HashInv'
  <1>1. UNCHANGED <<row, caseRow, used, overlapped, foreign>>
        /\ \A s \in Requests : req'[s].pc = "idle"
    BY DEF Crash, Idle
  <1>2. \A n \in Names : disk'[n] = IF disk[n] \in Requests THEN Partial ELSE disk[n]
    BY DEF Crash
  <1>3. RowsLive'  BY <1>1 DEF HashInv, RowsLive, Present
  <1> SUFFICES ASSUME ~overlapped, caseRow
               PROVE  HashesOK' /\ WriterOK' /\ \A s \in Requests : WayOK(s)'
    BY <1>1, <1>3 DEF HashInv
  <1>4. HashesOK /\ WriterOK /\ \A r \in Requests : WayOK(r)  BY DEF HashInv
  <1>5. HashesOK'
    <2> SUFFICES ASSUME NEW i \in Ids \ foreign, FileBacked(i), disk'[row[i].name] # NoFile
                 PROVE  disk'[row[i].name] = row[i].hash
      BY <1>1 DEF HashesOK, FileBacked, Present
    <2> DEFINE n == row[i].name
    <2>1. n \in Names  BY DEF FileBacked, Present, TypeInv, RowsOK, Rows
    <2>2. CASE disk[n] \in Requests
      <3> DEFINE w == disk[n]
      <3>1. w \in Requests /\ Writes(w, n)
        BY <1>4, <2>1, <2>2 DEF WriterOK
      <3>2. WayOK(w)  BY <1>4, <3>1
      <3>3. i \in Named(n)  BY DEF Named, FileBacked
      <3> HIDE DEF w, n
      <3> QED  BY <3>1, <3>2, <3>3 DEF WayOK, Saving, Writes
    <2>3. CASE disk[n] \notin Requests
      BY <1>2, <1>4, <2>1, <2>3 DEF HashesOK
    <2> QED  BY <2>2, <2>3
  <1>6. WriterOK'  BY <1>2, EvidenceAssumption DEF WriterOK
  <1>7. \A s \in Requests : WayOK(s)'  BY <1>1 DEF WayOK, Saving
  <1> QED  BY <1>5, <1>6, <1>7

LEMMA HashStep == TypeInv /\ LogInv /\ HashInv /\ [Next]_vars => HashInv'
  <1> SUFFICES ASSUME TypeInv, LogInv, HashInv, [Next]_vars PROVE HashInv'
    OBVIOUS
  <1>1. CASE UNCHANGED vars
    BY <1>1 DEF vars, HashInv, RowsLive, HashesOK, WriterOK, Writes, WayOK, ToSaveOK, Named,
                Present, FileBacked
  <1>2. CASE Next
    BY <1>2, SaveNewHash, SaveEditHash, CheckNameHash, OpenFileHash, CopyFileHash, CopyFailsHash,
       AdoptHash, StatTargetHash, RenameFileHash, CommitHash, ImportHash, DeleteReadHash,
       DeleteCaseHash, ModuleRunHash, OpenOutputHash, ToolWritesHash, ToolFailsHash,
       HashOutputHash, AddFromFSHash, AddBothHash, GoneHash, PurgeLogHash, CrashHash
       DEF Next
  <1> QED  BY <1>1, <1>2

LEMMA HashInit == Init => HashInv
  BY EvidenceAssumption
     DEF Init, Idle, HashInv, RowsLive, HashesOK, WriterOK, WayOK, Saving, Present, FileBacked

\* As long as requests do not overlap, the hash of a file-backed row is that of the file
\* under its name: each step of an upload, an adoption, a rename or a module run leaves
\* the files of known rows alone, and a row is saved with the hash of the file it names
\* (resolveEvidenceFile, EvidenceSave, AddFromFS).
THEOREM HashesAreRight == Spec => []HashMatchesFile
<1>1. HashInv => HashMatchesFile
  BY DEF HashInv, RowsLive, HashesOK, HashMatchesFile, FileBacked
<1> QED  BY <1>1, TypeInit, TypeStep, LogInit, LogStep, HashInit, HashStep, PTL DEF Spec
=============================================================================
