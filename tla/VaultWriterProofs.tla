--------------------------- MODULE VaultWriterProofs ---------------------------
(* Proofs about VaultWriter, for every vault, every set of calls and every *)
(* number of processes, deaths and file-system errors.                     *)
EXTENDS VaultWriterAtomic, SequenceTheorems, TLAPS

(***************************************************************************)
(* What a program counter says of the call's local variables: the job is   *)
(* of its kind, the counter pos points inside the patch, and the newest undo *)
(* record is the one of the path being written.                            *)
(***************************************************************************)
NewestRecord(p) == recs[p][Len(recs[p])]

JobOK ==
  \A p \in Procs :
    /\ pc[p] \in {"acquire"} \cup InApply => job[p] \in Patches
    /\ pc[p] \in {"renaming"} \cup InRename => job[p] \in Renames
    /\ pc[p] \in {"record", "write"} =>
         /\ pos[p] <= PathCount(job[p])
         /\ recs[p] # <<>>
         /\ pos[p] > Len(job[p].new) => NewestRecord(p).prev \in Text
    /\ pc[p] \in {"acquire", "moved"} \cup InApply => uid[p] # 0
    /\ pc[p] = "save" => pos[p] <= Len(job[p].index)
    /\ pc[p] = "rewrite" => recs[p] # <<>> /\ Head(recs[p]).prev \in Text

IInv == TypeOK /\ JobOK /\ LockedAlone

LEMMA PatchTyped ==
  ASSUME NEW q \in Patches
  PROVE  /\ q.new \in Seq([path : Notes, text : Text])
         /\ q.edits \in Seq([path : Notes, old : Text, new : Text])
         /\ q.index \in Seq(Domains)
         /\ q.allowed \in Seq(Domains)
         /\ q.allowed # <<>>
         /\ q.log \in BOOLEAN
         /\ PathCount(q) \in Nat
         /\ \A i \in 1 .. PathCount(q) : Path(q, i) \in Notes
<1>1. q \in PatchCall /\ q.allowed # <<>>
  BY CallsAssumption
<1>2. /\ q.new \in Seq([path : Notes, text : Text])
      /\ q.edits \in Seq([path : Notes, old : Text, new : Text])
      /\ q.index \in Seq(Domains)
      /\ q.allowed \in Seq(Domains)
      /\ q.log \in BOOLEAN
  BY <1>1 DEF PatchCall
<1>3. /\ Len(q.new) \in Nat
      /\ \A i \in 1 .. Len(q.new) : q.new[i] \in [path : Notes, text : Text]
  BY <1>2, LenProperties, ElementOfSeq
<1>4. /\ Len(q.edits) \in Nat
      /\ \A i \in 1 .. Len(q.edits) : q.edits[i] \in [path : Notes, old : Text, new : Text]
  BY <1>2, LenProperties, ElementOfSeq
<1>5. ASSUME NEW i \in 1 .. PathCount(q) PROVE Path(q, i) \in Notes
  <2>1. CASE i <= Len(q.new)
    <3>1. i \in 1 .. Len(q.new)
      BY <1>3, <1>4, <2>1 DEF PathCount
    <3>2. QED BY <1>3, <2>1, <3>1 DEF Path
  <2>2. CASE ~(i <= Len(q.new))
    <3>1. i - Len(q.new) \in 1 .. Len(q.edits)
      BY <1>1, <1>3, <1>4, <2>2 DEF PathCount, PatchCall
    <3>2. QED BY <1>4, <2>2, <3>1 DEF Path
  <2>3. QED BY <2>1, <2>2
<1>6. PathCount(q) \in Nat
  BY <1>1, <1>3, <1>4 DEF PathCount, PatchCall
<1>7. QED BY <1>1, <1>2, <1>5, <1>6

LEMMA RenameTyped ==
  ASSUME NEW r \in Renames
  PROVE  r.src \in Notes /\ r.dst \in Notes
BY CallsAssumption DEF RenameCall

LEMMA InitIInv == Init => IInv
<1> SUFFICES ASSUME Init PROVE IInv
  OBVIOUS
<1>1. TypeOK
  BY NotesAssumption DEF Init, TypeOK, FilesTyped, CallsTyped, HistoryTyped, PCs, UndoFile
<1>2. JobOK
  BY DEF Init, JobOK, InApply, ApplyForward, InRename
<1>3. LockedAlone
  BY BoundsAssumption DEF Init, LockedAlone, InLock, InApply, ApplyForward, InRename
<1>4. QED BY <1>1, <1>2, <1>3 DEF IInv

-----------------------------------------------------------------------------
(* What the helpers of the actions do to the state's types.                *)

LEMMA ReturnTyped ==
  ASSUME TypeOK, NEW p \in Procs, Return(p)
  PROVE  /\ pc' \in [Procs -> PCs]
         /\ job' \in [Procs -> {NoJob} \cup Patches \cup Renames]
         /\ uid' \in [Procs -> 0 .. clock]
         /\ pos' \in [Procs -> Nat \ {0}]
         /\ recs' \in [Procs -> Seq(Rec)]
         /\ buf' \in [Procs -> SUBSET Nat]
         /\ before' \in [Procs -> [Notes -> {NoNote} \cup Text]]
         /\ tainted' \in [Procs -> SUBSET Taints]
BY NotesAssumption
DEF TypeOK, CallsTyped, HistoryTyped, Return, Goto, PCs

LEMMA OutcomeTyped ==
  ASSUME TypeOK, NEW p \in Procs, NEW how \in {"commit", "raise", "death"},
         NEW taint \in SUBSET Taints, Outcome(p, how, taint)
  PROVE  last' \in {NoCommit} \cup Outcomes
<1>1. uid[p] \in Nat /\ before[p] \in [Notes -> {NoNote} \cup Text]
  BY DEF TypeOK, CallsTyped, HistoryTyped
<1>2. QED BY <1>1 DEF Outcome, Outcomes, TypeOK, FilesTyped

LEMMA UndoWritten ==
  ASSUME TypeOK, NEW p \in Procs, uid[p] # 0, NEW body \in UndoFile, WriteUndo(p, body)
  PROVE  /\ DOMAIN undo' \subseteq 1 .. clock
         /\ \A i \in DOMAIN undo' : undo'[i] \in UndoFile
<1>1. uid[p] \in 1 .. clock
  BY DEF TypeOK, CallsTyped
<1>2. QED BY <1>1 DEF WriteUndo, TypeOK, FilesTyped

LEMMA TaintNames ==
  /\ Taints # {}
  /\ "clobbered" \in Taints /\ "repeated" \in Taints /\ "torn" \in Taints
  /\ "renamed" \in Taints /\ "rollback error" \in Taints /\ "raced" \in Taints
BY DEF Taints

LEMMA NoteWritten ==
  ASSUME TypeOK, NEW p \in Procs, NEW x \in Notes, NEW text \in {NoNote} \cup Text,
         WriteNote(p, x, text)
  PROVE  /\ notes' \in [Notes -> {NoNote} \cup Text]
         /\ tainted' \in [Procs -> SUBSET Taints]
<1>1. notes' \in [Notes -> {NoNote} \cup Text]
  BY DEF WriteNote, TypeOK, FilesTyped
<1>2. \A o \in Procs : tainted[o] \in SUBSET Taints /\ tainted[o] \cup {"raced"} \in SUBSET Taints
  BY TaintNames DEF TypeOK, HistoryTyped
<1>3. tainted' \in [Procs -> SUBSET Taints]
  BY <1>2 DEF WriteNote
<1>4. QED BY <1>1, <1>3

LEMMA UndoBodies ==
  /\ Torn \in UndoFile
  /\ RenameRecord \in UndoFile
  /\ \A rs \in Seq(Rec) : FilesRecord(rs) \in UndoFile
BY DEF Torn, RenameRecord, FilesRecord, UndoFile

(* The two ends of the undo records of a call, and the rest of them.       *)
LEMMA RecsTyped ==
  ASSUME TypeOK, NEW p \in Procs, recs[p] # <<>>
  PROVE  /\ Head(recs[p]) \in Rec /\ Head(recs[p]).path \in Notes
         /\ Head(recs[p]).prev \in {NoNote} \cup Text
         /\ Tail(recs[p]) \in Seq(Rec)
         /\ NewestRecord(p) \in Rec /\ NewestRecord(p).path \in Notes
         /\ NewestRecord(p).prev \in {NoNote} \cup Text
         /\ SubSeq(recs[p], 1, Len(recs[p]) - 1) \in Seq(Rec)
<1>1. recs[p] \in Seq(Rec)
  BY DEF TypeOK, CallsTyped
<1>2. Head(recs[p]) \in Rec /\ Tail(recs[p]) \in Seq(Rec)
  BY <1>1, HeadTailProperties
<1>3. Len(recs[p]) \in Nat /\ Len(recs[p]) # 0
  BY <1>1, EmptySeq, LenProperties
<1>4. NewestRecord(p) \in Rec
  BY <1>1, <1>3, ElementOfSeq DEF NewestRecord
<1>5. SubSeq(recs[p], 1, Len(recs[p]) - 1) \in Seq(Rec)
  <2>1. \A i \in 1 .. Len(recs[p]) - 1 : recs[p][i] \in Rec
    BY <1>1, <1>3, ElementOfSeq
  <2>2. QED BY <1>3, <2>1, SubSeqProperties
<1>6. QED BY <1>2, <1>4, <1>5 DEF Rec

LEMMA RecordTaken ==
  ASSUME TypeOK, NEW p \in Procs, NEW x \in Notes, NEW prev \in {NoNote} \cup Text,
         TakeRecord(p, x, prev)
  PROVE  /\ recs' \in [Procs -> Seq(Rec)]
         /\ recs'[p] # <<>> /\ NewestRecord(p)'.prev = prev
<1> DEFINE r == [path |-> x, prev |-> prev]
<1>1. recs[p] \in Seq(Rec) /\ r \in Rec
  BY DEF TypeOK, CallsTyped, Rec
<1>2. recs' = [recs EXCEPT ![p] = Append(recs[p], r)] /\ recs'[p] = Append(recs[p], r)
  BY DEF TakeRecord, TypeOK, CallsTyped
<1>3. /\ Append(recs[p], r) \in Seq(Rec)
      /\ Append(recs[p], r) # <<>>
      /\ Append(recs[p], r)[Len(Append(recs[p], r))] = r
  BY <1>1, AppendProperties
<1>4. QED BY <1>2, <1>3 DEF NewestRecord, TypeOK, CallsTyped

LEMMA NewFilesCount == ASSUME NEW q \in Patches PROVE Len(q.new) \in Nat
BY PatchTyped, LenProperties

LEMMA FewerNewFiles == ASSUME NEW q \in Patches PROVE Len(q.new) <= PathCount(q)
<1>1. q \in PatchCall
  BY CallsAssumption
<1>2. Len(q.new) \in Nat /\ Len(q.edits) \in Nat
  BY <1>1, LenProperties DEF PatchCall
<1>3. QED BY <1>1, <1>2 DEF PatchCall, PathCount

LEMMA NewFileTyped ==
  ASSUME NEW q \in Patches, NEW k \in Nat \ {0}, k <= Len(q.new)
  PROVE  q.new[k].path \in Notes /\ q.new[k].text \in Text
<1>1. k \in 1 .. Len(q.new)
  BY NewFilesCount
<1>2. q.new[k] \in [path : Notes, text : Text]
  BY <1>1, PatchTyped, ElementOfSeq
<1>3. QED BY <1>2

LEMMA EditTyped ==
  ASSUME NEW q \in Patches, NEW k \in 1 .. PathCount(q), ~(k <= Len(q.new))
  PROVE  LET e == q.edits[k - Len(q.new)]
         IN  e.path \in Notes /\ e.old \in Text /\ e.new \in Text
<1>1. q \in PatchCall
  BY CallsAssumption
<1>2. Len(q.new) \in Nat /\ Len(q.edits) \in Nat
  BY <1>1, LenProperties DEF PatchCall
<1>3. k - Len(q.new) \in 1 .. Len(q.edits)
  BY <1>1, <1>2 DEF PatchCall, PathCount
<1>4. q.edits[k - Len(q.new)] \in [path : Notes, old : Text, new : Text]
  BY <1>3, PatchTyped, ElementOfSeq
<1>5. QED BY <1>4

LEMMA IndexTyped ==
  ASSUME NEW q \in Patches, NEW k \in Nat \ {0}, k <= Len(q.index)
  PROVE  q.index[k] \in Domains
<1>1. k \in 1 .. Len(q.index)
  BY PatchTyped, LenProperties
<1>2. QED BY <1>1, PatchTyped, ElementOfSeq

LEMMA WriteTyped ==
  ASSUME IInv, NEW p \in Procs, pc[p] = "write"
  PROVE  Path(job[p], pos[p]) \in Notes /\ NewText(p) \in Text
<1>1. job[p] \in Patches /\ pos[p] \in 1 .. PathCount(job[p])
  BY PatchTyped DEF IInv, TypeOK, CallsTyped, JobOK, InApply, ApplyForward
<1>3. Path(job[p], pos[p]) \in Notes
  BY <1>1, PatchTyped
<1>4. CASE pos[p] <= Len(job[p].new)
  BY <1>1, <1>3, <1>4, NewFileTyped DEF NewText, IInv, TypeOK, CallsTyped
<1>5. CASE ~(pos[p] <= Len(job[p].new))
  <2>1. EditOf(p).old \in Text /\ EditOf(p).new \in Text
    BY <1>1, <1>5, EditTyped DEF EditOf
  <2>2. NewestRecord(p).prev \in Text
    BY <1>1, <1>5, NewFilesCount DEF IInv, JobOK, TypeOK, CallsTyped
  <2>3. QED BY <1>3, <1>5, <2>1, <2>2 DEF NewText, NewestRecord, Text
<1>6. QED BY <1>4, <1>5

-----------------------------------------------------------------------------
(* Every step keeps the invariant.                                         *)

USE DEF Goto, InLock, InApply, ApplyForward, InRename, Reverting, TornPC, PCs, ioVars, callVars, histVars

LEMMA CallKeeps ==
  ASSUME IInv, NEW p \in Procs, Call(p)
  PROVE  IInv'
<1>1. ASSUME NEW q \in Patches, Apply(p, q) PROVE IInv'
  <2>1. FilesTyped'
    BY <1>1 DEF IInv, TypeOK, FilesTyped, CallsTyped, Apply
  <2>2. CallsTyped'
    BY <1>1 DEF IInv, TypeOK, FilesTyped, CallsTyped, Apply
  <2>3. HistoryTyped'
    BY <1>1 DEF IInv, TypeOK, FilesTyped, CallsTyped, HistoryTyped, Apply
  <2>4. JobOK'
    BY <1>1 DEF IInv, TypeOK, CallsTyped, JobOK, NewestRecord, Apply
  <2>5. LockedAlone'
    BY <1>1, BoundsAssumption DEF IInv, TypeOK, CallsTyped, LockedAlone, Apply
  <2>6. QED BY <2>1, <2>2, <2>3, <2>4, <2>5 DEF IInv, TypeOK
<1>2. ASSUME NEW r \in Renames, RenameFile(p, r) PROVE IInv'
  <2>1. FilesTyped'
    BY <1>2 DEF IInv, TypeOK, FilesTyped, CallsTyped, RenameFile
  <2>2. CallsTyped'
    BY <1>2 DEF IInv, TypeOK, FilesTyped, CallsTyped, RenameFile
  <2>3. HistoryTyped'
    BY <1>2 DEF IInv, TypeOK, FilesTyped, CallsTyped, HistoryTyped, RenameFile
  <2>4. JobOK'
    BY <1>2 DEF IInv, TypeOK, CallsTyped, JobOK, NewestRecord, RenameFile
  <2>5. LockedAlone'
    BY <1>2, BoundsAssumption DEF IInv, TypeOK, CallsTyped, LockedAlone, RenameFile
  <2>6. QED BY <2>1, <2>2, <2>3, <2>4, <2>5 DEF IInv, TypeOK
<1>3. ASSUME NEW i \in DOMAIN undo, Revert(p, i) PROVE IInv'
  <2>1. FilesTyped'
    BY <1>3 DEF IInv, TypeOK, FilesTyped, CallsTyped, Revert
  <2>2. CallsTyped'
    <3>1. i \in 0 .. clock /\ undo[i].recs \in Seq(Rec)
      BY <1>3 DEF IInv, TypeOK, FilesTyped, UndoFile
    <3>2. /\ recs' = [recs EXCEPT ![p] = undo[i].recs]
          /\ uid' = [uid EXCEPT ![p] = i]
          /\ pc' = [pc EXCEPT ![p] = "revert"]
          /\ UNCHANGED <<lock, clock, job, pos, buf>>
      BY <1>3 DEF Revert
    <3>3. QED BY <3>1, <3>2 DEF IInv, TypeOK, CallsTyped
  <2>3. HistoryTyped'
    <3>1. CASE last # NoCommit /\ last.id = i /\ last.after = notes
      <4>1. last.before \in [Notes -> {NoNote} \cup Text] /\ last.tainted \in SUBSET Taints
        BY <3>1 DEF IInv, TypeOK, HistoryTyped, Outcomes
      <4>2. QED BY <1>3, <3>1, <4>1 DEF IInv, TypeOK, HistoryTyped, Revert
    <3>2. CASE ~(last # NoCommit /\ last.id = i /\ last.after = notes)
      BY <1>3, <3>2, TaintNames DEF IInv, TypeOK, HistoryTyped, Revert
    <3>3. QED BY <3>1, <3>2
  <2>4. JobOK'
    BY <1>3 DEF IInv, TypeOK, CallsTyped, JobOK, NewestRecord, Revert
  <2>5. LockedAlone'
    BY <1>3, BoundsAssumption DEF IInv, TypeOK, CallsTyped, LockedAlone, Revert
  <2>6. QED BY <2>1, <2>2, <2>3, <2>4, <2>5 DEF IInv, TypeOK
<1>4. CASE UndoLast(p)
  BY <1>3, <1>4 DEF UndoLast, Revert
<1>5. QED BY <1>1, <1>2, <1>3, <1>4 DEF Call

LEMMA LockStepKeeps ==
  ASSUME IInv, NEW p \in Procs, LockStep(p)
  PROVE  IInv'
<1>1. CASE Acquire(p)
  <2>1. FilesTyped'
    BY <1>1 DEF IInv, TypeOK, FilesTyped, CallsTyped, Acquire
  <2>2. CallsTyped'
    BY <1>1 DEF IInv, TypeOK, FilesTyped, CallsTyped, Acquire
  <2>3. HistoryTyped'
    BY <1>1, TaintNames DEF IInv, TypeOK, FilesTyped, CallsTyped, HistoryTyped, Acquire
  <2>4. JobOK'
    BY <1>1 DEF IInv, TypeOK, CallsTyped, JobOK, NewestRecord, Acquire
  <2>5. LockedAlone'
    BY <1>1, BoundsAssumption DEF IInv, TypeOK, CallsTyped, LockedAlone, Acquire
  <2>6. QED BY <2>1, <2>2, <2>3, <2>4, <2>5 DEF IInv, TypeOK
<1>2. CASE AcquireTimeout(p)
  <2>1. FilesTyped'
    BY <1>2 DEF IInv, TypeOK, FilesTyped, CallsTyped, AcquireTimeout, Return
  <2>2. CallsTyped'
    BY <1>2, ReturnTyped DEF IInv, TypeOK, CallsTyped, AcquireTimeout
  <2>3. HistoryTyped'
    BY <1>2, ReturnTyped DEF IInv, TypeOK, HistoryTyped, AcquireTimeout
  <2>4. JobOK'
    BY <1>2 DEF IInv, TypeOK, CallsTyped, JobOK, NewestRecord, AcquireTimeout, Return
  <2>5. LockedAlone'
    BY <1>2, BoundsAssumption DEF IInv, TypeOK, CallsTyped, LockedAlone, AcquireTimeout, Return
  <2>6. QED BY <2>1, <2>2, <2>3, <2>4, <2>5 DEF IInv, TypeOK
<1>3. CASE RenameAcquire(p)
  <2> DEFINE Found == Exists(job[p].src) /\ ~Exists(job[p].dst)
  <2>1. FilesTyped'
    BY <1>3 DEF IInv, TypeOK, FilesTyped, CallsTyped, RenameAcquire, Return
  <2>2. CallsTyped'
    <3>1. CASE Found
      BY <1>3, <3>1 DEF IInv, TypeOK, CallsTyped, RenameAcquire
    <3>2. CASE ~Found
      BY <1>3, <3>2, ReturnTyped DEF IInv, TypeOK, CallsTyped, RenameAcquire
    <3>3. QED BY <3>1, <3>2
  <2>3. HistoryTyped'
    <3>1. CASE Found
      <4>1. /\ tainted' = [tainted EXCEPT ![p] = {"renamed"}]
            /\ before' = [before EXCEPT ![p] = notes]
            /\ UNCHANGED <<last, deaths, errs>>
        BY <1>3, <3>1 DEF RenameAcquire
      <4>2. {"renamed"} \in SUBSET Taints
        BY TaintNames
      <4>3. QED BY <4>1, <4>2 DEF IInv, TypeOK, FilesTyped, HistoryTyped
    <3>2. CASE ~Found
      BY <1>3, <3>2, ReturnTyped DEF IInv, TypeOK, HistoryTyped, RenameAcquire
    <3>3. QED BY <3>1, <3>2
  <2>4. JobOK'
    <3>1. CASE Found
      BY <1>3, <3>1 DEF IInv, TypeOK, CallsTyped, JobOK, NewestRecord, RenameAcquire
    <3>2. CASE ~Found
      BY <1>3, <3>2 DEF IInv, TypeOK, CallsTyped, JobOK, NewestRecord, RenameAcquire, Return
    <3>3. QED BY <3>1, <3>2
  <2>5. LockedAlone'
    BY <1>3, BoundsAssumption DEF IInv, TypeOK, CallsTyped, LockedAlone, RenameAcquire, Return
  <2>6. QED BY <2>1, <2>2, <2>3, <2>4, <2>5 DEF IInv, TypeOK
<1>4. QED BY <1>1, <1>2, <1>3 DEF LockStep

LEMMA ApplyStepKeeps ==
  ASSUME IInv, NEW p \in Procs, ApplyStep(p)
  PROVE  IInv'
<1>1. CASE PlanNewFile(p)
  <2>0. job[p] \in Patches
    BY <1>1 DEF IInv, JobOK, PlanNewFile
  <2>a. PICK x \in Notes : TakeRecord(p, x, NoNote)
    BY <1>1, NewFileTyped DEF IInv, TypeOK, CallsTyped, JobOK, PlanNewFile
  <2>b. recs' \in [Procs -> Seq(Rec)] /\ recs'[p] # <<>>
    BY <2>a, RecordTaken DEF IInv
  <2>1. FilesTyped'
    BY <2>a, <1>1, UndoWritten, UndoBodies DEF IInv, TypeOK, FilesTyped, JobOK, PlanNewFile, TakeRecord
  <2>2. CallsTyped'
    BY <2>a, <2>b DEF IInv, TypeOK, CallsTyped, TakeRecord
  <2>3. HistoryTyped'
    BY <1>1, <2>a, TaintNames DEF IInv, TypeOK, HistoryTyped, PlanNewFile, TakeRecord
  <2>4. JobOK'
    <3>1. pos[p] <= PathCount(job[p]) /\ ~(pos[p] > Len(job[p].new))
      BY <1>1, <2>0, FewerNewFiles, NewFilesCount, PatchTyped DEF IInv, TypeOK, CallsTyped, PlanNewFile
    <3>2. QED BY <1>1, <2>a, <2>b, <3>1 DEF IInv, TypeOK, CallsTyped, JobOK, NewestRecord, PlanNewFile, TakeRecord
  <2>5. LockedAlone'
    BY <1>1, BoundsAssumption DEF IInv, TypeOK, CallsTyped, LockedAlone, PlanNewFile, TakeRecord
  <2>6. QED BY <2>1, <2>2, <2>3, <2>4, <2>5 DEF IInv, TypeOK
<1>2. CASE PlanEdit(p)
  <2> DEFINE x == EditOf(p).path
  <2>a. x \in Notes /\ notes[x] \in Text /\ TakeRecord(p, x, notes[x])
    <3>1. job[p] \in Patches
      BY <1>2 DEF IInv, JobOK, PlanEdit, AtEdit
    <3>2. pos[p] \in 1 .. PathCount(job[p]) /\ ~(pos[p] <= Len(job[p].new))
      BY <1>2, <3>1, PatchTyped, NewFilesCount DEF IInv, TypeOK, CallsTyped, PlanEdit, AtEdit
    <3>3. x \in Notes
      BY <3>1, <3>2, EditTyped DEF EditOf
    <3>4. QED BY <1>2, <3>3 DEF IInv, TypeOK, FilesTyped, PlanEdit, Matches, Exists
  <2>b. recs' \in [Procs -> Seq(Rec)] /\ recs'[p] # <<>> /\ NewestRecord(p)'.prev \in Text
    BY <2>a, RecordTaken DEF IInv
  <2>1. FilesTyped'
    BY <2>a, <1>2, UndoWritten, UndoBodies DEF IInv, TypeOK, FilesTyped, JobOK, PlanEdit, AtEdit, TakeRecord
  <2>2. CallsTyped'
    BY <2>a, <2>b DEF IInv, TypeOK, CallsTyped, TakeRecord
  <2>3. HistoryTyped'
    BY <1>2 DEF IInv, TypeOK, FilesTyped, CallsTyped, HistoryTyped, PlanEdit, AtEdit, TakeRecord
  <2>4. JobOK'
    BY <1>2, <2>a, <2>b DEF IInv, TypeOK, CallsTyped, JobOK, NewestRecord, PlanEdit, AtEdit, TakeRecord
  <2>5. LockedAlone'
    BY <1>2, BoundsAssumption DEF IInv, TypeOK, CallsTyped, LockedAlone, PlanEdit, AtEdit, TakeRecord
  <2>6. QED BY <2>1, <2>2, <2>3, <2>4, <2>5 DEF IInv, TypeOK
<1>3. CASE WriteRecord(p)
  <2>1. FilesTyped'
    BY <1>3, UndoWritten, UndoBodies DEF IInv, TypeOK, FilesTyped, CallsTyped, JobOK, WriteRecord
  <2>2. CallsTyped'
    BY <1>3 DEF IInv, TypeOK, FilesTyped, CallsTyped, WriteRecord
  <2>3. HistoryTyped'
    BY <1>3 DEF IInv, TypeOK, FilesTyped, CallsTyped, HistoryTyped, WriteRecord
  <2>4. JobOK'
    BY <1>3 DEF IInv, TypeOK, CallsTyped, JobOK, NewestRecord, WriteRecord
  <2>5. LockedAlone'
    BY <1>3, BoundsAssumption DEF IInv, TypeOK, CallsTyped, LockedAlone, WriteRecord
  <2>6. QED BY <2>1, <2>2, <2>3, <2>4, <2>5 DEF IInv, TypeOK
<1>4. CASE Mutate(p)
  <2>1. FilesTyped'
    BY <1>4, WriteTyped, NoteWritten DEF IInv, TypeOK, FilesTyped, Mutate
  <2>2. CallsTyped'
    BY <1>4 DEF IInv, TypeOK, FilesTyped, CallsTyped, Mutate
  <2>3. HistoryTyped'
    BY <1>4, WriteTyped, NoteWritten DEF IInv, TypeOK, HistoryTyped, Mutate
  <2>4. JobOK'
    BY <1>4 DEF IInv, TypeOK, CallsTyped, JobOK, NewestRecord, Mutate
  <2>5. LockedAlone'
    BY <1>4, BoundsAssumption DEF IInv, TypeOK, CallsTyped, LockedAlone, Mutate
  <2>6. QED BY <2>1, <2>2, <2>3, <2>4, <2>5 DEF IInv, TypeOK
<1>5. CASE FilesDone(p)
  <2>1. FilesTyped'
    BY <1>5 DEF IInv, TypeOK, FilesTyped, CallsTyped, FilesDone
  <2>2. CallsTyped'
    BY <1>5 DEF IInv, TypeOK, FilesTyped, CallsTyped, FilesDone
  <2>3. HistoryTyped'
    BY <1>5 DEF IInv, TypeOK, FilesTyped, CallsTyped, HistoryTyped, FilesDone
  <2>4. JobOK'
    BY <1>5 DEF IInv, TypeOK, CallsTyped, JobOK, NewestRecord, FilesDone
  <2>5. LockedAlone'
    BY <1>5, BoundsAssumption DEF IInv, TypeOK, CallsTyped, LockedAlone, FilesDone
  <2>6. QED BY <2>1, <2>2, <2>3, <2>4, <2>5 DEF IInv, TypeOK
<1>6. CASE LoadIndex(p)
  <2>1. FilesTyped'
    BY <1>6 DEF IInv, TypeOK, FilesTyped, CallsTyped, LoadIndex
  <2>2. CallsTyped'
    <3>1. job[p].index[pos[p]] \in Domains
      BY <1>6, IndexTyped DEF IInv, TypeOK, CallsTyped, JobOK, LoadIndex
    <3>2. QED BY <1>6, <3>1 DEF IInv, TypeOK, FilesTyped, CallsTyped, LoadIndex
  <2>3. HistoryTyped'
    BY <1>6 DEF IInv, TypeOK, FilesTyped, CallsTyped, HistoryTyped, LoadIndex
  <2>4. JobOK'
    BY <1>6 DEF IInv, TypeOK, CallsTyped, JobOK, NewestRecord, LoadIndex
  <2>5. LockedAlone'
    BY <1>6, BoundsAssumption DEF IInv, TypeOK, CallsTyped, LockedAlone, LoadIndex
  <2>6. QED BY <2>1, <2>2, <2>3, <2>4, <2>5 DEF IInv, TypeOK
<1>7. CASE SaveIndex(p)
  <2>1. FilesTyped'
    BY <1>7 DEF IInv, TypeOK, FilesTyped, CallsTyped, SaveIndex
  <2>2. CallsTyped'
    BY <1>7 DEF IInv, TypeOK, FilesTyped, CallsTyped, SaveIndex
  <2>3. HistoryTyped'
    BY <1>7 DEF IInv, TypeOK, FilesTyped, CallsTyped, HistoryTyped, SaveIndex
  <2>4. JobOK'
    BY <1>7 DEF IInv, TypeOK, CallsTyped, JobOK, NewestRecord, SaveIndex
  <2>5. LockedAlone'
    BY <1>7, BoundsAssumption DEF IInv, TypeOK, CallsTyped, LockedAlone, SaveIndex
  <2>6. QED BY <2>1, <2>2, <2>3, <2>4, <2>5 DEF IInv, TypeOK
<1>8. CASE IndexDone(p)
  <2>1. FilesTyped'
    BY <1>8 DEF IInv, TypeOK, FilesTyped, CallsTyped, IndexDone
  <2>2. CallsTyped'
    BY <1>8 DEF IInv, TypeOK, FilesTyped, CallsTyped, IndexDone
  <2>3. HistoryTyped'
    BY <1>8 DEF IInv, TypeOK, FilesTyped, CallsTyped, HistoryTyped, IndexDone
  <2>4. JobOK'
    BY <1>8 DEF IInv, TypeOK, CallsTyped, JobOK, NewestRecord, IndexDone
  <2>5. LockedAlone'
    BY <1>8, BoundsAssumption DEF IInv, TypeOK, CallsTyped, LockedAlone, IndexDone
  <2>6. QED BY <2>1, <2>2, <2>3, <2>4, <2>5 DEF IInv, TypeOK
<1>9. CASE AppendLog(p)
  <2>1. FilesTyped'
    <3>1. uid[p] \in Nat
      BY DEF IInv, TypeOK, CallsTyped
    <3>2. QED BY <1>9, <3>1 DEF IInv, TypeOK, FilesTyped, AppendLog
  <2>2. CallsTyped'
    BY <1>9 DEF IInv, TypeOK, FilesTyped, CallsTyped, AppendLog
  <2>3. HistoryTyped'
    BY <1>9 DEF IInv, TypeOK, FilesTyped, CallsTyped, HistoryTyped, AppendLog
  <2>4. JobOK'
    BY <1>9 DEF IInv, TypeOK, CallsTyped, JobOK, NewestRecord, AppendLog
  <2>5. LockedAlone'
    BY <1>9, BoundsAssumption DEF IInv, TypeOK, CallsTyped, LockedAlone, AppendLog
  <2>6. QED BY <2>1, <2>2, <2>3, <2>4, <2>5 DEF IInv, TypeOK
<1>10. CASE BeginSeal(p)
  <2>1. FilesTyped'
    BY <1>10, UndoWritten, UndoBodies DEF IInv, TypeOK, FilesTyped, JobOK, BeginSeal
  <2>2. CallsTyped'
    BY <1>10 DEF IInv, TypeOK, FilesTyped, CallsTyped, BeginSeal
  <2>3. HistoryTyped'
    BY <1>10 DEF IInv, TypeOK, FilesTyped, CallsTyped, HistoryTyped, BeginSeal
  <2>4. JobOK'
    BY <1>10 DEF IInv, TypeOK, CallsTyped, JobOK, NewestRecord, BeginSeal
  <2>5. LockedAlone'
    BY <1>10, BoundsAssumption DEF IInv, TypeOK, CallsTyped, LockedAlone, BeginSeal
  <2>6. QED BY <2>1, <2>2, <2>3, <2>4, <2>5 DEF IInv, TypeOK
<1>11. CASE Seal(p)
  <2>1. FilesTyped'
    BY <1>11, UndoWritten, UndoBodies DEF IInv, TypeOK, FilesTyped, CallsTyped, JobOK, Seal
  <2>2. CallsTyped'
    BY <1>11, ReturnTyped DEF IInv, TypeOK, CallsTyped, Seal, Unlock
  <2>3. HistoryTyped'
    BY <1>11, ReturnTyped, OutcomeTyped DEF IInv, TypeOK, HistoryTyped, Seal
  <2>4. JobOK'
    BY <1>11 DEF IInv, TypeOK, CallsTyped, JobOK, NewestRecord, Seal, Return, Unlock
  <2>5. LockedAlone'
    BY <1>11, BoundsAssumption DEF IInv, TypeOK, CallsTyped, LockedAlone, Seal, Return, Unlock
  <2>6. QED BY <2>1, <2>2, <2>3, <2>4, <2>5 DEF IInv, TypeOK
<1>12. CASE EditFails(p)
  <2>1. FilesTyped'
    BY <1>12 DEF IInv, TypeOK, FilesTyped, CallsTyped, EditFails, AtEdit, Raise
  <2>2. CallsTyped'
    BY <1>12 DEF IInv, TypeOK, FilesTyped, CallsTyped, EditFails, AtEdit, Raise
  <2>3. HistoryTyped'
    BY <1>12, TaintNames DEF IInv, TypeOK, FilesTyped, CallsTyped, HistoryTyped, EditFails, AtEdit, Raise
  <2>4. JobOK'
    BY <1>12 DEF IInv, TypeOK, CallsTyped, JobOK, NewestRecord, EditFails, AtEdit, Raise
  <2>5. LockedAlone'
    BY <1>12, BoundsAssumption DEF IInv, TypeOK, CallsTyped, LockedAlone, EditFails, AtEdit, Raise
  <2>6. QED BY <2>1, <2>2, <2>3, <2>4, <2>5 DEF IInv, TypeOK
<1>13. CASE Rollback(p)
  <2>a. /\ WriteNote(p, NewestRecord(p).path, NewestRecord(p).prev)
        /\ recs' = [recs EXCEPT ![p] = SubSeq(recs[p], 1, Len(recs[p]) - 1)]
    BY <1>13 DEF Rollback, NewestRecord
  <2>1. FilesTyped'
    BY <1>13, <2>a, RecsTyped, NoteWritten DEF IInv, TypeOK, FilesTyped, Rollback
  <2>2. CallsTyped'
    BY <1>13, <2>a, RecsTyped DEF IInv, TypeOK, CallsTyped, Rollback
  <2>3. HistoryTyped'
    BY <1>13, <2>a, RecsTyped, NoteWritten DEF IInv, TypeOK, HistoryTyped, Rollback
  <2>4. JobOK'
    BY <1>13 DEF IInv, TypeOK, CallsTyped, JobOK, NewestRecord, Rollback, WriteNote
  <2>5. LockedAlone'
    BY <1>13, BoundsAssumption DEF IInv, TypeOK, CallsTyped, LockedAlone, Rollback, WriteNote
  <2>6. QED BY <2>1, <2>2, <2>3, <2>4, <2>5 DEF IInv, TypeOK
<1>14. CASE Reraise(p)
  <2>1. FilesTyped'
    BY <1>14 DEF IInv, TypeOK, FilesTyped, CallsTyped, Reraise, Return, Unlock
  <2>2. CallsTyped'
    BY <1>14, ReturnTyped DEF IInv, TypeOK, CallsTyped, Reraise, Unlock
  <2>3. HistoryTyped'
    <3>1. tainted[p] \ {"rollback error"} \in SUBSET Taints
      BY DEF IInv, TypeOK, HistoryTyped
    <3>2. QED BY <1>14, <3>1, ReturnTyped, OutcomeTyped DEF IInv, TypeOK, HistoryTyped, Reraise
  <2>4. JobOK'
    BY <1>14 DEF IInv, TypeOK, CallsTyped, JobOK, NewestRecord, Reraise, Return, Unlock
  <2>5. LockedAlone'
    BY <1>14, BoundsAssumption DEF IInv, TypeOK, CallsTyped, LockedAlone, Reraise, Return, Unlock
  <2>6. QED BY <2>1, <2>2, <2>3, <2>4, <2>5 DEF IInv, TypeOK
<1>15. QED BY <1>1, <1>2, <1>3, <1>4, <1>5, <1>6, <1>7, <1>8, <1>9, <1>10, <1>11, <1>12, <1>13, <1>14 DEF ApplyStep

LEMMA RenameStepKeeps ==
  ASSUME IInv, NEW p \in Procs, RenameStep(p)
  PROVE  IInv'
<1>1. CASE Move(p)
  <2>1. FilesTyped'
    <3>1. job[p].src \in Notes /\ job[p].dst \in Notes
      BY <1>1, RenameTyped DEF IInv, JobOK, Move
    <3>2. notes' \in [Notes -> {NoNote} \cup Text]
      BY <1>1, <3>1 DEF IInv, TypeOK, FilesTyped, Move
    <3>3. DOMAIN undo' \subseteq 1 .. clock'
      BY <1>1 DEF IInv, TypeOK, FilesTyped, CallsTyped, Move
    <3>4. QED BY <1>1, <3>2, <3>3 DEF IInv, TypeOK, FilesTyped, Move
  <2>2. CallsTyped'
    BY <1>1 DEF IInv, TypeOK, FilesTyped, CallsTyped, Move
  <2>3. HistoryTyped'
    <3>1. \A o \in Procs : tainted[o] \in SUBSET Taints /\ tainted[o] \cup {"raced"} \in SUBSET Taints
      BY TaintNames DEF IInv, TypeOK, HistoryTyped
    <3>2. tainted' \in [Procs -> SUBSET Taints]
      BY <1>1, <3>1 DEF Move
    <3>3. QED BY <1>1, <3>2 DEF IInv, TypeOK, HistoryTyped, Move
  <2>4. JobOK'
    BY <1>1 DEF IInv, TypeOK, CallsTyped, JobOK, NewestRecord, Move
  <2>5. LockedAlone'
    BY <1>1, BoundsAssumption DEF IInv, TypeOK, CallsTyped, LockedAlone, Move
  <2>6. QED BY <2>1, <2>2, <2>3, <2>4, <2>5 DEF IInv, TypeOK
<1>2. CASE WriteRenameRecord(p)
  <2>1. FilesTyped'
    BY <1>2, UndoWritten, UndoBodies DEF IInv, TypeOK, FilesTyped, JobOK, WriteRenameRecord
  <2>2. CallsTyped'
    BY <1>2, ReturnTyped DEF IInv, TypeOK, CallsTyped, WriteRenameRecord, Unlock
  <2>3. HistoryTyped'
    BY <1>2, ReturnTyped, OutcomeTyped DEF IInv, TypeOK, HistoryTyped, WriteRenameRecord
  <2>4. JobOK'
    BY <1>2 DEF IInv, TypeOK, CallsTyped, JobOK, NewestRecord, WriteRenameRecord, Return, Unlock
  <2>5. LockedAlone'
    BY <1>2, BoundsAssumption DEF IInv, TypeOK, CallsTyped, LockedAlone, WriteRenameRecord, Return, Unlock
  <2>6. QED BY <2>1, <2>2, <2>3, <2>4, <2>5 DEF IInv, TypeOK
<1>3. CASE RenameFails(p)
  <2>1. FilesTyped'
    BY <1>3 DEF IInv, TypeOK, FilesTyped, CallsTyped, RenameFails, Return, Unlock
  <2>2. CallsTyped'
    BY <1>3, ReturnTyped DEF IInv, TypeOK, CallsTyped, RenameFails, Unlock
  <2>3. HistoryTyped'
    BY <1>3, ReturnTyped DEF IInv, TypeOK, HistoryTyped, RenameFails
  <2>4. JobOK'
    BY <1>3 DEF IInv, TypeOK, CallsTyped, JobOK, NewestRecord, RenameFails, Return, Unlock
  <2>5. LockedAlone'
    BY <1>3, BoundsAssumption DEF IInv, TypeOK, CallsTyped, LockedAlone, RenameFails, Return, Unlock
  <2>6. QED BY <2>1, <2>2, <2>3, <2>4, <2>5 DEF IInv, TypeOK
<1>4. QED BY <1>1, <1>2, <1>3 DEF RenameStep

LEMMA RevertStepKeeps ==
  ASSUME IInv, NEW p \in Procs, RevertStep(p)
  PROVE  IInv'
<1>1. CASE RevertNew(p)
  <2>1. FilesTyped'
    BY <1>1, RecsTyped, NoteWritten DEF IInv, TypeOK, FilesTyped, RevertNew
  <2>2. CallsTyped'
    BY <1>1, RecsTyped DEF IInv, TypeOK, CallsTyped, RevertNew, Skip
  <2>3. HistoryTyped'
    BY <1>1, RecsTyped, NoteWritten DEF IInv, TypeOK, HistoryTyped, RevertNew
  <2>4. JobOK'
    BY <1>1 DEF IInv, TypeOK, CallsTyped, JobOK, NewestRecord, RevertNew, WriteNote, Skip
  <2>5. LockedAlone'
    BY <1>1, BoundsAssumption DEF IInv, TypeOK, CallsTyped, LockedAlone, RevertNew, WriteNote, Skip
  <2>6. QED BY <2>1, <2>2, <2>3, <2>4, <2>5 DEF IInv, TypeOK
<1>2. CASE RevertPrev(p)
  <2>a. {} \in {NoNote} \cup Text
    BY DEF Text
  <2>1. FilesTyped'
    BY <1>2, <2>a, RecsTyped, NoteWritten DEF IInv, TypeOK, FilesTyped, RevertPrev
  <2>2. CallsTyped'
    BY <1>2 DEF IInv, TypeOK, FilesTyped, CallsTyped, RevertPrev
  <2>3. HistoryTyped'
    BY <1>2, <2>a, RecsTyped, NoteWritten DEF IInv, TypeOK, HistoryTyped, RevertPrev
  <2>4. JobOK'
    <3>1. Head(recs[p]).prev \in Text
      BY <1>2, RecsTyped DEF IInv, RevertPrev
    <3>2. QED BY <1>2, <3>1 DEF IInv, TypeOK, CallsTyped, JobOK, NewestRecord, RevertPrev
  <2>5. LockedAlone'
    BY <1>2, BoundsAssumption DEF IInv, TypeOK, CallsTyped, LockedAlone, RevertPrev
  <2>6. QED BY <2>1, <2>2, <2>3, <2>4, <2>5 DEF IInv, TypeOK
<1>3. CASE Rewrite(p)
  <2>a. recs[p] # <<>>
    BY <1>3 DEF IInv, JobOK, Rewrite
  <2>1. FilesTyped'
    BY <1>3, <2>a, RecsTyped, NoteWritten DEF IInv, TypeOK, FilesTyped, Rewrite
  <2>2. CallsTyped'
    BY <1>3, <2>a, RecsTyped DEF IInv, TypeOK, CallsTyped, Rewrite, Skip
  <2>3. HistoryTyped'
    BY <1>3, <2>a, RecsTyped, NoteWritten DEF IInv, TypeOK, HistoryTyped, Rewrite
  <2>4. JobOK'
    BY <1>3 DEF IInv, TypeOK, CallsTyped, JobOK, NewestRecord, Rewrite, Skip
  <2>5. LockedAlone'
    BY <1>3, BoundsAssumption DEF IInv, TypeOK, CallsTyped, LockedAlone, Rewrite, Skip
  <2>6. QED BY <2>1, <2>2, <2>3, <2>4, <2>5 DEF IInv, TypeOK
<1>4. CASE RevertDone(p)
  <2>1. FilesTyped'
    BY <1>4 DEF IInv, TypeOK, FilesTyped, CallsTyped, RevertDone, Return
  <2>2. CallsTyped'
    BY <1>4, ReturnTyped DEF IInv, TypeOK, CallsTyped, RevertDone
  <2>3. HistoryTyped'
    BY <1>4, ReturnTyped DEF IInv, TypeOK, HistoryTyped, RevertDone
  <2>4. JobOK'
    BY <1>4 DEF IInv, TypeOK, CallsTyped, JobOK, NewestRecord, RevertDone, Return
  <2>5. LockedAlone'
    BY <1>4, BoundsAssumption DEF IInv, TypeOK, CallsTyped, LockedAlone, RevertDone, Return
  <2>6. QED BY <2>1, <2>2, <2>3, <2>4, <2>5 DEF IInv, TypeOK
<1>5. QED BY <1>1, <1>2, <1>3, <1>4 DEF RevertStep

LEMMA FaultKeeps ==
  ASSUME IInv, NEW p \in Procs, Fault(p)
  PROVE  IInv'
<1>1. CASE IOError(p)
  <2>1. FilesTyped'
    BY <1>1 DEF IInv, TypeOK, FilesTyped, CallsTyped, IOError, Raise
  <2>2. CallsTyped'
    BY <1>1 DEF IInv, TypeOK, FilesTyped, CallsTyped, IOError, Raise
  <2>3. HistoryTyped'
    <3>1. /\ tainted[p] \cup {"torn"} \in SUBSET Taints
          /\ tainted[p] \in SUBSET Taints
      BY TaintNames DEF IInv, TypeOK, HistoryTyped
    <3>2. tainted' \in [Procs -> SUBSET Taints]
      BY <1>1, <3>1 DEF IInv, TypeOK, HistoryTyped, IOError, Raise
    <3>3. errs' \in Nat
      BY <1>1 DEF IInv, TypeOK, HistoryTyped, IOError
    <3>4. QED BY <1>1, <3>2, <3>3 DEF IInv, TypeOK, HistoryTyped, IOError, Raise
  <2>4. JobOK'
    BY <1>1 DEF IInv, TypeOK, CallsTyped, JobOK, NewestRecord, IOError, Raise
  <2>5. LockedAlone'
    BY <1>1, BoundsAssumption DEF IInv, TypeOK, CallsTyped, LockedAlone, IOError, Raise
  <2>6. QED BY <2>1, <2>2, <2>3, <2>4, <2>5 DEF IInv, TypeOK
<1>2. CASE RollbackFails(p)
  <2>1. FilesTyped'
    BY <1>2 DEF IInv, TypeOK, FilesTyped, CallsTyped, RollbackFails
  <2>2. CallsTyped'
    BY <1>2, RecsTyped DEF IInv, TypeOK, CallsTyped, RollbackFails
  <2>3. HistoryTyped'
    <3>1. tainted[p] \cup {"rollback error"} \in SUBSET Taints
      BY TaintNames DEF IInv, TypeOK, HistoryTyped
    <3>2. tainted' \in [Procs -> SUBSET Taints]
      BY <1>2, <3>1 DEF IInv, TypeOK, HistoryTyped, RollbackFails
    <3>3. errs' \in Nat
      <4>1. errs \in Nat /\ errs' = errs + 1
        BY <1>2 DEF IInv, TypeOK, HistoryTyped, RollbackFails
      <4>2. QED BY <4>1
    <3>4. QED BY <1>2, <3>2, <3>3 DEF IInv, TypeOK, HistoryTyped, RollbackFails
  <2>4. JobOK'
    BY <1>2 DEF IInv, TypeOK, CallsTyped, JobOK, NewestRecord, RollbackFails
  <2>5. LockedAlone'
    BY <1>2, BoundsAssumption DEF IInv, TypeOK, CallsTyped, LockedAlone, RollbackFails
  <2>6. QED BY <2>1, <2>2, <2>3, <2>4, <2>5 DEF IInv, TypeOK
<1>3. CASE Die(p)
  <2>1. FilesTyped'
    BY <1>3 DEF IInv, TypeOK, FilesTyped, CallsTyped, Die, Return, Unlock
  <2>2. CallsTyped'
    BY <1>3, ReturnTyped DEF IInv, TypeOK, CallsTyped, Die, Unlock
  <2>3. HistoryTyped'
    <3>1. /\ (tainted[p] \ {"rollback error"}) \cup {"torn"} \in SUBSET Taints
          /\ (tainted[p] \ {"rollback error"}) \cup {} \in SUBSET Taints
      BY TaintNames DEF IInv, TypeOK, HistoryTyped
    <3>2. last' \in {NoCommit} \cup Outcomes
      <4>1. CASE pc[p] \in InApply /\ pc[p] \in TornPC
        BY <1>3, <4>1, <3>1, OutcomeTyped DEF IInv, Die
      <4>2. CASE pc[p] \in InApply /\ pc[p] \notin TornPC
        BY <1>3, <4>2, <3>1, OutcomeTyped DEF IInv, Die
      <4>3. CASE pc[p] \notin InApply
        BY <1>3, <4>3 DEF IInv, TypeOK, HistoryTyped, Die
      <4>4. QED BY <4>1, <4>2, <4>3
    <3>3. deaths' \in Nat
      <4>1. deaths \in Nat /\ deaths' = deaths + 1
        BY <1>3 DEF IInv, TypeOK, HistoryTyped, Die
      <4>2. QED BY <4>1
    <3>4. QED BY <1>3, <3>2, <3>3, ReturnTyped DEF IInv, TypeOK, HistoryTyped, Die
  <2>4. JobOK'
    BY <1>3 DEF IInv, TypeOK, CallsTyped, JobOK, NewestRecord, Die, Return, Unlock
  <2>5. LockedAlone'
    BY <1>3, BoundsAssumption DEF IInv, TypeOK, CallsTyped, LockedAlone, Die, Return, Unlock
  <2>6. QED BY <2>1, <2>2, <2>3, <2>4, <2>5 DEF IInv, TypeOK
<1>4. QED BY <1>1, <1>2, <1>3 DEF Fault

-----------------------------------------------------------------------------
LEMMA NextKeeps == IInv /\ [Next]_vars => IInv'
<1> SUFFICES ASSUME IInv, [Next]_vars PROVE IInv'
  OBVIOUS
<1>1. CASE UNCHANGED vars
  BY <1>1 DEF vars, IInv, TypeOK, FilesTyped, CallsTyped, HistoryTyped, JobOK, NewestRecord,
              LockedAlone
<1>2. ASSUME NEW p \in Procs, Call(p) \/ Step(p) \/ Fault(p) PROVE IInv'
  BY <1>2, CallKeeps, LockStepKeeps, ApplyStepKeeps, RenameStepKeeps, RevertStepKeeps,
     FaultKeeps DEF Step
<1>3. QED BY <1>1, <1>2 DEF Next, Exhausted

LEMMA Invariant == Spec => []IInv
BY InitIInv, NextKeeps, PTL DEF Spec

(* No step of any process leaves the vault, the locals of the calls or the *)
(* undo files outside their types, and no undo file ever has an id that    *)
(* was not handed out: a receipt's undo_id names the file of its own call. *)
THEOREM TypeCorrect == Spec => []TypeOK
BY Invariant, PTL DEF IInv

(* Mutual exclusion: the lock's holder is exactly the process inside apply *)
(* or rename_file, through exceptions, timeouts and deaths.                *)
THEOREM Exclusion == Spec => []LockedAlone
BY Invariant, PTL DEF IInv
-----------------------------------------------------------------------------
(***************************************************************************)
(* The catalogues.  A process that has truncated an index.md holds in buf  *)
(* all it will hold again; nobody else touches an index.md meanwhile.      *)
(***************************************************************************)
Saving(p, d) == pc[p] = "save" /\ job[p].index[pos[p]] = d

SaveOK == \A p \in Procs, d \in Domains : Saving(p, d) => index[d] = {}

CatalogStep ==
  \A d \in Domains : Catalog(d) \subseteq Catalog(d)' \/ errs' > errs \/ deaths' > deaths

(* A step that neither loads nor saves an index, nor ends a save.          *)
Quiet ==
  /\ UNCHANGED index
  /\ \A p \in Procs : \/ pc[p] # "save" /\ pc'[p] # "save"
                      \/ UNCHANGED <<pc[p], job[p], pos[p], buf[p]>>

LEMMA QuietKeeps ==
  ASSUME SaveOK, Quiet
  PROVE  SaveOK' /\ CatalogStep
BY DEF SaveOK, Quiet, Saving, CatalogStep, Catalog

LEMMA SaversAlone ==
  ASSUME IInv, NEW p \in Procs, pc[p] \in InLock, NEW o \in Procs, pc[o] = "save"
  PROVE  o = p
BY DEF IInv, LockedAlone

LEMMA QuietSteps ==
  ASSUME IInv, NEW p \in Procs, Call(p) \/ Step(p) \/ RollbackFails(p),
         ~LoadIndex(p), ~SaveIndex(p)
  PROVE  Quiet
<1> USE DEF IInv, TypeOK, CallsTyped, Quiet
<1>1. CASE Call(p)
  <2>1. ASSUME NEW q \in Patches, Apply(p, q) PROVE Quiet
    BY <2>1 DEF Apply
  <2>2. ASSUME NEW r \in Renames, RenameFile(p, r) PROVE Quiet
    BY <2>2 DEF RenameFile
  <2>3. ASSUME NEW i \in DOMAIN undo, Revert(p, i) PROVE Quiet
    BY <2>3 DEF Revert
  <2>4. CASE UndoLast(p)
    BY <2>3, <2>4 DEF UndoLast, Revert
  <2>5. QED BY <1>1, <2>1, <2>2, <2>3, <2>4 DEF Call
<1>2. CASE LockStep(p)
  <2>1. CASE Acquire(p) BY <2>1 DEF Acquire
  <2>2. CASE AcquireTimeout(p) BY <2>2 DEF AcquireTimeout, Return
  <2>3. CASE RenameAcquire(p) BY <2>3 DEF RenameAcquire, Return
  <2>4. QED BY <1>2, <2>1, <2>2, <2>3 DEF LockStep
<1>3. CASE ApplyStep(p)
  <2>1. CASE PlanNewFile(p) BY <2>1 DEF PlanNewFile, TakeRecord
  <2>2. CASE PlanEdit(p) BY <2>2 DEF PlanEdit, AtEdit, TakeRecord
  <2>3. CASE WriteRecord(p) BY <2>3 DEF WriteRecord
  <2>4. CASE Mutate(p) BY <2>4 DEF Mutate
  <2>5. CASE FilesDone(p) BY <2>5 DEF FilesDone
  <2>6. CASE IndexDone(p) BY <2>6 DEF IndexDone
  <2>7. CASE AppendLog(p) BY <2>7 DEF AppendLog
  <2>8. CASE BeginSeal(p) BY <2>8 DEF BeginSeal
  <2>9. CASE Seal(p) BY <2>9 DEF Seal, Return
  <2>10. CASE EditFails(p) BY <2>10 DEF EditFails, AtEdit, Raise
  <2>11. CASE Rollback(p) BY <2>11 DEF Rollback
  <2>12. CASE Reraise(p) BY <2>12 DEF Reraise, Return
  <2>13. QED
    BY <1>3, <2>1, <2>2, <2>3, <2>4, <2>5, <2>6, <2>7, <2>8, <2>9, <2>10, <2>11, <2>12
    DEF ApplyStep
<1>4. CASE RenameStep(p)
  <2>1. CASE Move(p) BY <2>1 DEF Move
  <2>2. CASE WriteRenameRecord(p) BY <2>2 DEF WriteRenameRecord, Return
  <2>3. CASE RenameFails(p) BY <2>3 DEF RenameFails, Return
  <2>4. QED BY <1>4, <2>1, <2>2, <2>3 DEF RenameStep
<1>5. CASE RevertStep(p)
  <2>1. CASE RevertNew(p) BY <2>1 DEF RevertNew
  <2>2. CASE RevertPrev(p) BY <2>2 DEF RevertPrev
  <2>3. CASE Rewrite(p) BY <2>3 DEF Rewrite
  <2>4. CASE RevertDone(p) BY <2>4 DEF RevertDone, Return
  <2>5. QED BY <1>5, <2>1, <2>2, <2>3, <2>4 DEF RevertStep
<1>6. CASE RollbackFails(p)
  BY <1>6 DEF RollbackFails
<1>7. QED BY <1>1, <1>2, <1>3, <1>4, <1>5, <1>6 DEF Step

LEMMA CatalogKeeps == IInv /\ SaveOK /\ [Next]_vars => SaveOK' /\ CatalogStep
<1> SUFFICES ASSUME IInv, SaveOK, [Next]_vars PROVE SaveOK' /\ CatalogStep
  OBVIOUS
<1>1. CASE UNCHANGED vars
  BY <1>1, QuietKeeps DEF vars, Quiet
<1>2. ASSUME NEW p \in Procs, LoadIndex(p) PROVE SaveOK' /\ CatalogStep
  <2> DEFINE d == job[p].index[pos[p]]
  <2>1. d \in Domains /\ pc[p] = "index"
    BY <1>2, IndexTyped DEF IInv, TypeOK, CallsTyped, JobOK, LoadIndex
  <2>2. \A o \in Procs : pc[o] # "save"
    BY <2>1, SaversAlone
  <2>3. /\ index' = [index EXCEPT ![d] = {}]
        /\ buf' = [buf EXCEPT ![p] = index[d] \cup {uid[p]}]
        /\ pc' = [pc EXCEPT ![p] = "save"]
        /\ UNCHANGED <<job, pos>>
    BY <1>2 DEF LoadIndex
  <2>4. \A e \in Domains : e = d => Saving(p, e)'
    BY <2>3 DEF Saving, IInv, TypeOK, CallsTyped
  <2>5. \A o \in Procs, e \in Domains : Saving(o, e)' => o = p /\ e = d
    BY <2>2, <2>3 DEF Saving, IInv, TypeOK, CallsTyped
  <2>6. SaveOK'
    BY <2>1, <2>3, <2>5 DEF SaveOK, IInv, TypeOK, FilesTyped
  <2>7. ASSUME NEW e \in Domains PROVE Catalog(e) \subseteq Catalog(e)'
    <3>1. Catalog(e) = index[e]
      BY <2>2 DEF Catalog
    <3>2. CASE e = d
      <4>1. index[d] \subseteq buf'[p]
        BY <2>3 DEF IInv, TypeOK, CallsTyped
      <4>2. buf'[p] \subseteq Catalog(e)'
        BY <2>4, <3>2 DEF Catalog, Saving
      <4>3. QED BY <3>1, <3>2, <4>1, <4>2
    <3>3. CASE e # d
      BY <2>3, <3>1, <3>3 DEF Catalog, IInv, TypeOK, FilesTyped
    <3>4. QED BY <3>2, <3>3
  <2>8. QED BY <2>6, <2>7 DEF CatalogStep
<1>3. ASSUME NEW p \in Procs, SaveIndex(p) PROVE SaveOK' /\ CatalogStep
  <2> DEFINE d == job[p].index[pos[p]]
  <2>1. d \in Domains /\ pc[p] = "save"
    BY <1>3, IndexTyped DEF IInv, TypeOK, CallsTyped, JobOK, SaveIndex
  <2>2. \A o \in Procs : pc[o] = "save" => o = p
    BY <2>1, SaversAlone
  <2>3. /\ index' = [index EXCEPT ![d] = buf[p]]
        /\ pc' = [pc EXCEPT ![p] = "index"]
    BY <1>3 DEF SaveIndex
  <2>4. \A o \in Procs : pc'[o] # "save"
    BY <2>2, <2>3 DEF IInv, TypeOK, CallsTyped
  <2>5. SaveOK'
    BY <2>4 DEF SaveOK, Saving
  <2>6. ASSUME NEW e \in Domains PROVE Catalog(e) \subseteq Catalog(e)'
    <3>1. Catalog(e)' = index'[e]
      BY <2>4 DEF Catalog
    <3>2. CASE e = d
      <4>1. index[d] = {}
        BY <2>1 DEF SaveOK, Saving
      <4>2. Catalog(d) \subseteq buf[p]
        BY <2>2, <4>1 DEF Catalog
      <4>3. QED BY <2>1, <2>3, <3>1, <3>2, <4>2 DEF IInv, TypeOK, FilesTyped
    <3>3. CASE e # d
      <4>1. Catalog(e) = index[e]
        BY <2>2, <3>3 DEF Catalog
      <4>2. QED BY <2>3, <3>1, <3>3, <4>1 DEF IInv, TypeOK, FilesTyped
    <3>4. QED BY <3>2, <3>3
  <2>7. QED BY <2>5, <2>6 DEF CatalogStep
<1>4. ASSUME NEW p \in Procs, IOError(p) \/ Die(p) PROVE SaveOK' /\ CatalogStep
  <2>1. errs \in Nat /\ deaths \in Nat /\ (errs' = errs + 1 \/ deaths' = deaths + 1)
    BY <1>4 DEF IInv, TypeOK, HistoryTyped, IOError, Die
  <2>2. CatalogStep
    BY <2>1 DEF CatalogStep
  <2>3. /\ UNCHANGED index
        /\ \A o \in Procs : pc'[o] = "save" => UNCHANGED <<pc[o], job[o], pos[o]>>
    BY <1>4 DEF IOError, Raise, Die, Return, IInv, TypeOK, CallsTyped
  <2>4. QED BY <2>2, <2>3 DEF SaveOK, Saving
<1>5. ASSUME NEW p \in Procs, Call(p) \/ Step(p) \/ RollbackFails(p)
      PROVE  SaveOK' /\ CatalogStep
  BY <1>2, <1>3, <1>5, QuietSteps, QuietKeeps
<1>6. QED BY <1>1, <1>4, <1>5 DEF Next, Exhausted, Fault

(* No entry of an index.md is lost to a concurrent apply, to a rename, to  *)
(* a rollback or to an undo: a catalogue grows as long as no OSError and   *)
(* no death cuts a save() in two.                                          *)
THEOREM CatalogCorrect == Spec => CatalogKept
<1>1. Init => SaveOK
  BY DEF Init, SaveOK, Saving
<1>2. Spec => [][CatalogStep]_vars
  BY <1>1, Invariant, CatalogKeeps, PTL DEF Spec
<1>3. CatalogStep <=> \A d \in Domains : Catalog(d) \subseteq Catalog(d)' \/ errs' > errs \/ deaths' > deaths
  BY DEF CatalogStep
<1>4. QED BY <1>2, <1>3, PTL DEF CatalogKept
-----------------------------------------------------------------------------
(***************************************************************************)
(* The rollback of VaultWriter.apply is right for every patch, every point *)
(* of failure and every number of processes.                               *)
(*                                                                         *)
(* The argument: at every moment of a call that nobody disturbs, the undo  *)
(* records taken so far determine the vault the call started from.  A note *)
(* with no record is as it was; of the records of one note the OLDEST      *)
(* holds what it was.  Rolling back the newest record keeps that, and with *)
(* no record left it says that the vault is the one the call found.        *)
(*                                                                         *)
(* Two more results rest on it: VaultWriter implements AtomicVault, and    *)
(* the undo file of the last call gives back the vault that call found.    *)
(***************************************************************************)
HIDE DEF Goto, InLock, InApply, ApplyForward, InRename, Reverting, TornPC, PCs, ioVars, callVars, histVars

(* rs undoes a call: from the notes n it leads back to the notes b.        *)
Oldest(rs, i) == \A j \in DOMAIN rs : j < i => rs[j].path # rs[i].path
Undoes(rs, n, b) ==
  /\ \A i \in DOMAIN rs : Oldest(rs, i) => rs[i].prev = b[rs[i].path]
  /\ \A x \in Notes : (\A i \in DOMAIN rs : rs[i].path # x) => n[x] = b[x]

LEMMA NothingToUndo == ASSUME NEW n PROVE Undoes(<<>>, n, n)
BY DEF Undoes

LEMMA NothingLeft ==
  ASSUME NEW n \in [Notes -> {NoNote} \cup Text], NEW b \in [Notes -> {NoNote} \cup Text],
         Undoes(<<>>, n, b)
  PROVE  n = b
<1>1. \A x \in Notes : n[x] = b[x]
  BY DEF Undoes
<1>2. QED BY <1>1

LEMMA UndoesAppend ==
  ASSUME NEW rs \in Seq(Rec), NEW n, NEW b, NEW x \in Notes, Undoes(rs, n, b),
         NEW r \in Rec, r = [path |-> x, prev |-> n[x]]
  PROVE  Undoes(Append(rs, r), n, b)
<1> DEFINE s == Append(rs, r)
<1>1. /\ Len(rs) \in Nat /\ DOMAIN rs = 1 .. Len(rs)
      /\ DOMAIN s = 1 .. Len(rs) + 1
      /\ \A i \in 1 .. Len(rs) : s[i] = rs[i]
      /\ s[Len(rs) + 1] = r
  BY AppendProperties, LenProperties
<1>2. ASSUME NEW i \in DOMAIN s, Oldest(s, i) PROVE s[i].prev = b[s[i].path]
  <2>1. CASE i \in DOMAIN rs
    <3>1. Oldest(rs, i)
      BY <1>1, <1>2, <2>1 DEF Oldest
    <3>2. QED BY <1>1, <2>1, <3>1 DEF Undoes
  <2>2. CASE i = Len(rs) + 1
    <3>1. \A j \in DOMAIN rs : rs[j].path # x
      BY <1>1, <1>2, <2>2 DEF Oldest
    <3>2. QED BY <1>1, <2>2, <3>1 DEF Undoes
  <2>3. QED BY <1>1, <2>1, <2>2
<1>3. ASSUME NEW y \in Notes, \A i \in DOMAIN s : s[i].path # y PROVE n[y] = b[y]
  BY <1>1, <1>3 DEF Undoes
<1>4. QED BY <1>2, <1>3 DEF Undoes

LEMMA UndoesWrite ==
  ASSUME NEW rs, NEW n \in [Notes -> {NoNote} \cup Text], NEW b, NEW text,
         NEW k \in DOMAIN rs, Undoes(rs, n, b)
  PROVE  Undoes(rs, [n EXCEPT ![rs[k].path] = text], b)
BY DEF Undoes

LEMMA WithoutNewest ==
  ASSUME NEW rs \in Seq(Rec), rs # <<>>
  PROVE  LET s == SubSeq(rs, 1, Len(rs) - 1)
         IN  /\ DOMAIN s = 1 .. Len(rs) - 1
             /\ \A i \in DOMAIN s : i \in DOMAIN rs /\ s[i] = rs[i]
<1> DEFINE s == SubSeq(rs, 1, Len(rs) - 1)
<1>1. Len(rs) \in Nat \ {0} /\ DOMAIN rs = 1 .. Len(rs)
  BY LenProperties, EmptySeq
<1>2. \A i \in 1 .. Len(rs) - 1 : rs[i] \in Rec
  BY <1>1, ElementOfSeq
<1>3. /\ s \in Seq(Rec)
      /\ Len(s) = Len(rs) - 1
      /\ \A i \in 1 .. Len(rs) - 1 : s[i] = rs[i]
  BY <1>1, <1>2, SubSeqProperties
<1>4. QED BY <1>1, <1>3, LenProperties

LEMMA UndoesNewest ==
  ASSUME NEW rs \in Seq(Rec), rs # <<>>, NEW n \in [Notes -> {NoNote} \cup Text], NEW b,
         Undoes(rs, n, b)
  PROVE  LET r == rs[Len(rs)]
         IN  Undoes(SubSeq(rs, 1, Len(rs) - 1), [n EXCEPT ![r.path] = r.prev], b)
<1> DEFINE s == SubSeq(rs, 1, Len(rs) - 1)
           r == rs[Len(rs)]
           m == [n EXCEPT ![r.path] = r.prev]
<1>1. Len(rs) \in Nat \ {0} /\ DOMAIN rs = 1 .. Len(rs)
  BY LenProperties, EmptySeq
<1>2. /\ DOMAIN s = 1 .. Len(rs) - 1
      /\ \A i \in DOMAIN s : s[i] = rs[i]
  BY WithoutNewest
<1>3. ASSUME NEW i \in DOMAIN s, Oldest(s, i) PROVE s[i].prev = b[s[i].path]
  <2>1. i \in DOMAIN rs /\ Oldest(rs, i)
    BY <1>1, <1>2, <1>3 DEF Oldest
  <2>2. QED BY <1>2, <2>1 DEF Undoes
<1>4. ASSUME NEW x \in Notes, \A i \in DOMAIN s : s[i].path # x PROVE m[x] = b[x]
  <2>1. CASE x = r.path
    <3>1. Len(rs) \in DOMAIN rs
      BY <1>1
    <3>2. \A j \in DOMAIN rs : j < Len(rs) => j \in DOMAIN s
      BY <1>1, <1>2
    <3>3. Oldest(rs, Len(rs))
      BY <1>2, <1>4, <2>1, <3>2 DEF Oldest
    <3>4. QED BY <2>1, <3>1, <3>3 DEF Undoes
  <2>2. CASE x # r.path
    <3>1. \A i \in DOMAIN rs : i \in DOMAIN s \/ i = Len(rs)
      BY <1>1, <1>2
    <3>2. \A i \in DOMAIN rs : rs[i].path # x
      BY <1>2, <1>4, <2>2, <3>1
    <3>3. QED BY <2>2, <3>2 DEF Undoes
  <2>3. QED BY <2>1, <2>2
<1>5. QED BY <1>3, <1>4 DEF Undoes

-----------------------------------------------------------------------------
(* The inductive invariant.                                                *)

USE DEF Goto, InLock, InApply, ApplyForward, InRename, Reverting, ioVars, callVars, histVars

Excusable == {"repeated", "torn"}

CallOK(p) ==
  /\ pc[p] \in {"idle", "acquire", "renaming"} => recs[p] = <<>>
  /\ pc[p] \in {"record", "write"} => NewestRecord(p).path = Path(job[p], pos[p])
  /\ pc[p] \in InApply /\ tainted[p] \subseteq Excusable => Undoes(recs[p], notes, before[p])

RollbackOK == \A p \in Procs : CallOK(p)

LEMMA RollbackOKSuffices == IInv /\ RollbackOK => RollbackRestores
<1> SUFFICES ASSUME IInv, RollbackOK, NEW p \in Procs, pc[p] = "rollback", recs[p] = <<>>,
                    tainted[p] \subseteq Excusable
             PROVE  notes = before[p]
  BY DEF RollbackRestores, Excusable
<1>1. Undoes(<<>>, notes, before[p])
  BY DEF RollbackOK, CallOK
<1>2. QED BY <1>1, NothingLeft DEF IInv, TypeOK, FilesTyped, HistoryTyped

(* A step of o leaves the locals of every other process p alone, and if p  *)
(* is in the lock the step does not touch the notes either, or taints p.   *)
Undisturbed(p) ==
  /\ UNCHANGED <<pc[p], job[p], uid[p], pos[p], recs[p], before[p]>>
  /\ pc[p] \in InLock \cup Reverting =>
       "raced" \in tainted'[p] \/ UNCHANGED <<tainted[p], notes>>
  /\ pc[p] \in InLock => UNCHANGED undo

LEMMA WriteNoteTaints ==
  ASSUME IInv, NEW o \in Procs, NEW p \in Procs, p # o, NEW x, NEW text,
         WriteNote(o, x, text)
  PROVE  pc[p] \in InLock \cup Reverting =>
           "raced" \in tainted'[p] \/ UNCHANGED <<tainted[p], notes>>
<1>1. CASE text = notes[x]
  BY <1>1 DEF WriteNote, IInv, TypeOK, FilesTyped, HistoryTyped
<1>2. CASE text # notes[x]
  BY <1>2 DEF WriteNote
<1>3. QED BY <1>1, <1>2

LEMMA OthersUndisturbed ==
  ASSUME IInv, NEW o \in Procs, Call(o) \/ Step(o) \/ Fault(o), NEW p \in Procs, p # o
  PROVE  Undisturbed(p)
<1> USE DEF IInv, TypeOK, CallsTyped, HistoryTyped, Undisturbed
<1>0. ~(pc[o] \in InLock /\ pc[p] \in InLock)
  BY DEF LockedAlone
<1>1. CASE Call(o)
  <2>1. ASSUME NEW q \in Patches, Apply(o, q) PROVE Undisturbed(p)
    BY <2>1 DEF Apply
  <2>2. ASSUME NEW r \in Renames, RenameFile(o, r) PROVE Undisturbed(p)
    BY <2>2 DEF RenameFile
  <2>3. ASSUME NEW i \in DOMAIN undo, Revert(o, i) PROVE Undisturbed(p)
    BY <2>3 DEF Revert
  <2>4. CASE UndoLast(o)
    BY <2>3, <2>4 DEF UndoLast, Revert
  <2>5. QED BY <1>1, <2>1, <2>2, <2>3, <2>4 DEF Call
<1>2. CASE LockStep(o)
  <2>1. CASE Acquire(o) BY <2>1 DEF Acquire
  <2>2. CASE AcquireTimeout(o) BY <2>2 DEF AcquireTimeout, Return
  <2>3. CASE RenameAcquire(o) BY <2>3 DEF RenameAcquire, Return
  <2>4. QED BY <1>2, <2>1, <2>2, <2>3 DEF LockStep
<1>3. CASE ApplyStep(o)
  <2>1. CASE PlanNewFile(o) BY <1>0, <2>1 DEF PlanNewFile, TakeRecord
  <2>2. CASE PlanEdit(o) BY <1>0, <2>2 DEF PlanEdit, AtEdit, TakeRecord
  <2>3. CASE WriteRecord(o) BY <1>0, <2>3 DEF WriteRecord
  <2>4. CASE Mutate(o) BY <2>4, WriteNoteTaints DEF Mutate
  <2>5. CASE FilesDone(o) BY <2>5 DEF FilesDone
  <2>6. CASE LoadIndex(o) BY <2>6 DEF LoadIndex
  <2>7. CASE SaveIndex(o) BY <2>7 DEF SaveIndex
  <2>8. CASE IndexDone(o) BY <2>8 DEF IndexDone
  <2>9. CASE AppendLog(o) BY <1>0, <2>9 DEF AppendLog
  <2>10. CASE BeginSeal(o) BY <1>0, <2>10 DEF BeginSeal
  <2>11. CASE Seal(o) BY <1>0, <2>11 DEF Seal, Return
  <2>12. CASE EditFails(o) BY <2>12 DEF EditFails, Raise
  <2>13. CASE Rollback(o) BY <2>13, WriteNoteTaints DEF Rollback
  <2>14. CASE Reraise(o) BY <2>14 DEF Reraise, Return
  <2>15. QED
    BY <1>3, <2>1, <2>2, <2>3, <2>4, <2>5, <2>6, <2>7, <2>8, <2>9, <2>10, <2>11, <2>12,
       <2>13, <2>14
    DEF ApplyStep
<1>4. CASE RenameStep(o)
  <2>1. CASE Move(o)
    <3>1. pc[p] \notin InLock
      BY <2>1 DEF Move, LockedAlone
    <3>2. QED BY <2>1, <3>1 DEF Move
  <2>2. CASE WriteRenameRecord(o) BY <1>0, <2>2 DEF WriteRenameRecord, Return
  <2>3. CASE RenameFails(o) BY <2>3 DEF RenameFails, Return
  <2>4. QED BY <1>4, <2>1, <2>2, <2>3 DEF RenameStep
<1>5. CASE RevertStep(o)
  <2>1. CASE RevertNew(o) BY <2>1, WriteNoteTaints DEF RevertNew, Skip
  <2>2. CASE RevertPrev(o) BY <2>2, WriteNoteTaints DEF RevertPrev
  <2>3. CASE Rewrite(o) BY <2>3, WriteNoteTaints DEF Rewrite, Skip
  <2>4. CASE RevertDone(o) BY <2>4 DEF RevertDone, Return
  <2>5. QED BY <1>5, <2>1, <2>2, <2>3, <2>4 DEF RevertStep
<1>6. CASE Fault(o)
  <2>1. CASE IOError(o) BY <2>1 DEF IOError, Raise
  <2>2. CASE RollbackFails(o) BY <2>2 DEF RollbackFails
  <2>3. CASE Die(o) BY <2>3 DEF Die, Return
  <2>4. QED BY <1>6, <2>1, <2>2, <2>3 DEF Fault
<1>7. QED BY <1>1, <1>2, <1>3, <1>4, <1>5, <1>6 DEF Step

LEMMA UndisturbedOK ==
  ASSUME NEW p \in Procs, CallOK(p), Undisturbed(p)
  PROVE  CallOK(p)'
<1>1. pc[p] \in InApply /\ tainted'[p] \subseteq Excusable
        => tainted'[p] = tainted[p] /\ notes' = notes
  BY DEF Undisturbed, Excusable
<1>2. QED BY <1>1 DEF CallOK, Undisturbed, NewestRecord

-----------------------------------------------------------------------------
(* The steps of the call itself.                                           *)

(* A step inside apply that takes no record and writes no note.            *)
LEMMA OnwardOK ==
  ASSUME NEW p \in Procs, CallOK(p), pc[p] \in InApply, pc'[p] \in InApply,
         pc'[p] \in {"record", "write"} => pc[p] \in {"record", "write"},
         UNCHANGED <<job[p], recs[p], before[p], notes>>,
         pc'[p] \in {"record", "write"} => UNCHANGED pos[p],
         tainted[p] \subseteq tainted'[p]
  PROVE  CallOK(p)'
BY DEF CallOK, NewestRecord

LEMMA ReturnOK ==
  ASSUME IInv, NEW p \in Procs, Return(p)
  PROVE  CallOK(p)'
BY DEF CallOK, Return, IInv, TypeOK, CallsTyped

LEMMA RecordOK ==
  ASSUME IInv, NEW p \in Procs, CallOK(p), pc[p] = "plan",
         NEW x \in Notes, x = Path(job[p], pos[p]), NEW prev \in {NoNote} \cup Text,
         TakeRecord(p, x, prev), tainted[p] \subseteq tainted'[p],
         tainted'[p] \subseteq Excusable => prev = notes[x]
  PROVE  CallOK(p)'
<1> DEFINE r == [path |-> x, prev |-> prev]
<1>1. recs[p] \in Seq(Rec) /\ r \in Rec
  BY DEF IInv, TypeOK, CallsTyped, Rec
<1>2. /\ recs'[p] = Append(recs[p], r)
      /\ pc'[p] = "record"
      /\ UNCHANGED <<job, pos, before, notes>>
  BY DEF TakeRecord, IInv, TypeOK, CallsTyped
<1>3. NewestRecord(p)' = r
  BY <1>1, <1>2, AppendProperties DEF NewestRecord
<1>4. tainted'[p] \subseteq Excusable => Undoes(recs'[p], notes, before[p])
  BY <1>1, <1>2, UndoesAppend DEF CallOK
<1>5. QED BY <1>2, <1>3, <1>4 DEF CallOK

LEMMA OwnStepOK ==
  ASSUME IInv, NEW p \in Procs, CallOK(p), Call(p) \/ Step(p) \/ Fault(p)
  PROVE  CallOK(p)'
<1> USE DEF IInv, TypeOK, CallsTyped, HistoryTyped
<1>1. CASE Call(p)
  <2>1. ASSUME NEW q \in Patches, Apply(p, q) PROVE CallOK(p)'
    BY <2>1 DEF Apply, CallOK
  <2>2. ASSUME NEW r \in Renames, RenameFile(p, r) PROVE CallOK(p)'
    BY <2>2 DEF RenameFile, CallOK
  <2>3. ASSUME NEW i \in DOMAIN undo, Revert(p, i) PROVE CallOK(p)'
    BY <2>3 DEF Revert, CallOK
  <2>4. CASE UndoLast(p)
    BY <2>3, <2>4 DEF UndoLast, Revert
  <2>5. QED BY <1>1, <2>1, <2>2, <2>3, <2>4 DEF Call
<1>2. CASE LockStep(p)
  <2>1. CASE Acquire(p)
    <3>1. recs'[p] = <<>> /\ before'[p] = notes' /\ pc'[p] = "plan"
      BY <2>1 DEF Acquire, CallOK
    <3>2. QED BY <3>1, NothingToUndo DEF CallOK
  <2>2. CASE AcquireTimeout(p) BY <2>2, ReturnOK DEF AcquireTimeout
  <2>3. CASE RenameAcquire(p)
    <3>1. Return(p) \/ pc'[p] = "move"
      BY <2>3 DEF RenameAcquire
    <3>2. QED BY <3>1, ReturnOK DEF CallOK
  <2>4. QED BY <1>2, <2>1, <2>2, <2>3 DEF LockStep
<1>3. CASE ApplyStep(p)
  <2>1. CASE PlanNewFile(p)
    <3>1. job[p] \in Patches
      BY <2>1 DEF JobOK, PlanNewFile
    <3> DEFINE x == job[p].new[pos[p]].path
    <3>2. x \in Notes /\ x = Path(job[p], pos[p])
      BY <2>1, <3>1, NewFileTyped DEF PlanNewFile, Path
    <3>3. TakeRecord(p, x, NoNote) /\ pc[p] = "plan"
      BY <2>1 DEF PlanNewFile
    <3>4. tainted'[p] = IF Exists(x) THEN tainted[p] \cup {"clobbered"} ELSE tainted[p]
      BY <2>1 DEF PlanNewFile
    <3>5. tainted'[p] \subseteq Excusable => notes[x] = NoNote
      <4>1. CASE Exists(x)
        <5>1. "clobbered" \in tainted'[p]
          BY <3>4, <4>1
        <5>2. QED BY <5>1 DEF Excusable
      <4>2. CASE ~Exists(x)
        BY <4>2 DEF Exists
      <4>3. QED BY <4>1, <4>2
    <3>6. QED BY <3>2, <3>3, <3>4, <3>5, RecordOK
  <2>2. CASE PlanEdit(p)
    <3> DEFINE x == EditOf(p).path
    <3>1. x \in Notes /\ x = Path(job[p], pos[p])
      <4>1. job[p] \in Patches
        BY <2>2 DEF JobOK, PlanEdit, AtEdit
      <4>2. pos[p] \in 1 .. PathCount(job[p]) /\ ~(pos[p] <= Len(job[p].new))
        BY <2>2, <4>1, PatchTyped, NewFilesCount DEF PlanEdit, AtEdit
      <4>3. QED BY <4>1, <4>2, EditTyped DEF EditOf, Path
    <3>2. TakeRecord(p, x, notes[x]) /\ UNCHANGED tainted /\ pc[p] = "plan"
      BY <2>2 DEF PlanEdit, AtEdit
    <3>3. notes[x] \in {NoNote} \cup Text
      BY <3>1 DEF FilesTyped
    <3>4. QED BY <3>1, <3>2, <3>3, RecordOK
  <2>3. CASE WriteRecord(p) BY <2>3, OnwardOK DEF WriteRecord
  <2>4. CASE Mutate(p)
    <3> DEFINE x == Path(job[p], pos[p])
    <3>1. recs[p] \in Seq(Rec) /\ recs[p] # <<>> /\ NewestRecord(p).path = x
      BY <2>4 DEF Mutate, JobOK, CallOK
    <3>2. Len(recs[p]) \in DOMAIN recs[p]
      BY <3>1, EmptySeq, LenProperties
    <3>3. notes' = [notes EXCEPT ![x] = NewText(p)] /\ UNCHANGED <<recs, before>>
      BY <2>4 DEF Mutate, WriteNote
    <3>4. pc'[p] = "plan" /\ tainted'[p] = tainted[p]
      BY <2>4 DEF Mutate, WriteNote
    <3>5. tainted[p] \subseteq Excusable => Undoes(recs[p], notes', before[p])
      BY <2>4, <3>1, <3>2, <3>3, UndoesWrite DEF CallOK, Mutate, FilesTyped, NewestRecord
    <3>6. QED BY <3>3, <3>4, <3>5 DEF CallOK
  <2>5. CASE FilesDone(p) BY <2>5, OnwardOK DEF FilesDone
  <2>6. CASE LoadIndex(p) BY <2>6, OnwardOK DEF LoadIndex
  <2>7. CASE SaveIndex(p) BY <2>7, OnwardOK DEF SaveIndex
  <2>8. CASE IndexDone(p) BY <2>8, OnwardOK DEF IndexDone
  <2>9. CASE AppendLog(p) BY <2>9, OnwardOK DEF AppendLog
  <2>10. CASE BeginSeal(p) BY <2>10, OnwardOK DEF BeginSeal
  <2>11. CASE Seal(p) BY <2>11, ReturnOK DEF Seal
  <2>12. CASE EditFails(p) BY <2>12, OnwardOK DEF EditFails, AtEdit, Raise
  <2>13. CASE Rollback(p)
    <3> DEFINE r == recs[p][Len(recs[p])]
    <3>1. recs[p] \in Seq(Rec) /\ recs[p] # <<>> /\ pc'[p] = "rollback" /\ pc[p] = "rollback"
      BY <2>13 DEF Rollback
    <3>2. /\ notes' = [notes EXCEPT ![r.path] = r.prev]
          /\ recs'[p] = SubSeq(recs[p], 1, Len(recs[p]) - 1)
          /\ tainted'[p] = tainted[p] /\ UNCHANGED before
      BY <2>13 DEF Rollback, WriteNote
    <3>3. ASSUME tainted[p] \subseteq Excusable PROVE Undoes(recs'[p], notes', before[p])
      <4>1. Undoes(recs[p], notes, before[p])
        BY <3>1, <3>3 DEF CallOK
      <4>2. notes \in [Notes -> {NoNote} \cup Text]
        BY DEF FilesTyped
      <4>3. Undoes(SubSeq(recs[p], 1, Len(recs[p]) - 1), [notes EXCEPT ![r.path] = r.prev],
                   before[p])
        BY <3>1, <4>1, <4>2, UndoesNewest
      <4>4. QED BY <3>2, <4>3
    <3>4. QED BY <3>1, <3>2, <3>3 DEF CallOK
  <2>14. CASE Reraise(p) BY <2>14, ReturnOK DEF Reraise
  <2>15. QED
    BY <1>3, <2>1, <2>2, <2>3, <2>4, <2>5, <2>6, <2>7, <2>8, <2>9, <2>10, <2>11, <2>12,
       <2>13, <2>14
    DEF ApplyStep
<1>4. CASE RenameStep(p)
  <2>1. CASE Move(p) BY <2>1 DEF Move, CallOK
  <2>2. CASE WriteRenameRecord(p) BY <2>2, ReturnOK DEF WriteRenameRecord
  <2>3. CASE RenameFails(p) BY <2>3, ReturnOK DEF RenameFails
  <2>4. QED BY <1>4, <2>1, <2>2, <2>3 DEF RenameStep
<1>5. CASE RevertStep(p)
  <2>1. CASE RevertNew(p) BY <2>1 DEF RevertNew, CallOK
  <2>2. CASE RevertPrev(p) BY <2>2 DEF RevertPrev, CallOK
  <2>3. CASE Rewrite(p) BY <2>3 DEF Rewrite, CallOK
  <2>4. CASE RevertDone(p) BY <2>4, ReturnOK DEF RevertDone
  <2>5. QED BY <1>5, <2>1, <2>2, <2>3, <2>4 DEF RevertStep
<1>6. CASE Fault(p)
  <2>1. CASE IOError(p) BY <2>1, OnwardOK DEF IOError, Raise
  <2>2. CASE RollbackFails(p)
    <3>1. "rollback error" \in tainted'[p] /\ pc'[p] = "rollback"
      BY <2>2 DEF RollbackFails
    <3>2. QED BY <3>1 DEF CallOK, Excusable
  <2>3. CASE Die(p) BY <2>3, ReturnOK DEF Die
  <2>4. QED BY <1>6, <2>1, <2>2, <2>3 DEF Fault
<1>7. QED BY <1>1, <1>2, <1>3, <1>4, <1>5, <1>6 DEF Step

-----------------------------------------------------------------------------
LEMMA RollbackOKKeeps == IInv /\ RollbackOK /\ [Next]_vars => RollbackOK'
<1> SUFFICES ASSUME IInv, RollbackOK, [Next]_vars, NEW p \in Procs PROVE CallOK(p)'
  BY DEF RollbackOK
<1>1. CallOK(p)
  BY DEF RollbackOK
<1>2. CASE UNCHANGED vars
  BY <1>1, <1>2 DEF vars, CallOK, NewestRecord
<1>3. ASSUME NEW o \in Procs, Call(o) \/ Step(o) \/ Fault(o) PROVE CallOK(p)'
  <2>1. CASE o = p
    BY <1>1, <1>3, <2>1, OwnStepOK
  <2>2. CASE o # p
    BY <1>1, <1>3, <2>2, OthersUndisturbed, UndisturbedOK
  <2>3. QED BY <2>1, <2>2
<1>4. QED BY <1>2, <1>3 DEF Next, Exhausted

(* When the rollback of apply is over, every note is as it was when the    *)
(* call took the lock: whatever step raised, however many edits of one     *)
(* note the patch had made, however many calls ran before.                 *)
THEOREM RollbackCorrect == Spec => []RollbackRestores
<1>1. Init => RollbackOK
  BY DEF Init, RollbackOK, CallOK
<1>2. Spec => [](IInv /\ RollbackOK)
  BY <1>1, Invariant, RollbackOKKeeps, PTL DEF Spec
<1>3. QED BY <1>2, RollbackOKSuffices, PTL

-----------------------------------------------------------------------------
(***************************************************************************)
(* The refinement: to a caller a call of apply is one step, its Seal, and  *)
(* a call of rename_file is its Move.  What an undisturbed call has        *)
(* written so far is what the atomic step would write.                     *)
(***************************************************************************)
Clean(p) == tainted[p] \cap {"raced", "clobbered", "repeated"} = {}

(* The paths of its patch a call has written.                              *)
Written(p) ==
  IF pc[p] \in {"plan", "record", "write"} THEN pos[p] - 1 ELSE PathCount(job[p])

(* The i-th path shows the text of the patch, an edit made in the text the *)
(* call found when it took the lock.                                       *)
EditFound(p, e) == before[p][e.path] # NoNote /\ e.old \subseteq before[p][e.path]
Shows(p, i) ==
  LET q == job[p]
      e == q.edits[i - Len(q.new)]
  IN  IF i <= Len(q.new) THEN notes[q.new[i].path] = q.new[i].text
      ELSE EditFound(p, e) /\ notes[e.path] = (before[p][e.path] \ e.old) \cup e.new

SoFar(p) ==
  /\ \A i \in 1 .. Written(p) : Shows(p, i)
  /\ \A x \in Notes : (\A i \in 1 .. Written(p) : Path(job[p], i) # x) => notes[x] = before[p][x]
  /\ pc[p] \in {"record", "write"} /\ pos[p] > Len(job[p].new) =>
       EditFound(p, EditOf(p)) /\ NewestRecord(p).prev = before[p][EditOf(p).path]

CommitOK(p) ==
  /\ pc[p] \in {"idle", "acquire"} => pos[p] = 1
  /\ pc[p] = "plan" => pos[p] <= PathCount(job[p]) + 1
  /\ pc[p] \in InApply /\ "raced" \notin tainted[p] =>
       "renamed" \notin tainted[p] /\ ("repeated" \in tainted[p] \/ ~Repeats(job[p]))
  /\ pc[p] \in ApplyForward /\ Clean(p) => SoFar(p)
  /\ pc[p] = "move" /\ "raced" \notin tainted[p] => ~Exists(job[p].dst)

LEMMA UndisturbedCommit ==
  ASSUME NEW p \in Procs, CommitOK(p), Undisturbed(p)
  PROVE  CommitOK(p)'
<1>1. CASE pc[p] \notin InLock
  BY <1>1 DEF CommitOK, Undisturbed
<1>2. CASE pc[p] \in InLock /\ "raced" \in tainted'[p]
  BY <1>2 DEF CommitOK, Undisturbed, Clean
<1>3. CASE pc[p] \in InLock /\ UNCHANGED <<tainted[p], notes>>
  <2>1. UNCHANGED <<pc[p], job[p], pos[p], recs[p], before[p]>>  BY DEF Undisturbed
  <2>2. SoFar(p) => SoFar(p)'
    BY <1>3, <2>1 DEF SoFar, Shows, Written, EditFound, EditOf, NewestRecord
  <2>3. Clean(p)' => Clean(p)  BY <1>3 DEF Clean
  <2> QED  BY <1>3, <2>1, <2>2, <2>3 DEF CommitOK, Exists
<1> QED  BY <1>1, <1>2, <1>3 DEF Undisturbed

(* A step inside apply that writes no note and plans none.                 *)
LEMMA OnwardCommit ==
  ASSUME NEW p \in Procs, CommitOK(p), pc[p] \in ApplyForward, pc'[p] \in InApply,
         UNCHANGED <<job[p], before[p], notes>>, tainted'[p] \in {tainted[p], tainted[p] \cup {"torn"}},
         \/ pc'[p] = "rollback"
         \/ /\ pc[p] \notin {"plan", "record", "write"}
            /\ pc'[p] \notin {"plan", "record", "write"}
         \/ /\ pc[p] = "record" /\ pc'[p] = "write"
            /\ UNCHANGED <<pos[p], recs[p]>>
  PROVE  CommitOK(p)'
<1>1. "raced" \notin tainted'[p] =>
        "renamed" \notin tainted'[p] /\ ("repeated" \in tainted'[p] \/ ~Repeats(job[p]))
  BY DEF CommitOK
<1>2. Clean(p)' => Clean(p)  BY DEF Clean
<1>3. pc'[p] \in ApplyForward /\ SoFar(p) => SoFar(p)'
  BY DEF SoFar, Shows, Written, EditFound, EditOf, NewestRecord
<1> QED  BY <1>1, <1>2, <1>3 DEF CommitOK, Repeats

LEMMA ReturnCommit ==
  ASSUME IInv, NEW p \in Procs, Return(p)
  PROVE  CommitOK(p)'
BY DEF CommitOK, Return, IInv, TypeOK, CallsTyped

(* New files and edits, numbered in one row.                               *)
LEMMA PathIndices ==
  ASSUME NEW q \in Patches
  PROVE  /\ \A i \in DOMAIN q.edits : /\ i + Len(q.new) \in 1 .. PathCount(q)
                                       /\ ~(i + Len(q.new) <= Len(q.new))
                                       /\ (i + Len(q.new)) - Len(q.new) = i
         /\ \A i \in DOMAIN q.new : i \in 1 .. PathCount(q) /\ i <= Len(q.new)
         /\ \A i \in 1 .. PathCount(q) : i <= Len(q.new) => i \in DOMAIN q.new
         /\ \A i \in 1 .. PathCount(q) : ~(i <= Len(q.new)) => i - Len(q.new) \in DOMAIN q.edits
<1>1. /\ DOMAIN q.new = 1 .. Len(q.new) /\ Len(q.new) \in Nat
      /\ DOMAIN q.edits = 1 .. Len(q.edits) /\ Len(q.edits) \in Nat
      /\ PathCount(q) = Len(q.new) + Len(q.edits)
  BY PatchTyped, LenProperties DEF PathCount
<1>2. ASSUME NEW m \in Nat, NEW n \in Nat
      PROVE  /\ \A i \in 1 .. n : i + m \in 1 .. m + n /\ ~(i + m <= m) /\ (i + m) - m = i
             /\ \A i \in 1 .. m : i \in 1 .. m + n /\ i <= m
             /\ \A i \in 1 .. m + n : i <= m => i \in 1 .. m
             /\ \A i \in 1 .. m + n : ~(i <= m) => i - m \in 1 .. n
  BY <1>2
<1> DEFINE m == Len(q.new)
           n == Len(q.edits)
<1>3. /\ m \in Nat /\ n \in Nat /\ PathCount(q) = m + n
      /\ DOMAIN q.new = 1 .. m /\ DOMAIN q.edits = 1 .. n
  BY <1>1
<1> HIDE DEF m, n
<1>4. /\ \A i \in DOMAIN q.edits : i + m \in 1 .. PathCount(q) /\ ~(i + m <= m) /\ (i + m) - m = i
      /\ \A i \in DOMAIN q.new : i \in 1 .. PathCount(q) /\ i <= m
      /\ \A i \in 1 .. PathCount(q) : i <= m => i \in DOMAIN q.new
      /\ \A i \in 1 .. PathCount(q) : ~(i <= m) => i - m \in DOMAIN q.edits
  BY ONLY <1>2, <1>3
<1> QED  BY <1>4 DEF m

LEMMA MutateCommit ==
  ASSUME IInv, NEW p \in Procs, CommitOK(p), CallOK(p), Mutate(p)
  PROVE  CommitOK(p)'
<1> USE DEF IInv, TypeOK, CallsTyped, HistoryTyped
<1> SUFFICES ASSUME NEW q, q = job[p], NEW k, k = pos[p]  PROVE CommitOK(p)'
  OBVIOUS
<1> DEFINE x == Path(q, k)
<1>1. /\ pc[p] = "write" /\ pc'[p] = "plan" /\ pos'[p] = k + 1
      /\ notes' = [notes EXCEPT ![x] = NewText(p)] /\ tainted'[p] = tainted[p]
      /\ job'[p] = q /\ before'[p] = before[p]
  BY DEF Mutate, WriteNote
<1>2. q \in Patches /\ k \in Nat \ {0} /\ k <= PathCount(q)
  BY <1>1 DEF JobOK
<1>3. Len(q.new) \in Nat /\ PathCount(q) \in Nat /\ x \in Notes
      /\ \A i \in 1 .. PathCount(q) : Path(q, i) \in Notes
  BY <1>2, PatchTyped, NewFilesCount
<1>4. notes'[x] = NewText(p) /\ \A y \in Notes : y # x => notes'[y] = notes[y]
  BY <1>1, <1>3 DEF FilesTyped
<1>5. SUFFICES ASSUME Clean(p)  PROVE SoFar(p)'
  <2>1. pos'[p] <= PathCount(job'[p]) + 1  BY <1>1, <1>2, <1>3
  <2>2. Repeats(job[p])' = Repeats(q)  BY <1>1 DEF Repeats
  <2>3. Clean(p)' => Clean(p)  BY <1>1 DEF Clean
  <2> QED  BY <1>1, <2>1, <2>2, <2>3 DEF CommitOK
<1>6. /\ ~Repeats(q) /\ SoFar(p)
      /\ Written(p) = k - 1 /\ Written(p)' = k
  <2>1. ~Repeats(q) /\ SoFar(p)  BY <1>1, <1>5 DEF CommitOK, Clean
  <2>2. Written(p) = pos[p] - 1 /\ Written(p)' = pos'[p] - 1  BY <1>1 DEF Written
  <2> QED  BY <1>1, <1>2, <2>1, <2>2
<1>7. ASSUME NEW i \in 1 .. k - 1  PROVE Shows(p, i)'
  <2>1. Shows(p, i) /\ i \in 1 .. PathCount(q) /\ Path(q, i) # x
    BY <1>2, <1>3, <1>6, <1>7 DEF SoFar, Repeats
  <2>2. notes'[Path(q, i)] = notes[Path(q, i)]  BY <1>3, <1>4, <2>1
  <2>3. Path(q, i) = IF i <= Len(q.new) THEN q.new[i].path ELSE q.edits[i - Len(q.new)].path
    BY DEF Path
  <2> QED  BY <1>1, <2>1, <2>2, <2>3 DEF Shows, EditFound
<1>8. Shows(p, k)'
  <2>1. CASE k <= Len(q.new)
    <3>1. x = q.new[k].path /\ NewText(p) = q.new[k].text  BY <2>1 DEF Path, NewText
    <3>2. notes'[q.new[k].path] = q.new[k].text  BY <1>4, <3>1
    <3>3. job'[p] = q  BY <1>1
    <3> QED  BY <2>1, <3>2, <3>3 DEF Shows
  <2>2. CASE ~(k <= Len(q.new))
    <3> DEFINE e == q.edits[k - Len(q.new)]
    <3>1. x = e.path /\ e = EditOf(p)  BY <2>2 DEF Path, EditOf
    <3>2. EditFound(p, e) /\ NewestRecord(p).prev = before[p][e.path]
      BY <1>1, <1>2, <1>3, <1>6, <2>2, <3>1 DEF SoFar
    <3>3. NewText(p) = (NewestRecord(p).prev \ e.old) \cup e.new
      BY <2>2, <3>1 DEF NewText, NewestRecord
    <3>4. notes'[e.path] = (before[p][e.path] \ e.old) \cup e.new  BY <1>4, <3>1, <3>2, <3>3
    <3>5. job'[p] = q /\ before'[p] = before[p]  BY <1>1
    <3>6. EditFound(p, e)'  BY <3>2, <3>5 DEF EditFound
    <3> QED  BY <2>2, <3>4, <3>5, <3>6 DEF Shows
  <2> QED  BY <2>1, <2>2
<1>9. ASSUME NEW y \in Notes, \A i \in 1 .. k : Path(q, i) # y  PROVE notes'[y] = before[p][y]
  <2>1. y # x /\ \A i \in 1 .. k - 1 : Path(q, i) # y  BY <1>2, <1>9
  <2> QED  BY <1>4, <1>6, <2>1 DEF SoFar
<1>10. \A i \in 1 .. Written(p)' : Shows(p, i)'
  <2> SUFFICES ASSUME NEW i \in 1 .. k  PROVE Shows(p, i)'
    BY <1>6
  <2>1. CASE i = k  BY <1>8, <2>1
  <2>2. CASE i # k
    <3>1. i \in 1 .. k - 1  BY <1>2, <2>2
    <3> QED  BY <1>7, <3>1
  <2> QED  BY <2>1, <2>2
<1>11. \A y \in Notes :
         (\A i \in 1 .. Written(p)' : Path(job'[p], i) # y) => notes'[y] = before'[p][y]
  <2>1. job'[p] = q /\ before'[p] = before[p]  BY <1>1
  <2> QED  BY <1>6, <1>9, <2>1
<1> QED  BY <1>1, <1>10, <1>11 DEF SoFar

(* A planned path has not been written yet, unless the patch repeats it.   *)
LEMMA PlannedAsFound ==
  ASSUME IInv, NEW p \in Procs, CommitOK(p), Clean(p), pc[p] = "plan",
         pos[p] <= PathCount(job[p])
  PROVE  LET x == Path(job[p], pos[p]) IN x \in Notes /\ notes[x] = before[p][x]
<1> USE DEF IInv, TypeOK, CallsTyped
<1> DEFINE x == Path(job[p], pos[p])
<1>1. ~Repeats(job[p]) /\ SoFar(p) /\ Written(p) = pos[p] - 1
  BY DEF Clean, CommitOK, Written
<1>2. job[p] \in Patches /\ pos[p] \in Nat \ {0}
  BY DEF JobOK
<1>3. PathCount(job[p]) \in Nat /\ x \in Notes
  BY <1>2, PatchTyped
<1>4. \A i \in 1 .. Written(p) : Path(job[p], i) # x
  <2> SUFFICES ASSUME NEW i \in 1 .. pos[p] - 1  PROVE Path(job[p], i) # x
    BY <1>1
  <2>1. i \in 1 .. PathCount(job[p]) /\ pos[p] \in 1 .. PathCount(job[p]) /\ i # pos[p]
    BY <1>2, <1>3
  <2> QED  BY <1>1, <2>1 DEF Repeats
<1> QED  BY <1>1, <1>3, <1>4 DEF SoFar

LEMMA PlanCommit ==
  ASSUME IInv, NEW p \in Procs, CommitOK(p), PlanNewFile(p) \/ PlanEdit(p)
  PROVE  CommitOK(p)'
<1> USE DEF IInv, TypeOK, CallsTyped, HistoryTyped
<1>1. /\ pc[p] = "plan" /\ pc'[p] = "record"
      /\ UNCHANGED <<notes, job, pos, before>>
      /\ tainted'[p] \in {tainted[p], tainted[p] \cup {"clobbered"}}
  BY DEF PlanNewFile, PlanEdit, AtEdit, TakeRecord
<1>2. "raced" \notin tainted'[p] =>
        "renamed" \notin tainted'[p] /\ ("repeated" \in tainted'[p] \/ ~Repeats(job[p]))
  BY <1>1 DEF CommitOK
<1>3. SUFFICES ASSUME Clean(p)'  PROVE SoFar(p)'
  BY <1>1, <1>2 DEF CommitOK, Repeats
<1>4. Clean(p) /\ SoFar(p)  BY <1>1, <1>3 DEF Clean, CommitOK
<1>5. Written(p)' = Written(p) /\ Written(p) = pos[p] - 1  BY <1>1 DEF Written
<1>6. /\ \A i \in 1 .. Written(p)' : Shows(p, i)'
      /\ \A x \in Notes :
           (\A i \in 1 .. Written(p)' : Path(job'[p], i) # x) => notes'[x] = before'[p][x]
  BY <1>1, <1>4, <1>5 DEF SoFar, Shows, EditFound
<1>7. ASSUME pos[p] > Len(job[p].new)
      PROVE  /\ EditFound(p, EditOf(p))'
             /\ NewestRecord(p).prev' = before'[p][EditOf(p)'.path]
  <2>1. job[p] \in Patches /\ pos[p] \in Nat \ {0} /\ Len(job[p].new) \in Nat
    BY <1>1, NewFilesCount DEF JobOK
  <2>2. PlanEdit(p)  BY <1>7, <2>1 DEF PlanNewFile
  <2>3. pos[p] <= PathCount(job[p]) /\ Matches(EditOf(p))
        /\ TakeRecord(p, EditOf(p).path, notes[EditOf(p).path])
    BY <2>2 DEF PlanEdit, AtEdit
  <2> DEFINE x == EditOf(p).path
             r == [path |-> x, prev |-> notes[x]]
  <2>4. x = Path(job[p], pos[p]) /\ PathCount(job[p]) \in Nat /\ x \in Notes
    BY <1>7, <2>1, <2>3, PatchTyped DEF EditOf, Path
  <2>6. notes[x] = before[p][x]  BY <1>1, <1>4, <2>3, <2>4, PlannedAsFound
  <2>7. recs[p] \in Seq(Rec) /\ r \in Rec /\ recs'[p] = Append(recs[p], r)
    BY <2>3, <2>4 DEF TakeRecord, FilesTyped, Rec
  <2>8. NewestRecord(p)' = r  BY <2>7, AppendProperties DEF NewestRecord
  <2>9. EditFound(p, EditOf(p))  BY <2>3, <2>6 DEF Matches, EditFound, Exists
  <2>10. EditOf(p)' = EditOf(p)  BY <1>1 DEF EditOf
  <2>11. before'[p] = before[p]  BY <1>1
  <2>12. NewestRecord(p).prev' = notes[x]
    <3>1. NewestRecord(p).prev' = r.prev  BY <2>8
    <3> QED  BY <3>1
  <2>13. EditFound(p, EditOf(p))'  BY <2>9, <2>10, <2>11 DEF EditFound
  <2> QED  BY <2>6, <2>10, <2>11, <2>12, <2>13
<1>8. pos'[p] = pos[p] /\ job'[p] = job[p]  BY <1>1
<1>9. pos'[p] > Len(job'[p].new) =>
        EditFound(p, EditOf(p))' /\ NewestRecord(p).prev' = before'[p][EditOf(p)'.path]
  BY <1>7, <1>8
<1> QED  BY <1>6, <1>9 DEF SoFar

LEMMA OwnCommit ==
  ASSUME IInv, NEW p \in Procs, CallOK(p), CommitOK(p), Call(p) \/ Step(p) \/ Fault(p)
  PROVE  CommitOK(p)'
<1> USE DEF IInv, TypeOK, CallsTyped, HistoryTyped
<1>1. CASE Call(p)
  <2>1. ASSUME NEW q \in Patches, Apply(p, q) PROVE CommitOK(p)'
    BY <2>1 DEF Apply, CommitOK
  <2>2. ASSUME NEW r \in Renames, RenameFile(p, r) PROVE CommitOK(p)'
    BY <2>2 DEF RenameFile, CommitOK
  <2>3. ASSUME NEW i \in DOMAIN undo, Revert(p, i) PROVE CommitOK(p)'
    BY <2>3 DEF Revert, CommitOK
  <2>4. CASE UndoLast(p)
    BY <2>3, <2>4 DEF UndoLast, Revert
  <2>5. QED BY <1>1, <2>1, <2>2, <2>3, <2>4 DEF Call
<1>2. CASE LockStep(p)
  <2>1. CASE Acquire(p)
    <3>1. /\ before'[p] = notes /\ notes' = notes /\ pc[p] = "acquire" /\ pc'[p] = "plan"
          /\ pos'[p] = 1 /\ job'[p] = job[p] /\ job[p] \in Patches
          /\ tainted'[p] = IF Repeats(job[p]) THEN {"repeated"} ELSE {}
      BY <2>1 DEF Acquire, CommitOK, JobOK
    <3>2. PathCount(job[p]) \in Nat  BY <3>1, PatchTyped
    <3>3. Written(p)' = 0  BY <3>1 DEF Written
    <3>4. SoFar(p)'  BY <3>1, <3>3 DEF SoFar
    <3>5. Repeats(job[p])' = Repeats(job[p])  BY <3>1 DEF Repeats
    <3> QED  BY <3>1, <3>2, <3>4, <3>5 DEF CommitOK
  <2>2. CASE AcquireTimeout(p) BY <2>2, ReturnCommit DEF AcquireTimeout
  <2>3. CASE RenameAcquire(p)
    <3>1. CASE Exists(job[p].src) /\ ~Exists(job[p].dst)
      <4>1. pc'[p] = "move" /\ UNCHANGED <<notes, job>>  BY <2>3, <3>1 DEF RenameAcquire
      <4> QED  BY <3>1, <4>1 DEF CommitOK, Exists
    <3>2. CASE ~(Exists(job[p].src) /\ ~Exists(job[p].dst))
      BY <2>3, <3>2, ReturnCommit DEF RenameAcquire
    <3> QED  BY <3>1, <3>2
  <2>4. QED BY <1>2, <2>1, <2>2, <2>3 DEF LockStep
<1>3. CASE ApplyStep(p)
  <2>1. CASE PlanNewFile(p) \/ PlanEdit(p) BY <2>1, PlanCommit
  <2>2. CASE Mutate(p) BY <2>2, MutateCommit
  <2>3. CASE WriteRecord(p) BY <2>3, OnwardCommit DEF WriteRecord
  <2>4. CASE FilesDone(p)
    <3>1. /\ pc[p] = "plan" /\ pc'[p] = "index" /\ pos[p] > PathCount(job[p])
          /\ UNCHANGED <<notes, job, before, tainted, recs>>
      BY <2>4 DEF FilesDone
    <3>2. job[p] \in Patches  BY <3>1 DEF JobOK
    <3>3. PathCount(job[p]) \in Nat  BY <3>2, PatchTyped
    <3>4. pos[p] - 1 = PathCount(job[p])  BY <3>1, <3>3 DEF CommitOK
    <3>5. Written(p)' = Written(p)  BY <3>1, <3>4 DEF Written
    <3>6. SoFar(p) => SoFar(p)'  BY <3>1, <3>5 DEF SoFar, Shows, EditFound
    <3>7. Clean(p)' => Clean(p)  BY <3>1 DEF Clean
    <3> QED  BY <3>1, <3>6, <3>7 DEF CommitOK, Repeats
  <2>5. CASE LoadIndex(p) BY <2>5, OnwardCommit DEF LoadIndex
  <2>6. CASE SaveIndex(p) BY <2>6, OnwardCommit DEF SaveIndex
  <2>7. CASE IndexDone(p) BY <2>7, OnwardCommit DEF IndexDone
  <2>8. CASE AppendLog(p) BY <2>8, OnwardCommit DEF AppendLog
  <2>9. CASE BeginSeal(p) BY <2>9, OnwardCommit DEF BeginSeal
  <2>10. CASE Seal(p) BY <2>10, ReturnCommit DEF Seal
  <2>11. CASE EditFails(p) BY <2>11, OnwardCommit DEF EditFails, AtEdit, Raise
  <2>12. CASE Rollback(p)
    <3>1. pc[p] = "rollback" /\ pc'[p] = "rollback" /\ tainted'[p] = tainted[p] /\ job' = job
      BY <2>12 DEF Rollback, WriteNote
    <3> QED  BY <3>1 DEF CommitOK, Repeats
  <2>13. CASE Reraise(p) BY <2>13, ReturnCommit DEF Reraise
  <2>14. QED
    BY <1>3, <2>1, <2>2, <2>3, <2>4, <2>5, <2>6, <2>7, <2>8, <2>9, <2>10, <2>11, <2>12, <2>13
    DEF ApplyStep
<1>4. CASE RenameStep(p)
  <2>1. CASE Move(p) BY <2>1 DEF Move, CommitOK
  <2>2. CASE WriteRenameRecord(p) BY <2>2, ReturnCommit DEF WriteRenameRecord
  <2>3. CASE RenameFails(p) BY <2>3, ReturnCommit DEF RenameFails
  <2>4. QED BY <1>4, <2>1, <2>2, <2>3 DEF RenameStep
<1>5. CASE RevertStep(p)
  <2>1. CASE RevertNew(p) BY <2>1 DEF RevertNew, CommitOK
  <2>2. CASE RevertPrev(p) BY <2>2 DEF RevertPrev, CommitOK
  <2>3. CASE Rewrite(p) BY <2>3 DEF Rewrite, CommitOK
  <2>4. CASE RevertDone(p) BY <2>4, ReturnCommit DEF RevertDone
  <2>5. QED BY <1>5, <2>1, <2>2, <2>3, <2>4 DEF RevertStep
<1>6. CASE Fault(p)
  <2>1. CASE IOError(p) BY <2>1, OnwardCommit DEF IOError, Raise
  <2>2. CASE RollbackFails(p)
    <3>1. pc[p] = "rollback" /\ pc'[p] = "rollback" /\ job' = job
          /\ tainted'[p] = tainted[p] \cup {"rollback error"}
      BY <2>2 DEF RollbackFails
    <3> QED  BY <3>1 DEF CommitOK, Repeats
  <2>3. CASE Die(p) BY <2>3, ReturnCommit DEF Die
  <2>4. QED BY <1>6, <2>1, <2>2, <2>3 DEF Fault
<1>7. QED BY <1>1, <1>2, <1>3, <1>4, <1>5, <1>6 DEF Step

CommitsOK == \A p \in Procs : CommitOK(p)

LEMMA CommitsOKKeeps == IInv /\ RollbackOK /\ CommitsOK /\ [Next]_vars => CommitsOK'
<1> SUFFICES ASSUME IInv, RollbackOK, CommitsOK, [Next]_vars, NEW p \in Procs PROVE CommitOK(p)'
  BY DEF CommitsOK
<1>1. CommitOK(p) /\ CallOK(p)
  BY DEF CommitsOK, RollbackOK
<1>2. CASE UNCHANGED vars
  <2>1. Undisturbed(p)  BY <1>2 DEF vars, Undisturbed
  <2> QED  BY <1>1, <2>1, UndisturbedCommit
<1>3. ASSUME NEW o \in Procs, Call(o) \/ Step(o) \/ Fault(o) PROVE CommitOK(p)'
  <2>1. CASE o = p
    BY <1>1, <1>3, <2>1, OwnCommit
  <2>2. CASE o # p
    BY <1>1, <1>3, <2>2, OthersUndisturbed, UndisturbedCommit
  <2>3. QED BY <2>1, <2>2
<1>4. QED BY <1>2, <1>3 DEF Next, Exhausted

(* The patch of an undisturbed call that seals is one step of AtomicVault. *)
LEMMA SealIsCommit ==
  ASSUME IInv, NEW p \in Procs, CommitOK(p), Clean(p), Seal(p)
  PROVE  \E q \in Patches : Atomic!Commit(q)
<1> USE DEF IInv, TypeOK, CallsTyped, HistoryTyped
<1> DEFINE q == job[p]
<1>1. pc[p] = "sealing" /\ lock = p /\ q \in Patches /\ notes' = notes /\ lock' = NoProc
  BY DEF Seal, Unlock, JobOK, LockedAlone
<1>2. Committed = before[p] /\ Committed' = notes
  BY <1>1, BoundsAssumption DEF Committed
<1>3. Written(p) = PathCount(q) /\ SoFar(p)  BY <1>1 DEF Written, CommitOK
<1>4. /\ q.new \in Seq([path : Notes, text : Text])
      /\ q.edits \in Seq([path : Notes, old : Text, new : Text])
  BY <1>1, PatchTyped

<1>5. /\ DOMAIN q.new = 1 .. Len(q.new) /\ Len(q.new) \in Nat
      /\ DOMAIN q.edits = 1 .. Len(q.edits) /\ Len(q.edits) \in Nat
      /\ PathCount(q) = Len(q.new) + Len(q.edits)
  BY <1>4, LenProperties DEF PathCount
<1>6. ASSUME NEW i \in DOMAIN q.edits
      PROVE  LET e == q.edits[i] IN
             /\ i + Len(q.new) \in 1 .. PathCount(q) /\ Path(q, i + Len(q.new)) = e.path
             /\ EditFound(p, e)
             /\ notes[e.path] = (before[p][e.path] \ e.old) \cup e.new
  <2>1. /\ i + Len(q.new) \in 1 .. PathCount(q) /\ ~(i + Len(q.new) <= Len(q.new))
        /\ (i + Len(q.new)) - Len(q.new) = i
    BY <1>1, <1>6, PathIndices
  <2>2. Shows(p, i + Len(q.new))  BY <1>3, <2>1 DEF SoFar
  <2> QED  BY <2>1, <2>2 DEF Shows, Path
<1>7. ASSUME NEW i \in DOMAIN q.new
      PROVE  /\ i \in 1 .. PathCount(q) /\ Path(q, i) = q.new[i].path
             /\ notes[q.new[i].path] = q.new[i].text
  <2>1. i \in 1 .. PathCount(q) /\ i <= Len(q.new)  BY <1>1, <1>7, PathIndices
  <2>2. Shows(p, i)  BY <1>3, <2>1 DEF SoFar
  <2> QED  BY <2>1, <2>2 DEF Shows, Path
<1>8. Atomic!Applicable(q)
  BY <1>2, <1>6 DEF Atomic!Applicable, EditFound
<1>9. DOMAIN Committed' = Notes  BY <1>2 DEF FilesTyped
<1>10. ASSUME NEW x \in Notes
       PROVE  \/ Atomic!NewFileAt(q, x, Committed'[x])
              \/ Atomic!EditAt(q, x, Committed'[x])
              \/ Atomic!Untouched(q, x) /\ Committed'[x] = Committed[x]
  <2>1. CASE \E i \in DOMAIN q.new : q.new[i].path = x
    <3>1. PICK i \in DOMAIN q.new : q.new[i].path = x  BY <2>1
    <3>2. q.new[i] \in [path : Notes, text : Text]  BY <1>4, <1>5, ElementOfSeq
    <3>3. q.new[i] = [path |-> x, text |-> notes[x]]  BY <1>7, <3>1, <3>2
    <3> QED  BY <1>2, <3>3 DEF Atomic!NewFileAt
  <2>2. CASE \E i \in DOMAIN q.edits : q.edits[i].path = x
    BY <1>2, <1>6, <2>2 DEF Atomic!EditAt
  <2>3. CASE Atomic!Untouched(q, x)
    <3>1. \A i \in 1 .. PathCount(q) : Path(q, i) # x
      <4> SUFFICES ASSUME NEW i \in 1 .. PathCount(q)  PROVE Path(q, i) # x
        OBVIOUS
      <4>1. CASE i <= Len(q.new)
        <5>1. i \in DOMAIN q.new  BY <1>1, <4>1, PathIndices
        <5> QED  BY <1>7, <2>3, <5>1 DEF Atomic!Untouched
      <4>2. CASE ~(i <= Len(q.new))
        <5>1. i - Len(q.new) \in DOMAIN q.edits  BY <1>1, <4>2, PathIndices
        <5> QED  BY <2>3, <4>2, <5>1 DEF Atomic!Untouched, Path
      <4> QED  BY <4>1, <4>2
    <3>2. notes[x] = before[p][x]  BY <1>3, <3>1 DEF SoFar
    <3> QED  BY <1>2, <2>3, <3>2
  <2> QED  BY <2>1, <2>2, <2>3 DEF Atomic!Untouched
<1> QED  BY <1>1, <1>8, <1>9, <1>10 DEF Atomic!Commit

LEMMA MoveIsRename ==
  ASSUME IInv, NEW p \in Procs, CommitOK(p), "raced" \notin tainted[p], Move(p)
  PROVE  \E r \in Renames : Atomic!Rename(r)
<1> USE DEF IInv, TypeOK, CallsTyped
<1>1. /\ pc[p] = "move" /\ lock = p /\ job[p] \in Renames /\ lock' = p /\ pc'[p] = "moved"
      /\ Exists(job[p].src)
      /\ notes' = [notes EXCEPT ![job[p].src] = NoNote, ![job[p].dst] = notes[job[p].src]]
  BY DEF Move, JobOK, LockedAlone
<1>2. Committed = notes /\ Committed' = notes'  BY <1>1 DEF Committed
<1>3. ~Exists(job[p].dst)  BY <1>1 DEF CommitOK
<1> QED  BY <1>1, <1>2, <1>3 DEF Atomic!Rename, Exists

(* Every other step leaves what a caller would find as it is.              *)
LEMMA AtomicStep ==
  ASSUME IInv, RollbackOK, CommitsOK, [Next]_vars
  PROVE  [Atomic!Next]_Committed
<1> USE DEF IInv, TypeOK, CallsTyped, HistoryTyped
<1>1. SUFFICES ASSUME ~Disturbed, ~Disturbed'
               PROVE  [Atomic!Next]_Committed
  BY DEF Atomic!Next
<1>2. \A p \in Procs :
        /\ pc[p] \notin Reverting
        /\ tainted[p] \cap {"raced", "rollback error", "clobbered", "repeated"} = {}
  BY <1>1 DEF Disturbed
<1>3. CASE UNCHANGED vars
  BY <1>3 DEF vars, Committed
<1>4. ASSUME NEW o \in Procs, Call(o) \/ Step(o) \/ Fault(o)
      PROVE  [Atomic!Next]_Committed
  <2>1. CommitOK(o) /\ Clean(o) /\ CallOK(o) /\ (pc[o] \in InLock <=> lock = o)
    BY <1>2 DEF CommitsOK, RollbackOK, Clean, LockedAlone
  <2>2. ASSUME pc[o] \notin InLock, pc'[o] \notin InLock, UNCHANGED <<notes, lock>>,
               \A p \in Procs \ {o} : pc'[p] = pc[p] /\ before'[p] = before[p]
        PROVE  Committed' = Committed
    <3>1. lock # o  BY <2>1, <2>2
    <3> QED  BY <2>2, <3>1 DEF Committed
  <2>3. ASSUME pc[o] \in InApply, pc'[o] \in InApply, UNCHANGED lock, before'[o] = before[o]
        PROVE  Committed' = Committed
    BY <2>1, <2>3 DEF Committed
  <2>4. CASE Call(o)
    <3>1. ASSUME NEW q \in Patches, Apply(o, q) PROVE Committed' = Committed
      BY <2>2, <3>1 DEF Apply
    <3>2. ASSUME NEW r \in Renames, RenameFile(o, r) PROVE Committed' = Committed
      BY <2>2, <3>2 DEF RenameFile
    <3>3. ASSUME NEW i \in DOMAIN undo, Revert(o, i) PROVE Committed' = Committed
      BY <2>2, <3>3 DEF Revert
    <3>4. CASE UndoLast(o)
      BY <3>3, <3>4 DEF UndoLast, Revert
    <3> QED BY <2>4, <3>1, <3>2, <3>3, <3>4 DEF Call
  <2>5. CASE LockStep(o)
    <3>1. CASE Acquire(o)
      <4>1. lock = NoProc /\ lock' = o /\ before'[o] = notes /\ pc'[o] = "plan"
        BY <3>1 DEF Acquire
      <4> QED  BY <4>1, BoundsAssumption DEF Committed
    <3>2. CASE AcquireTimeout(o)
      BY <2>2, <3>2 DEF AcquireTimeout, Return
    <3>3. CASE RenameAcquire(o)
      <4>1. lock = NoProc /\ notes' = notes  BY <3>3 DEF RenameAcquire
      <4>2. (lock' = o /\ pc'[o] = "move") \/ lock' = NoProc
        BY <3>3, <4>1 DEF RenameAcquire
      <4>3. Committed = notes  BY <4>1, BoundsAssumption DEF Committed
      <4>4. Committed' = notes'  BY <4>2, BoundsAssumption DEF Committed
      <4> QED  BY <4>1, <4>3, <4>4
    <3> QED BY <2>5, <3>1, <3>2, <3>3 DEF LockStep
  <2>6. CASE ApplyStep(o)
    <3>1. CASE PlanNewFile(o) BY <2>3, <3>1 DEF PlanNewFile, TakeRecord
    <3>2. CASE PlanEdit(o) BY <2>3, <3>2 DEF PlanEdit, AtEdit, TakeRecord
    <3>3. CASE WriteRecord(o) BY <2>3, <3>3 DEF WriteRecord
    <3>4. CASE Mutate(o) BY <2>3, <3>4 DEF Mutate
    <3>5. CASE FilesDone(o) BY <2>3, <3>5 DEF FilesDone
    <3>6. CASE LoadIndex(o) BY <2>3, <3>6 DEF LoadIndex
    <3>7. CASE SaveIndex(o) BY <2>3, <3>7 DEF SaveIndex
    <3>8. CASE IndexDone(o) BY <2>3, <3>8 DEF IndexDone
    <3>9. CASE AppendLog(o) BY <2>3, <3>9 DEF AppendLog
    <3>10. CASE BeginSeal(o) BY <2>3, <3>10 DEF BeginSeal
    <3>11. CASE Seal(o)
      BY <2>1, <3>11, SealIsCommit DEF Atomic!Next
    <3>12. CASE EditFails(o) BY <2>3, <3>12 DEF EditFails, AtEdit, Raise
    <3>13. CASE Rollback(o) BY <2>3, <3>13 DEF Rollback
    <3>14. CASE Reraise(o)
      <4>1. pc[o] = "rollback" /\ recs[o] = <<>> /\ notes' = notes /\ lock = o /\ lock' = NoProc
        BY <2>1, <3>14 DEF Reraise, Unlock
      <4>2. tainted[o] \subseteq Excusable
        BY <1>2, <2>1, <4>1 DEF CommitOK, Excusable, Taints
      <4>3. notes = before[o]
        <5>1. Undoes(<<>>, notes, before[o])  BY <2>1, <4>1, <4>2 DEF CallOK
        <5> QED  BY <5>1, NothingLeft DEF FilesTyped
      <4>4. Committed = before[o] /\ Committed' = notes
        BY <4>1, BoundsAssumption DEF Committed
      <4> QED  BY <4>3, <4>4
    <3> QED
      BY <2>6, <3>1, <3>2, <3>3, <3>4, <3>5, <3>6, <3>7, <3>8, <3>9, <3>10, <3>11, <3>12,
         <3>13, <3>14
      DEF ApplyStep
  <2>7. CASE RenameStep(o)
    <3>1. CASE Move(o)
      BY <2>1, <3>1, MoveIsRename DEF Atomic!Next, Clean
    <3>2. CASE WriteRenameRecord(o) \/ RenameFails(o)
      <4>1. pc[o] \in InRename /\ notes' = notes /\ lock = o /\ lock' = NoProc
        BY <2>1, <3>2 DEF WriteRenameRecord, RenameFails, Unlock
      <4>2. Committed = notes /\ Committed' = notes
        BY <4>1, BoundsAssumption DEF Committed
      <4> QED  BY <4>2
    <3> QED BY <2>7, <3>1, <3>2 DEF RenameStep
  <2>8. CASE RevertStep(o)
    BY <1>2, <2>8 DEF RevertStep, RevertNew, RevertPrev, Rewrite, RevertDone
  <2>9. CASE Fault(o)
    <3>1. CASE IOError(o) BY <2>3, <3>1 DEF IOError, Raise
    <3>2. CASE RollbackFails(o) BY <2>3, <3>2 DEF RollbackFails
    <3>3. CASE Die(o)
      <4>1. deaths' = deaths + 1 /\ deaths \in Nat  BY <3>3 DEF Die
      <4>2. deaths' > 0  BY <4>1
      <4> QED  BY <1>1, <4>2 DEF Disturbed
    <3> QED BY <2>9, <3>1, <3>2, <3>3 DEF Fault
  <2> QED BY <1>4, <2>4, <2>5, <2>6, <2>7, <2>8, <2>9 DEF Step
<1> QED BY <1>3, <1>4 DEF Next, Exhausted

(* VaultWriter implements AtomicVault: while no revert runs and no process *)
(* has died in a call, apply and rename_file (vault/writer.py) are one     *)
(* step each to whoever takes the lock next, or none if they raise.        *)
THEOREM AtomicCorrect == Spec => ImplementsAtomicVault
<1>1. Init => Atomic!Init /\ CommitsOK /\ RollbackOK
  <2> SUFFICES ASSUME Init  PROVE Atomic!Init /\ CommitsOK /\ RollbackOK
    OBVIOUS
  <2>1. Committed = InitialNotes /\ ~Disturbed
    BY BoundsAssumption DEF Init, Committed, Disturbed
  <2>2. CommitsOK /\ RollbackOK  BY DEF Init, CommitsOK, CommitOK, RollbackOK, CallOK
  <2> QED  BY <2>1, <2>2 DEF Atomic!Init
<1>2. Spec => [](IInv /\ RollbackOK /\ CommitsOK)
  BY <1>1, Invariant, RollbackOKKeeps, CommitsOKKeeps, PTL DEF Spec
<1>3. QED BY <1>1, <1>2, AtomicStep, PTL DEF Spec, ImplementsAtomicVault, Atomic!Spec
-----------------------------------------------------------------------------
(***************************************************************************)
(* Undo: the file that a call leaves behind covers every note the call has *)
(* touched, at every moment at which it can die.                           *)
(***************************************************************************)
USE DEF TornPC

Covers(rs, n, b) ==
  /\ \A i \in DOMAIN rs : rs[i].prev = b[rs[i].path]
  /\ \A x \in Notes : (\A i \in DOMAIN rs : rs[i].path # x) => n[x] = b[x]

LEMMA CoversAppend ==
  ASSUME NEW rs \in Seq(Rec), NEW n, NEW b, NEW r \in Rec, Covers(rs, n, b),
         r.prev = b[r.path]
  PROVE  Covers(Append(rs, r), n, b)
<1> DEFINE s == Append(rs, r)
<1>1. /\ DOMAIN s = DOMAIN rs \cup {Len(rs) + 1}
      /\ \A i \in DOMAIN rs : s[i] = rs[i]
      /\ s[Len(rs) + 1] = r
  BY AppendProperties, LenProperties
<1> HIDE DEF s
<1> QED  BY <1>1 DEF Covers, s

LEMMA CoversWrite ==
  ASSUME NEW rs, NEW n \in [Notes -> {NoNote} \cup Text], NEW b, NEW x, NEW text,
         Covers(rs, n, b), text = b[x] \/ \E i \in DOMAIN rs : rs[i].path = x
  PROVE  Covers(rs, [n EXCEPT ![x] = text], b)
BY DEF Covers

(* The first record is done, whatever the others say of its note.          *)
LEMMA CoversTail ==
  ASSUME NEW rs \in Seq(Rec), rs # <<>>, NEW n \in [Notes -> {NoNote} \cup Text], NEW b,
         Covers(rs, n, b)
  PROVE  Covers(Tail(rs), [n EXCEPT ![Head(rs).path] = Head(rs).prev], b)
<1> DEFINE s == Tail(rs)
<1>1. /\ Len(rs) \in Nat \ {0} /\ DOMAIN rs = 1 .. Len(rs) /\ Head(rs) = rs[1]
      /\ s \in Seq(Rec) /\ Len(s) = Len(rs) - 1
      /\ \A i \in 1 .. Len(s) : s[i] = rs[i + 1]
  BY LenProperties, EmptySeq, HeadTailProperties
<1>2. DOMAIN s = 1 .. Len(rs) - 1
  BY <1>1, LenProperties
<1>3. \A i \in DOMAIN s : i + 1 \in DOMAIN rs /\ s[i] = rs[i + 1]
  BY <1>1, <1>2
<1>4. \A i \in DOMAIN rs : i = 1 \/ (i - 1 \in DOMAIN s /\ rs[i] = s[i - 1])
  <2> SUFFICES ASSUME NEW i \in DOMAIN rs, i # 1  PROVE i - 1 \in DOMAIN s /\ rs[i] = s[i - 1]
    OBVIOUS
  <2>1. i - 1 \in DOMAIN s /\ (i - 1) + 1 = i  BY <1>1, <1>2
  <2> QED  BY <1>3, <2>1
<1>5. 1 \in DOMAIN rs  BY <1>1
<1> HIDE DEF s
<1>6. \A i \in DOMAIN s : s[i].prev = b[s[i].path]  BY <1>3 DEF Covers
<1>7. ASSUME NEW x \in Notes, \A i \in DOMAIN s : s[i].path # x
      PROVE  [n EXCEPT ![Head(rs).path] = Head(rs).prev][x] = b[x]
  <2>1. CASE x = Head(rs).path  BY <1>1, <1>5, <2>1 DEF Covers
  <2>2. CASE x # Head(rs).path
    <3>1. \A i \in DOMAIN rs : rs[i].path # x  BY <1>1, <1>4, <1>7, <2>2
    <3> QED  BY <2>2, <3>1 DEF Covers
  <2> QED  BY <2>1, <2>2
<1> QED  BY <1>6, <1>7 DEF Covers, s

LEMMA CoversNone ==
  ASSUME NEW n \in [Notes -> {NoNote} \cup Text], NEW b \in [Notes -> {NoNote} \cup Text]
  PROVE  Covers(<<>>, n, b) <=> n = b
<1>1. Covers(<<>>, n, b) <=> \A x \in Notes : n[x] = b[x]  BY DEF Covers
<1> QED  BY <1>1

(* Undo ids: a call that will write an undo file has one that no other     *)
(* such call has, nor the call that ended last.                            *)
Writing == {"acquire", "moved"} \cup InApply

IdsOK ==
  /\ last # NoCommit => last.id \in 0 .. clock
  /\ \A p \in Procs : pc[p] = "acquire" => uid[p] \notin DOMAIN undo
  /\ \A p \in Procs : pc[p] \in Writing /\ last # NoCommit => uid[p] # last.id
  /\ \A p, o \in Procs : p # o /\ pc[p] \in Writing /\ pc[o] \in Writing => uid[p] # uid[o]

(* What the file of the last call says, until somebody else ends.          *)
LastOK ==
  last # NoCommit /\ last.tainted = {} /\ last.id \in DOMAIN undo =>
    Covers(undo[last.id].recs, last.after, last.before)

CoverOK(p) ==
  /\ pc[p] \in InRename => tainted[p] # {}
  /\ pc[p] \in Reverting /\ tainted[p] = {} => Covers(recs[p], notes, before[p])
  /\ pc[p] \in InApply /\ Clean(p) =>
       \A i \in DOMAIN recs[p] : recs[p][i].prev = before[p][recs[p][i].path]
  /\ pc[p] \in ApplyForward /\ Clean(p) => Covers(recs[p], notes, before[p])
  /\ pc[p] \in ApplyForward \ TornPC /\ uid[p] \in DOMAIN undo => undo[uid[p]].recs = recs[p]
  /\ pc[p] = "rollback" /\ Clean(p) /\ "torn" \notin tainted[p] /\ uid[p] \in DOMAIN undo =>
       Covers(undo[uid[p]].recs, notes, before[p])

LEMMA UndisturbedCover ==
  ASSUME NEW p \in Procs, CoverOK(p), Undisturbed(p)
  PROVE  CoverOK(p)'
<1>1. CASE pc[p] \notin InLock \cup Reverting
  BY <1>1 DEF CoverOK, Undisturbed
<1>2. CASE pc[p] \in InLock \cup Reverting /\ "raced" \in tainted'[p]
  <2>1. tainted'[p] # {} /\ ~Clean(p)'  BY <1>2 DEF Clean
  <2> QED  BY <1>2, <2>1 DEF CoverOK, Undisturbed
<1>3. CASE pc[p] \in InLock \cup Reverting /\ UNCHANGED <<tainted[p], notes>>
  <2>1. Clean(p)' = Clean(p)  BY <1>3 DEF Clean
  <2> QED  BY <1>3, <2>1 DEF CoverOK, Undisturbed
<1> QED  BY <1>1, <1>2, <1>3 DEF Undisturbed

(* A step inside apply that takes no record and writes neither a note nor  *)
(* the undo file.                                                          *)
LEMMA OnwardCover ==
  ASSUME NEW p \in Procs, CoverOK(p), pc[p] \in ApplyForward \ TornPC,
         pc'[p] \in ApplyForward \ TornPC,
         UNCHANGED <<recs[p], uid[p], before[p], tainted[p], notes, undo>>
  PROVE  CoverOK(p)'
<1>1. Clean(p)' = Clean(p)  BY DEF Clean
<1> QED  BY <1>1 DEF CoverOK

LEMMA RaiseCover ==
  ASSUME IInv, NEW p \in Procs, CoverOK(p), pc[p] \in ApplyForward, Raise(p)
  PROVE  CoverOK(p)'
<1> USE DEF IInv, TypeOK, CallsTyped, HistoryTyped
<1>1. /\ pc'[p] = "rollback"
      /\ UNCHANGED <<recs[p], uid[p], before[p], notes, undo>>
      /\ tainted'[p] = IF pc[p] \in TornPC THEN tainted[p] \cup {"torn"} ELSE tainted[p]
  BY DEF Raise
<1>2. Clean(p)' => Clean(p)  BY <1>1 DEF Clean
<1>3. CASE pc[p] \in TornPC
  <2>1. "torn" \in tainted'[p]  BY <1>1, <1>3
  <2> QED  BY <1>1, <1>2, <2>1 DEF CoverOK
<1>4. CASE pc[p] \notin TornPC
  <2>1. uid[p] \in DOMAIN undo /\ Clean(p) => Covers(undo[uid[p]].recs, notes, before[p])
    BY <1>4 DEF CoverOK
  <2> QED  BY <1>1, <1>2, <2>1 DEF CoverOK
<1> QED  BY <1>3, <1>4

LEMMA ReturnCover ==
  ASSUME IInv, NEW p \in Procs, Return(p)
  PROVE  CoverOK(p)'
BY DEF CoverOK, Return, IInv, TypeOK, CallsTyped

(* The record taken is of a note as the call found it.                     *)
LEMMA RecordCover ==
  ASSUME IInv, NEW p \in Procs, CommitOK(p), CoverOK(p), pc[p] = "plan",
         NEW x, x = Path(job[p], pos[p]), pos[p] <= PathCount(job[p]),
         NEW prev \in {NoNote} \cup Text, TakeRecord(p, x, prev),
         tainted[p] \subseteq tainted'[p], Clean(p)' => prev = notes[x]
  PROVE  CoverOK(p)'
<1> USE DEF IInv, TypeOK, CallsTyped, HistoryTyped
<1> DEFINE r == [path |-> x, prev |-> prev]
<1>1. /\ recs[p] \in Seq(Rec) /\ recs'[p] = Append(recs[p], r)
      /\ pc'[p] = "record" /\ UNCHANGED <<before, notes>>
  BY DEF TakeRecord
<1>2. ASSUME Clean(p)'  PROVE Covers(recs'[p], notes, before[p])
  <2>1. Clean(p)  BY <1>2 DEF Clean
  <2>2. x \in Notes /\ prev = before[p][x]  BY <1>2, <2>1, PlannedAsFound
  <2>3. r \in Rec /\ r.prev = before[p][r.path]  BY <2>2 DEF Rec
  <2>4. Covers(recs[p], notes, before[p])  BY <2>1 DEF CoverOK
  <2> HIDE DEF r
  <2> QED  BY <1>1, <2>3, <2>4, CoversAppend
<1> QED  BY <1>1, <1>2 DEF CoverOK, Covers

LEMMA ApplyCover ==
  ASSUME IInv, NEW p \in Procs, CallOK(p), CommitOK(p), CoverOK(p), ApplyStep(p)
  PROVE  CoverOK(p)'
<1> USE DEF IInv, TypeOK, CallsTyped, HistoryTyped
<1>1. CASE PlanNewFile(p)
  <2>1. job[p] \in Patches /\ pc[p] = "plan" /\ pos[p] <= Len(job[p].new)
    BY <1>1 DEF JobOK, PlanNewFile
  <2> DEFINE x == job[p].new[pos[p]].path
  <2>2. x = Path(job[p], pos[p]) /\ pos[p] <= PathCount(job[p])
    BY <2>1, FewerNewFiles, NewFilesCount, PatchTyped DEF Path
  <2>3. TakeRecord(p, x, NoNote)
        /\ tainted'[p] = IF Exists(x) THEN tainted[p] \cup {"clobbered"} ELSE tainted[p]
    BY <1>1 DEF PlanNewFile
  <2>4. Clean(p)' => NoNote = notes[x]
    BY <2>3 DEF Clean, Exists
  <2> QED  BY <2>1, <2>2, <2>3, <2>4, RecordCover
<1>2. CASE PlanEdit(p)
  <2>1. /\ job[p] \in Patches /\ pc[p] = "plan"
        /\ pos[p] > Len(job[p].new) /\ pos[p] <= PathCount(job[p])
    BY <1>2 DEF JobOK, PlanEdit, AtEdit
  <2> DEFINE x == EditOf(p).path
  <2>2. x = Path(job[p], pos[p]) /\ x \in Notes
    BY <2>1, NewFilesCount, PatchTyped DEF EditOf, Path
  <2>3. TakeRecord(p, x, notes[x]) /\ tainted' = tainted
    BY <1>2 DEF PlanEdit
  <2>4. notes[x] \in {NoNote} \cup Text
    BY <2>2 DEF FilesTyped
  <2> QED  BY <2>1, <2>2, <2>3, <2>4, RecordCover
<1>3. CASE WriteRecord(p)
  <2>1. /\ pc[p] = "record" /\ pc'[p] = "write"
        /\ UNCHANGED <<recs, uid, before, tainted, notes>>
        /\ undo'[uid[p]] = FilesRecord(recs[p])
    BY <1>3 DEF WriteRecord, WriteUndo
  <2>2. Clean(p)' = Clean(p)  BY <2>1 DEF Clean
  <2>3. undo'[uid[p]].recs = recs[p]  BY <2>1 DEF FilesRecord
  <2> QED  BY <2>1, <2>2, <2>3 DEF CoverOK
<1>4. CASE Mutate(p)
  <2> DEFINE x == Path(job[p], pos[p])
  <2>1. recs[p] \in Seq(Rec) /\ recs[p] # <<>> /\ NewestRecord(p).path = x /\ pc[p] = "write"
    BY <1>4 DEF Mutate, JobOK, CallOK
  <2>2. Len(recs[p]) \in DOMAIN recs[p]
    BY <2>1, EmptySeq, LenProperties
  <2>3. /\ notes' = [notes EXCEPT ![x] = NewText(p)] /\ pc'[p] = "plan" /\ tainted'[p] = tainted[p]
        /\ UNCHANGED <<recs, uid, before, undo>>
    BY <1>4 DEF Mutate, WriteNote
  <2>4. Clean(p)' = Clean(p)  BY <2>3 DEF Clean
  <2>5. ASSUME Clean(p)  PROVE Covers(recs[p], notes', before[p])
    <3>1. Covers(recs[p], notes, before[p])  BY <2>1, <2>5 DEF CoverOK
    <3>2. \E i \in DOMAIN recs[p] : recs[p][i].path = x  BY <2>1, <2>2 DEF NewestRecord
    <3> QED  BY <2>3, <3>1, <3>2, CoversWrite DEF FilesTyped
  <2> QED  BY <2>1, <2>3, <2>4, <2>5 DEF CoverOK
<1>5. CASE FilesDone(p) BY <1>5, OnwardCover DEF FilesDone
<1>6. CASE LoadIndex(p) BY <1>6, OnwardCover DEF LoadIndex
<1>7. CASE SaveIndex(p)
  <2>1. /\ pc[p] = "save" /\ pc'[p] = "index"
        /\ UNCHANGED <<recs[p], uid[p], before[p], tainted[p], notes, undo>>
    BY <1>7 DEF SaveIndex
  <2> QED  BY <2>1, OnwardCover
<1>8. CASE IndexDone(p) BY <1>8, OnwardCover DEF IndexDone
<1>9. CASE AppendLog(p) BY <1>9, OnwardCover DEF AppendLog
<1>10. CASE BeginSeal(p)
  <2>1. /\ pc[p] = "seal" /\ pc'[p] = "sealing"
        /\ UNCHANGED <<recs, uid, before, tainted, notes>>
    BY <1>10 DEF BeginSeal
  <2>2. Clean(p)' = Clean(p)  BY <2>1 DEF Clean
  <2> QED  BY <2>1, <2>2 DEF CoverOK
<1>11. CASE Seal(p) BY <1>11, ReturnCover DEF Seal
<1>12. CASE EditFails(p) BY <1>12, RaiseCover DEF EditFails, AtEdit
<1>13. CASE Rollback(p)
  <2> DEFINE rs == recs[p]
             r == recs[p][Len(recs[p])]
  <2>1. /\ rs \in Seq(Rec) /\ rs # <<>> /\ pc[p] = "rollback" /\ pc'[p] = "rollback"
        /\ notes' = [notes EXCEPT ![r.path] = r.prev] /\ tainted'[p] = tainted[p]
        /\ recs'[p] = SubSeq(rs, 1, Len(rs) - 1) /\ UNCHANGED <<uid, before, undo>>
    BY <1>13 DEF Rollback, WriteNote
  <2>2. Clean(p)' = Clean(p)  BY <2>1 DEF Clean
  <2>3. \A i \in DOMAIN recs'[p] : i \in DOMAIN rs /\ recs'[p][i] = rs[i]
    BY <2>1, WithoutNewest
  <2>4. ASSUME Clean(p)  PROVE \A i \in DOMAIN rs : rs[i].prev = before[p][rs[i].path]
    BY <2>1, <2>4 DEF CoverOK
  <2>5. Len(rs) \in DOMAIN rs  BY <2>1, EmptySeq, LenProperties
  <2>6. ASSUME Clean(p), "torn" \notin tainted[p], uid[p] \in DOMAIN undo
        PROVE  Covers(undo[uid[p]].recs, notes', before[p])
    <3>1. Covers(undo[uid[p]].recs, notes, before[p])  BY <2>1, <2>6 DEF CoverOK
    <3>2. r.prev = before[p][r.path]  BY <2>4, <2>5, <2>6
    <3> QED  BY <2>1, <3>1, <3>2, CoversWrite DEF FilesTyped
  <2>7. ASSUME Clean(p)
        PROVE  \A i \in DOMAIN recs'[p] : recs'[p][i].prev = before[p][recs'[p][i].path]
    BY <2>3, <2>4, <2>7
  <2> HIDE DEF rs, r
  <2> QED  BY <2>1, <2>2, <2>6, <2>7 DEF CoverOK
<1>14. CASE Reraise(p) BY <1>14, ReturnCover DEF Reraise
<1> QED
  BY <1>1, <1>2, <1>3, <1>4, <1>5, <1>6, <1>7, <1>8, <1>9, <1>10, <1>11, <1>12, <1>13, <1>14
  DEF ApplyStep

LEMMA RevertCover ==
  ASSUME IInv, NEW p \in Procs, CoverOK(p), RevertStep(p)
  PROVE  CoverOK(p)'
<1> USE DEF IInv, TypeOK, CallsTyped, HistoryTyped
<1> DEFINE r == Head(recs[p])
<1>1. CASE RevertPrev(p)
  <2>1. /\ recs[p] \in Seq(Rec) /\ recs[p] # <<>> /\ pc[p] = "revert" /\ pc'[p] = "rewrite"
        /\ notes' = [notes EXCEPT ![r.path] = {}] /\ tainted'[p] = tainted[p]
        /\ UNCHANGED <<recs, before>>
    BY <1>1 DEF RevertPrev, WriteNote
  <2>2. 1 \in DOMAIN recs[p] /\ r = recs[p][1]
    BY <2>1, EmptySeq, LenProperties, HeadTailProperties
  <2>3. ASSUME tainted[p] = {}  PROVE Covers(recs[p], notes', before[p])
    <3>1. Covers(recs[p], notes, before[p])  BY <2>1, <2>3 DEF CoverOK
    <3>2. \E i \in DOMAIN recs[p] : recs[p][i].path = r.path  BY <2>2
    <3> QED  BY <2>1, <3>1, <3>2, CoversWrite DEF FilesTyped
  <2> HIDE DEF r
  <2> QED  BY <2>1, <2>3 DEF CoverOK
<1>2. CASE RevertNew(p) \/ Rewrite(p)
  <2>1. /\ recs[p] \in Seq(Rec) /\ recs[p] # <<>> /\ pc[p] \in Reverting /\ pc'[p] = "revert"
        /\ notes' = [notes EXCEPT ![r.path] = r.prev] /\ tainted'[p] = tainted[p]
        /\ recs'[p] = Tail(recs[p]) /\ before' = before
    BY <1>2 DEF RevertNew, Rewrite, WriteNote, Skip, JobOK
  <2>2. ASSUME tainted[p] = {}  PROVE Covers(recs'[p], notes', before[p])
    <3>1. Covers(recs[p], notes, before[p])  BY <2>1, <2>2 DEF CoverOK
    <3> QED  BY <2>1, <3>1, CoversTail DEF FilesTyped
  <2> HIDE DEF r
  <2> QED  BY <2>1, <2>2 DEF CoverOK
<1>3. CASE RevertDone(p) BY <1>3, ReturnCover DEF RevertDone
<1> QED  BY <1>1, <1>2, <1>3 DEF RevertStep

LEMMA OwnCover ==
  ASSUME IInv, IdsOK, LastOK, NEW p \in Procs, CallOK(p), CommitOK(p), CoverOK(p),
         Call(p) \/ Step(p) \/ Fault(p)
  PROVE  CoverOK(p)'
<1> USE DEF IInv, TypeOK, CallsTyped, HistoryTyped
<1>1. CASE Call(p)
  <2>1. ASSUME NEW q \in Patches, Apply(p, q) PROVE CoverOK(p)'
    BY <2>1 DEF Apply, CoverOK
  <2>2. ASSUME NEW r \in Renames, RenameFile(p, r) PROVE CoverOK(p)'
    BY <2>2 DEF RenameFile, CoverOK
  <2>3. ASSUME NEW i \in DOMAIN undo, Revert(p, i) PROVE CoverOK(p)'
    <3>1. pc'[p] = "revert" /\ recs'[p] = undo[i].recs /\ notes' = notes
      BY <2>3 DEF Revert
    <3>2. ASSUME tainted'[p] = {}  PROVE Covers(undo[i].recs, notes, before'[p])
      <4>1. last # NoCommit /\ last.id = i /\ last.after = notes
        BY <2>3, <3>2 DEF Revert
      <4>2. before'[p] = last.before /\ tainted'[p] = last.tainted
        BY <2>3, <4>1 DEF Revert
      <4> QED  BY <3>2, <4>1, <4>2 DEF LastOK
    <3> QED  BY <3>1, <3>2 DEF CoverOK
  <2>4. CASE UndoLast(p)
    BY <2>3, <2>4 DEF UndoLast, Revert
  <2>5. QED BY <1>1, <2>1, <2>2, <2>3, <2>4 DEF Call
<1>2. CASE LockStep(p)
  <2>1. CASE Acquire(p)
    <3>1. /\ recs'[p] = <<>> /\ before'[p] = notes /\ notes' = notes /\ pc'[p] = "plan"
          /\ UNCHANGED <<undo, uid>>
      BY <2>1 DEF Acquire, CallOK
    <3>2. uid[p] \notin DOMAIN undo  BY <2>1 DEF Acquire, IdsOK
    <3>3. Covers(<<>>, notes, notes)  BY DEF Covers
    <3> QED  BY <3>1, <3>2, <3>3 DEF CoverOK
  <2>2. CASE AcquireTimeout(p) BY <2>2, ReturnCover DEF AcquireTimeout
  <2>3. CASE RenameAcquire(p)
    <3>1. CASE Exists(job[p].src) /\ ~Exists(job[p].dst)
      <4>1. pc'[p] = "move" /\ tainted'[p] = {"renamed"}  BY <2>3, <3>1 DEF RenameAcquire
      <4> QED  BY <4>1 DEF CoverOK
    <3>2. CASE ~(Exists(job[p].src) /\ ~Exists(job[p].dst))
      BY <2>3, <3>2, ReturnCover DEF RenameAcquire
    <3> QED  BY <3>1, <3>2
  <2>4. QED BY <1>2, <2>1, <2>2, <2>3 DEF LockStep
<1>3. CASE ApplyStep(p) BY <1>3, ApplyCover
<1>4. CASE RenameStep(p)
  <2>1. CASE Move(p)
    <3>1. pc[p] = "move" /\ pc'[p] = "moved" /\ tainted'[p] = tainted[p]
      BY <2>1 DEF Move
    <3> QED  BY <3>1 DEF CoverOK
  <2>2. CASE WriteRenameRecord(p) BY <2>2, ReturnCover DEF WriteRenameRecord
  <2>3. CASE RenameFails(p) BY <2>3, ReturnCover DEF RenameFails
  <2>4. QED BY <1>4, <2>1, <2>2, <2>3 DEF RenameStep
<1>5. CASE RevertStep(p) BY <1>5, RevertCover
<1>6. CASE Fault(p)
  <2>1. CASE IOError(p) BY <2>1, RaiseCover DEF IOError
  <2>2. CASE RollbackFails(p)
    <3>1. /\ recs[p] \in Seq(Rec) /\ recs[p] # <<>> /\ pc[p] = "rollback" /\ pc'[p] = "rollback"
          /\ recs'[p] = SubSeq(recs[p], 1, Len(recs[p]) - 1)
          /\ tainted'[p] = tainted[p] \cup {"rollback error"}
          /\ UNCHANGED <<notes, uid, before, undo>>
      BY <2>2 DEF RollbackFails
    <3>2. Clean(p)' = Clean(p) /\ ("torn" \in tainted[p] => "torn" \in tainted'[p])
      BY <3>1 DEF Clean
    <3>3. \A i \in DOMAIN recs'[p] : i \in DOMAIN recs[p] /\ recs'[p][i] = recs[p][i]
      BY <3>1, WithoutNewest
    <3>4. ASSUME Clean(p)
          PROVE  \A i \in DOMAIN recs'[p] : recs'[p][i].prev = before[p][recs'[p][i].path]
      BY <3>1, <3>3, <3>4 DEF CoverOK
    <3>5. Clean(p) /\ "torn" \notin tainted[p] /\ uid[p] \in DOMAIN undo =>
            Covers(undo[uid[p]].recs, notes, before[p])
      BY <3>1 DEF CoverOK
    <3> QED  BY <3>1, <3>2, <3>4, <3>5 DEF CoverOK
  <2>3. CASE Die(p) BY <2>3, ReturnCover DEF Die
  <2>4. QED BY <1>6, <2>1, <2>2, <2>3 DEF Fault
<1>7. QED BY <1>1, <1>2, <1>3, <1>4, <1>5, <1>6 DEF Step

-----------------------------------------------------------------------------
(* Ids stay apart: a step hands out the next one, or uses its call's own.  *)
LEMMA FreshId ==
  ASSUME IInv, IdsOK, NEW o \in Procs, clock' = clock + 1, UNCHANGED <<undo, last>>,
         uid' = [uid EXCEPT ![o] = clock + 1],
         \A p \in Procs \ {o} : pc'[p] = pc[p]
  PROVE  IdsOK'
<1> USE DEF IInv, TypeOK, CallsTyped, FilesTyped
<1>1. \A p \in Procs : uid[p] \in 0 .. clock
  OBVIOUS
<1>2. uid'[o] = clock + 1 /\ \A p \in Procs \ {o} : uid'[p] = uid[p]
  OBVIOUS
<1>3. clock + 1 \notin DOMAIN undo /\ \A i \in 0 .. clock : clock + 1 # i /\ i \in 0 .. clock'
  OBVIOUS
<1> QED  BY <1>1, <1>2, <1>3 DEF IdsOK

LEMMA KnownId ==
  ASSUME IInv, IdsOK, NEW o \in Procs, UNCHANGED clock,
         \A p \in Procs : pc'[p] \in Writing =>
           /\ pc[p] \in Writing /\ uid'[p] = uid[p]
           /\ pc'[p] = "acquire" => pc[p] = "acquire",
         \/ UNCHANGED undo
         \/ pc[o] \in Writing /\ pc'[o] # "acquire" /\ DOMAIN undo' = DOMAIN undo \cup {uid[o]},
         \/ UNCHANGED last
         \/ pc[o] \in Writing /\ pc'[o] \notin Writing /\ last'.id = uid[o]
  PROVE  IdsOK'
<1>1. last' # NoCommit => last'.id \in 0 .. clock'
  BY DEF IdsOK, IInv, TypeOK, CallsTyped
<1>2. ASSUME NEW p \in Procs, pc'[p] = "acquire"  PROVE uid'[p] \notin DOMAIN undo'
  BY <1>2 DEF IdsOK, Writing
<1>3. ASSUME NEW p \in Procs, pc'[p] \in Writing, last' # NoCommit  PROVE uid'[p] # last'.id
  BY <1>3 DEF IdsOK
<1>4. ASSUME NEW p \in Procs, NEW q \in Procs, p # q, pc'[p] \in Writing, pc'[q] \in Writing
      PROVE  uid'[p] # uid'[q]
  BY <1>4 DEF IdsOK
<1> QED  BY <1>1, <1>2, <1>3, <1>4 DEF IdsOK

(* The file of the last call stays as it is: it is nobody else's.          *)
LEMMA LastKept ==
  ASSUME IInv, IdsOK, LastOK, NEW o \in Procs, UNCHANGED last,
         UNCHANGED undo \/ (pc[o] \in Writing /\ \E body : WriteUndo(o, body))
  PROVE  LastOK'
<1>1. CASE UNCHANGED undo
  BY <1>1 DEF LastOK
<1>2. CASE pc[o] \in Writing /\ \E body : WriteUndo(o, body)
  <2> SUFFICES ASSUME last # NoCommit, last.tainted = {}, last.id \in DOMAIN undo'
               PROVE  Covers(undo'[last.id].recs, last.after, last.before)
    BY DEF LastOK
  <2>1. uid[o] # last.id  BY <1>2 DEF IdsOK
  <2>2. last.id \in DOMAIN undo /\ undo'[last.id] = undo[last.id]
    BY <1>2, <2>1 DEF WriteUndo
  <2> QED  BY <2>2 DEF LastOK
<1> QED  BY <1>1, <1>2

(* The file of the call that ends is as CoverOK has it.                    *)
LEMMA LastEnds ==
  ASSUME IInv, NEW o \in Procs, CoverOK(o), CommitOK(o), pc[o] \in InApply,
         NEW how, NEW taint, Outcome(o, how, taint),
         tainted[o] \ {"rollback error"} \subseteq taint,
         pc[o] \in TornPC \ {"sealing"} => "torn" \in taint,
         \/ UNCHANGED undo /\ (pc[o] = "sealing" => "torn" \in taint)
         \/ pc[o] = "sealing" /\ WriteUndo(o, FilesRecord(recs[o]))
  PROVE  LastOK'
<1> SUFFICES ASSUME taint = {}, uid[o] \in DOMAIN undo'
             PROVE  Covers(undo'[uid[o]].recs, notes, before[o])
  BY DEF LastOK, Outcome
<1>0. tainted[o] \subseteq {"rollback error"}
  OBVIOUS
<1>1. Clean(o) /\ "torn" \notin tainted[o]  BY <1>0 DEF Clean
<1>2. CASE UNCHANGED undo /\ pc[o] # "sealing"
  <2>1. pc[o] \notin TornPC /\ uid[o] \in DOMAIN undo  BY <1>2
  <2>2. CASE pc[o] = "rollback"
    BY <1>1, <1>2, <2>1, <2>2 DEF CoverOK
  <2>3. CASE pc[o] # "rollback"
    <3>1. undo[uid[o]].recs = recs[o] /\ Covers(recs[o], notes, before[o])
      BY <1>1, <2>1, <2>3 DEF CoverOK
    <3> QED  BY <1>2, <3>1
  <2> QED  BY <2>2, <2>3
<1>3. CASE pc[o] = "sealing" /\ WriteUndo(o, FilesRecord(recs[o]))
  <2>1. undo'[uid[o]].recs = recs[o]  BY <1>3 DEF WriteUndo, FilesRecord
  <2>2. Covers(recs[o], notes, before[o])  BY <1>1, <1>3 DEF CoverOK
  <2> QED  BY <2>1, <2>2
<1>4. "torn" \notin taint
  OBVIOUS
<1> QED  BY <1>2, <1>3, <1>4


LEMMA IdsAndLast ==
  ASSUME IInv, IdsOK, LastOK, NEW o \in Procs, CallOK(o), CommitOK(o), CoverOK(o),
         Call(o) \/ Step(o) \/ Fault(o)
  PROVE  IdsOK' /\ LastOK'
<1> USE DEF IInv, TypeOK, CallsTyped, HistoryTyped, Writing
<1>1. CASE Call(o)
  <2>1. ASSUME NEW q \in Patches, Apply(o, q) PROVE IdsOK' /\ LastOK'
    BY <2>1, FreshId, LastKept DEF Apply
  <2>2. ASSUME NEW r \in Renames, RenameFile(o, r) PROVE IdsOK' /\ LastOK'
    BY <2>2, KnownId, LastKept DEF RenameFile
  <2>3. ASSUME NEW i \in DOMAIN undo, Revert(o, i) PROVE IdsOK' /\ LastOK'
    BY <2>3, KnownId, LastKept DEF Revert
  <2>4. CASE UndoLast(o)
    BY <2>3, <2>4 DEF UndoLast, Revert
  <2> QED BY <1>1, <2>1, <2>2, <2>3, <2>4 DEF Call
<1>2. CASE LockStep(o)
  <2>1. CASE Acquire(o) BY <2>1, KnownId, LastKept DEF Acquire
  <2>2. CASE AcquireTimeout(o) BY <2>2, KnownId, LastKept DEF AcquireTimeout, Return
  <2>3. CASE RenameAcquire(o)
    <3>1. /\ UNCHANGED <<undo, last, clock>>
          /\ \/ pc' = [pc EXCEPT ![o] = "move"] /\ uid' = uid
             \/ pc' = [pc EXCEPT ![o] = "idle"] /\ uid' = [uid EXCEPT ![o] = 0]
      BY <2>3 DEF RenameAcquire, Return
    <3>2. \A p \in Procs : pc'[p] \in Writing =>
            pc[p] \in Writing /\ uid'[p] = uid[p] /\ pc'[p] = pc[p]
      BY <3>1
    <3> QED  BY <3>1, <3>2, KnownId, LastKept
  <2> QED BY <1>2, <2>1, <2>2, <2>3 DEF LockStep
<1>3. CASE ApplyStep(o)
  <2>1. CASE PlanNewFile(o) \/ PlanEdit(o)
    <3>1. /\ pc[o] = "plan" /\ pc' = [pc EXCEPT ![o] = "record"] /\ WriteUndo(o, Torn)
          /\ UNCHANGED <<uid, last, clock>>
      BY <2>1 DEF PlanNewFile, PlanEdit, AtEdit, TakeRecord
    <3> QED  BY <3>1, KnownId, LastKept DEF WriteUndo
  <2>2. CASE WriteRecord(o)
    <3>1. /\ pc[o] = "record" /\ pc' = [pc EXCEPT ![o] = "write"]
          /\ WriteUndo(o, FilesRecord(recs[o])) /\ UNCHANGED <<uid, last, clock>>
      BY <2>2 DEF WriteRecord
    <3> QED  BY <3>1, KnownId, LastKept DEF WriteUndo
  <2>3. CASE Mutate(o) BY <2>3, KnownId, LastKept DEF Mutate
  <2>4. CASE FilesDone(o) BY <2>4, KnownId, LastKept DEF FilesDone
  <2>5. CASE LoadIndex(o) BY <2>5, KnownId, LastKept DEF LoadIndex
  <2>6. CASE SaveIndex(o) BY <2>6, KnownId, LastKept DEF SaveIndex
  <2>7. CASE IndexDone(o) BY <2>7, KnownId, LastKept DEF IndexDone
  <2>8. CASE AppendLog(o) BY <2>8, KnownId, LastKept DEF AppendLog
  <2>9. CASE BeginSeal(o)
    <3>1. /\ pc[o] = "seal" /\ pc' = [pc EXCEPT ![o] = "sealing"] /\ WriteUndo(o, Torn)
          /\ UNCHANGED <<uid, last, clock>>
      BY <2>9 DEF BeginSeal
    <3> QED  BY <3>1, KnownId, LastKept DEF WriteUndo
  <2>10. CASE Seal(o)
    <3>1. /\ pc[o] = "sealing" /\ pc' = [pc EXCEPT ![o] = "idle"] /\ UNCHANGED clock
          /\ uid' = [uid EXCEPT ![o] = 0] /\ last'.id = uid[o]
          /\ WriteUndo(o, FilesRecord(recs[o])) /\ Outcome(o, "commit", tainted[o])
      BY <2>10 DEF Seal, Return, Outcome
    <3>2. IdsOK'  BY <3>1, KnownId DEF WriteUndo
    <3>3. LastOK'  BY <3>1, LastEnds
    <3> QED  BY <3>2, <3>3
  <2>11. CASE EditFails(o) BY <2>11, KnownId, LastKept DEF EditFails, AtEdit, Raise
  <2>12. CASE Rollback(o) BY <2>12, KnownId, LastKept DEF Rollback
  <2>13. CASE Reraise(o)
    <3>1. /\ pc[o] = "rollback" /\ pc' = [pc EXCEPT ![o] = "idle"] /\ UNCHANGED <<clock, undo>>
          /\ uid' = [uid EXCEPT ![o] = 0] /\ last'.id = uid[o]
          /\ Outcome(o, "raise", tainted[o] \ {"rollback error"})
      BY <2>13 DEF Reraise, Return, Outcome
    <3>2. IdsOK'  BY <3>1, KnownId
    <3>3. LastOK'  BY <3>1, LastEnds
    <3> QED  BY <3>2, <3>3
  <2> QED
    BY <1>3, <2>1, <2>2, <2>3, <2>4, <2>5, <2>6, <2>7, <2>8, <2>9, <2>10, <2>11, <2>12, <2>13
    DEF ApplyStep
<1>4. CASE RenameStep(o)
  <2>1. CASE Move(o) BY <2>1, FreshId, LastKept DEF Move
  <2>2. CASE WriteRenameRecord(o)
    <3>1. /\ pc[o] = "moved" /\ pc' = [pc EXCEPT ![o] = "idle"] /\ UNCHANGED clock
          /\ uid' = [uid EXCEPT ![o] = 0] /\ last'.id = uid[o] /\ last'.tainted = tainted[o]
          /\ WriteUndo(o, RenameRecord)
      BY <2>2 DEF WriteRenameRecord, Return, Outcome
    <3>2. IdsOK'  BY <3>1, KnownId DEF WriteUndo
    <3>3. tainted[o] # {}  BY <3>1 DEF CoverOK
    <3> QED  BY <3>1, <3>2, <3>3 DEF LastOK
  <2>3. CASE RenameFails(o) BY <2>3, KnownId, LastKept DEF RenameFails, Return
  <2> QED BY <1>4, <2>1, <2>2, <2>3 DEF RenameStep
<1>5. CASE RevertStep(o)
  <2>1. CASE RevertNew(o) BY <2>1, KnownId, LastKept DEF RevertNew
  <2>2. CASE RevertPrev(o) BY <2>2, KnownId, LastKept DEF RevertPrev
  <2>3. CASE Rewrite(o) BY <2>3, KnownId, LastKept DEF Rewrite
  <2>4. CASE RevertDone(o) BY <2>4, KnownId, LastKept DEF RevertDone, Return
  <2> QED BY <1>5, <2>1, <2>2, <2>3, <2>4 DEF RevertStep
<1>6. CASE Fault(o)
  <2>1. CASE IOError(o) BY <2>1, KnownId, LastKept DEF IOError, Raise
  <2>2. CASE RollbackFails(o) BY <2>2, KnownId, LastKept DEF RollbackFails
  <2>3. CASE Die(o)
    <3> DEFINE taint == (tainted[o] \ {"rollback error"})
                          \cup (IF pc[o] \in TornPC THEN {"torn"} ELSE {})
    <3>1. /\ pc' = [pc EXCEPT ![o] = "idle"] /\ UNCHANGED <<clock, undo>>
          /\ uid' = [uid EXCEPT ![o] = 0]
      BY <2>3 DEF Die, Return
    <3>2. CASE pc[o] \in InApply
      <4>1. Outcome(o, "death", taint)  BY <2>3, <3>2 DEF Die
      <4>2. last'.id = uid[o]  BY <4>1 DEF Outcome
      <4>3. IdsOK'  BY <3>1, <3>2, <4>2, KnownId
      <4>4. tainted[o] \ {"rollback error"} \subseteq taint
            /\ (pc[o] \in TornPC => "torn" \in taint)
        OBVIOUS
      <4> HIDE DEF taint
      <4>5. LastOK'  BY <3>1, <3>2, <4>1, <4>4, LastEnds
      <4> QED  BY <4>3, <4>5
    <3>3. CASE pc[o] \notin InApply
      <4>1. UNCHANGED last  BY <2>3, <3>3 DEF Die
      <4> QED  BY <3>1, <4>1, KnownId, LastKept
    <3> QED  BY <3>2, <3>3
  <2> QED BY <1>6, <2>1, <2>2, <2>3 DEF Fault
<1> QED BY <1>1, <1>2, <1>3, <1>4, <1>5, <1>6 DEF Step

CoversOK == IdsOK /\ LastOK /\ \A p \in Procs : CoverOK(p)

LEMMA CoversOKKeeps ==
  IInv /\ RollbackOK /\ CommitsOK /\ CoversOK /\ [Next]_vars => CoversOK'
<1> SUFFICES ASSUME IInv, RollbackOK, CommitsOK, CoversOK, [Next]_vars  PROVE CoversOK'
  OBVIOUS
<1>1. \A p \in Procs : CommitOK(p) /\ CallOK(p) /\ CoverOK(p)
  BY DEF CommitsOK, RollbackOK, CoversOK
<1>2. CASE UNCHANGED vars
  <2>1. \A p \in Procs : Undisturbed(p)  BY <1>2 DEF vars, Undisturbed
  <2>2. \A p \in Procs : CoverOK(p)'  BY <1>1, <2>1, UndisturbedCover
  <2>3. IdsOK' /\ LastOK'  BY <1>2 DEF vars, CoversOK, IdsOK, LastOK
  <2> QED  BY <2>2, <2>3 DEF CoversOK
<1>3. ASSUME NEW o \in Procs, Call(o) \/ Step(o) \/ Fault(o) PROVE CoversOK'
  <2>1. ASSUME NEW p \in Procs  PROVE CoverOK(p)'
    <3>1. CASE o = p
      BY <1>1, <1>3, <3>1, OwnCover DEF CoversOK
    <3>2. CASE o # p
      BY <1>1, <1>3, <3>2, OthersUndisturbed, UndisturbedCover
    <3> QED  BY <3>1, <3>2
  <2>2. IdsOK' /\ LastOK'  BY <1>1, <1>3, IdsAndLast DEF CoversOK
  <2> QED  BY <2>1, <2>2 DEF CoversOK
<1> QED BY <1>2, <1>3 DEF Next, Exhausted

(* Reverting the undo file of the call that ended last (vault/undo.py)     *)
(* gives back the vault that call found, whether it committed, raised or   *)
(* died with its record on the disk, for every patch and every number of   *)
(* calls before it.                                                        *)
THEOREM UndoCorrect == Spec => []UndoRestores
<1>1. Init => RollbackOK /\ CommitsOK /\ CoversOK
  BY DEF Init, RollbackOK, CallOK, CommitsOK, CommitOK, CoversOK, CoverOK, IdsOK, LastOK, Writing
<1>2. IInv /\ CoversOK => UndoRestores
  <2> SUFFICES ASSUME IInv, CoversOK, NEW p \in Procs,
                      pc[p] = "revert", recs[p] = <<>>, tainted[p] = {}
               PROVE  notes = before[p]
    BY DEF UndoRestores
  <2>1. Covers(<<>>, notes, before[p])  BY DEF CoversOK, CoverOK
  <2>2. notes \in [Notes -> {NoNote} \cup Text] /\ before[p] \in [Notes -> {NoNote} \cup Text]
    BY DEF IInv, TypeOK, FilesTyped, HistoryTyped
  <2> QED  BY <2>1, <2>2, CoversNone
<1>3. Spec => [](IInv /\ RollbackOK /\ CommitsOK /\ CoversOK)
  BY <1>1, Invariant, RollbackOKKeeps, CommitsOKKeeps, CoversOKKeeps, PTL DEF Spec
<1>4. QED BY <1>2, <1>3, PTL
=============================================================================
