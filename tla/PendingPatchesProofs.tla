------------------------ MODULE PendingPatchesProofs ------------------------
(* Theorems of PendingPatches: types, no staged patch is lost, applied/    *)
(* holds landed patches only, no patch returns to the queue, and a patch   *)
(* that calls take one at a time settles in one place.                     *)
EXTENDS PendingPatches, TLAPS, FiniteSetTheorems

(* Only staged patches have a file in pending/, and no temporary file of   *)
(* one holds a fresh envelope; a call works on a staged patch, put on a    *)
(* patch of its own.                                                       *)
StagedOK ==
  /\ \A i \in Ids : root[i] # NoFile => i \in staged
  /\ \A i \in staged : tmp[i] # "pending"
  /\ \A p \in Procs : pc[p] \notin {"idle", "stage"} => on[p] \in staged
  /\ \A p \in Procs : pc[p] = "stage" => on[p] \notin staged /\ tmp[on[p]] = "pending"
  /\ \A p, q \in Procs : pc[p] = "stage" /\ pc[q] = "stage" /\ on[p] = on[q] => p = q

(* A call that is to move its patch has a folder for it, and one that      *)
(* moves it to applied/ has landed it.                                     *)
MovesOK ==
  \A p \in Procs :
    /\ pc[p] \in Moving => to[p] \in Terminal
    /\ pc[p] = "landed" => to[p] = "applied"
    /\ to[p] = "applied" => on[p] \in Ids /\ landed[on[p]] > 0

IInv == TypeOK /\ StagedOK /\ MovesOK /\ NothingLost /\ AppliedLanded

USE DEF Terminal, Statuses, Envelope, Moving, PCs

(* The invariant holds initially.                                          *)
LEMMA InitKeeps == Init => IInv
  BY BoundsAssumption
     DEF Init, IInv, TypeOK, StagedOK, MovesOK, NothingLost, AppliedLanded, InFolder

(* put keeps the invariant.                                                *)
LEMMA PutKeeps ==
  ASSUME IInv, NEW p \in Procs, NEW i \in Ids, Put(p, i) \/ Stage(p)
  PROVE  IInv'
<1> USE BoundsAssumption DEF IInv
<1>1. CASE Put(p, i)
  <2> USE <1>1 DEF Put, Start
  <2>1. TypeOK'  BY DEF TypeOK
  <2>2. StagedOK'  BY DEF TypeOK, StagedOK
  <2>3. MovesOK'  BY DEF TypeOK, MovesOK
  <2>4. NothingLost' /\ AppliedLanded'  BY DEF NothingLost, AppliedLanded, InFolder
  <2> QED  BY <2>1, <2>2, <2>3, <2>4
<1>2. CASE Stage(p)
  <2> USE <1>2 DEF Stage, Return
  <2>1. on[p] \in Ids  BY DEF TypeOK
  <2>2. TypeOK'  BY <2>1 DEF TypeOK
  <2>3. StagedOK'  BY <2>1 DEF TypeOK, StagedOK
  <2>4. MovesOK'  BY DEF TypeOK, MovesOK
  <2>5. NothingLost'  BY <2>1 DEF TypeOK, StagedOK, NothingLost, InFolder
  <2>6. AppliedLanded'  BY DEF AppliedLanded, InFolder
  <2> QED  BY <2>2, <2>3, <2>4, <2>5, <2>6
<1> QED  BY <1>1, <1>2

(* So does a call of apply up to its mark_applied ...                      *)
LEMMA ApplyKeeps ==
  ASSUME IInv, NEW p \in Procs, NEW i \in Ids,
         Apply(p, i) \/ Land(p) \/ ApplyRaises(p) \/ MarkApplied(p) \/ MarkAppliedRaises(p)
  PROVE  IInv'
<1> USE BoundsAssumption DEF IInv
<1>1. CASE Apply(p, i)
  <2> USE <1>1 DEF Apply, Start, files, Readable
  <2>1. TypeOK'  BY DEF TypeOK
  <2>2. StagedOK'  BY DEF TypeOK, StagedOK
  <2>3. MovesOK'  BY DEF TypeOK, MovesOK
  <2>4. NothingLost' /\ AppliedLanded'  BY DEF NothingLost, AppliedLanded, InFolder
  <2> QED  BY <2>1, <2>2, <2>3, <2>4
<1>2. CASE Land(p)
  <2> USE <1>2 DEF Land, Goto, files
  <2>1. on[p] \in Ids  BY DEF TypeOK
  <2>2. \A j \in Ids : landed[j] \in Nat /\ landed'[j] >= landed[j]  BY <2>1 DEF TypeOK
  <2>3. TypeOK'  BY <2>1 DEF TypeOK
  <2>4. StagedOK'  BY DEF TypeOK, StagedOK
  <2>5. MovesOK'  BY <2>1, <2>2 DEF TypeOK, MovesOK
  <2>6. NothingLost'  BY DEF NothingLost, InFolder
  <2>7. AppliedLanded'  BY <2>2, <2>3 DEF AppliedLanded, InFolder, TypeOK
  <2> QED  BY <2>3, <2>4, <2>5, <2>6, <2>7
<1>3. CASE ApplyRaises(p) \/ MarkApplied(p) \/ MarkAppliedRaises(p)
  <2> USE <1>3 DEF ApplyRaises, MarkApplied, MarkAppliedRaises, Goto, Return, files, history
  <2>1. TypeOK'  BY DEF TypeOK
  <2>2. StagedOK'  BY DEF TypeOK, StagedOK
  <2>3. MovesOK'  BY DEF TypeOK, MovesOK
  <2>4. NothingLost' /\ AppliedLanded'  BY DEF NothingLost, AppliedLanded, InFolder
  <2> QED  BY <2>1, <2>2, <2>3, <2>4
<1> QED  BY <1>1, <1>2, <1>3

(* ... a reject up to its _move, and the steps of _move.                   *)
LEMMA MoveKeeps ==
  ASSUME IInv, NEW p \in Procs, NEW i \in Ids,
         Reject(p, i) \/ Rewrite(p) \/ Replace(p) \/ Rename(p) \/ MoveRaises(p)
  PROVE  IInv'
<1> USE BoundsAssumption DEF IInv
<1>1. CASE Reject(p, i)
  <2> USE <1>1 DEF Reject, Start, files, Readable
  <2>1. TypeOK'  BY DEF TypeOK
  <2>2. StagedOK'  BY DEF TypeOK, StagedOK
  <2>3. MovesOK'  BY DEF TypeOK, MovesOK
  <2>4. NothingLost' /\ AppliedLanded'  BY DEF NothingLost, AppliedLanded, InFolder
  <2> QED  BY <2>1, <2>2, <2>3, <2>4
<1>2. CASE Rewrite(p)
  <2> USE <1>2 DEF Rewrite, Goto, history
  <2>1. on[p] \in Ids /\ to[p] \in Terminal /\ on[p] \in staged
    BY DEF TypeOK, MovesOK, StagedOK
  <2>2. TypeOK'  BY <2>1 DEF TypeOK
  <2>3. StagedOK'  BY <2>1 DEF TypeOK, StagedOK
  <2>4. MovesOK'  BY DEF TypeOK, MovesOK
  <2>5. NothingLost' /\ AppliedLanded'  BY DEF NothingLost, AppliedLanded, InFolder
  <2> QED  BY <2>2, <2>3, <2>4, <2>5
<1>3. CASE Replace(p)
  <2> USE <1>3 DEF Replace, Goto, history
  <2>1. on[p] \in Ids /\ on[p] \in staged  BY DEF TypeOK, StagedOK
  <2>2. TypeOK'  BY <2>1 DEF TypeOK
  <2>3. StagedOK'  BY <2>1 DEF TypeOK, StagedOK
  <2>4. MovesOK'  BY DEF TypeOK, MovesOK
  <2>5. NothingLost'  BY <2>1 DEF TypeOK, NothingLost, InFolder
  <2>6. AppliedLanded'  BY DEF AppliedLanded, InFolder
  <2> QED  BY <2>2, <2>3, <2>4, <2>5, <2>6
<1>4. CASE Rename(p)
  <2> USE <1>4 DEF Rename, Return, history
  <2>1. on[p] \in Ids /\ to[p] \in Terminal /\ root[on[p]] \in Envelope
    BY DEF TypeOK, MovesOK
  <2>2. TypeOK'  BY <2>1 DEF TypeOK
  <2>3. StagedOK'  BY <2>1 DEF TypeOK, StagedOK
  <2>4. MovesOK'  BY DEF TypeOK, MovesOK
  <2>5. \A j \in Ids, s \in Terminal : InFolder(j, s) => InFolder(j, s)'
    BY <2>1 DEF TypeOK, InFolder
  <2>6. filed'[to[p]][on[p]] # NoFile  BY <2>1 DEF TypeOK
  <2>7. NothingLost'  BY <2>1, <2>5, <2>6 DEF TypeOK, NothingLost, InFolder
  <2>8. AppliedLanded'  BY <2>1 DEF TypeOK, MovesOK, AppliedLanded, InFolder
  <2> QED  BY <2>2, <2>3, <2>4, <2>7, <2>8
<1>5. CASE MoveRaises(p)
  <2> USE <1>5 DEF MoveRaises, Return, files, history
  <2>1. TypeOK'  BY DEF TypeOK
  <2>2. StagedOK'  BY DEF TypeOK, StagedOK
  <2>3. MovesOK'  BY DEF TypeOK, MovesOK
  <2>4. NothingLost' /\ AppliedLanded'  BY DEF NothingLost, AppliedLanded, InFolder
  <2> QED  BY <2>1, <2>2, <2>3, <2>4
<1> QED  BY <1>1, <1>2, <1>3, <1>4, <1>5

(* A death can leave a torn temporary file, of a staged patch.             *)
LEMMA DieKeeps ==
  ASSUME IInv, NEW p \in Procs, Die(p)
  PROVE  IInv'
<1> USE BoundsAssumption DEF IInv, Die, Return
<1>1. on[p] \in Ids  BY DEF TypeOK
<1>2. TypeOK'  BY <1>1 DEF TypeOK
<1>3. \A i \in Ids : tmp'[i] = tmp[i] \/ (i = on[p] /\ pc[p] = "rewrite" /\ tmp'[i] = "torn")
  BY <1>1 DEF TypeOK
<1>4. StagedOK'  BY <1>1, <1>3 DEF TypeOK, StagedOK
<1>5. MovesOK'  BY DEF TypeOK, MovesOK
<1>6. NothingLost' /\ AppliedLanded'  BY DEF NothingLost, AppliedLanded, InFolder
<1> QED  BY <1>2, <1>4, <1>5, <1>6

(* Every step keeps the invariant, so it always holds.                     *)
LEMMA Invariant == Spec => []IInv
<1>1. Init => IInv  BY InitKeeps
<1>2. IInv /\ [Next]_vars => IInv'
  <2> SUFFICES ASSUME IInv, [Next]_vars PROVE IInv'  OBVIOUS
  <2>1. CASE UNCHANGED vars
    BY <2>1 DEF vars, IInv, TypeOK, StagedOK, MovesOK, NothingLost, AppliedLanded, InFolder
  <2>2. ASSUME NEW p \in Procs, Call(p) PROVE IInv'
    BY <2>2, PutKeeps, ApplyKeeps, MoveKeeps DEF Call
  <2>3. ASSUME NEW p \in Procs, Step(p) PROVE IInv'
    <3>1. PICK i : i \in Ids
      BY <2>3 DEF IInv, TypeOK, Step, Stage, Land, ApplyRaises, MarkApplied, MarkAppliedRaises,
                  Rewrite, Replace, Rename, MoveRaises
    <3> QED  BY <2>3, <3>1, PutKeeps, ApplyKeeps, MoveKeeps DEF Step
  <2>4. ASSUME NEW p \in Procs, Die(p) PROVE IInv'  BY <2>4, DieKeeps
  <2> QED  BY <2>1, <2>2, <2>3, <2>4 DEF Next, Quiet
<1> QED  BY <1>1, <1>2, PTL DEF Spec

(* The type invariant holds in every reachable state.                      *)
THEOREM TypeCorrect == Spec => []TypeOK
<1>1. IInv => TypeOK  BY DEF IInv
<1> QED  BY <1>1, Invariant, PTL

(* No race between put, apply and reject and no death loses the file of a  *)
(* staged patch.                                                           *)
THEOREM NothingLostCorrect == Spec => []NothingLost
<1>1. IInv => NothingLost  BY DEF IInv
<1> QED  BY <1>1, Invariant, PTL

(* applied/ holds only patches that VaultWriter.apply has written.         *)
THEOREM AppliedCorrect == Spec => []AppliedLanded
<1>1. IInv => AppliedLanded  BY DEF IInv
<1> QED  BY <1>1, Invariant, PTL

(* What list() no longer shows it never shows again.                       *)
THEOREM QueueCorrect == Spec => NeverRequeued
<1> DEFINE Stays == \A i \in staged : i \notin Queue => i \notin Queue'
<1>1. IInv /\ [Next]_vars => [Stays]_vars
  <2> SUFFICES ASSUME IInv, Next, NEW i \in staged, root[i] # "pending"
               PROVE  root'[i] # "pending"
    BY DEF Queue
  <2> USE BoundsAssumption DEF IInv
  <2>1. i \in Ids /\ tmp[i] # "pending"  BY DEF TypeOK, StagedOK
  <2>2. ASSUME NEW p \in Procs, Stage(p) PROVE root'[i] # "pending"
    BY <2>1, <2>2 DEF Stage, TypeOK, StagedOK
  <2>3. ASSUME NEW p \in Procs, Replace(p) PROVE root'[i] # "pending"
    BY <2>1, <2>3 DEF Replace, TypeOK
  <2>4. ASSUME NEW p \in Procs, Rename(p) PROVE root'[i] # "pending"
    BY <2>1, <2>4 DEF Rename, TypeOK
  <2>5. ASSUME NEW p \in Procs, ~Stage(p), ~Replace(p), ~Rename(p),
               Call(p) \/ Step(p) \/ Die(p)
        PROVE  root' = root
    BY <2>5 DEF Call, Put, Apply, Reject, Step, Land, ApplyRaises, MarkApplied,
                MarkAppliedRaises, Rewrite, MoveRaises, Die, files
  <2> QED  BY <2>2, <2>3, <2>4, <2>5 DEF Next, Quiet, vars
<1> QED  BY <1>1, Invariant, PTL DEF Spec, NeverRequeued

-----------------------------------------------------------------------------
(* Where a patch lies, when no two calls met over it and no apply of it    *)
(* was cut: by induction on the steps of the one call that has it.         *)

(* A call has a target only once it moves, and a patch that was never      *)
(* staged has never been written or filed.                                 *)
FreshOK ==
  /\ \A p \in Procs : pc[p] \in {"idle", "stage", "apply"} => to[p] = "pending"
  /\ \A i \in Ids \ staged : landed[i] = 0 /\ \A s \in Terminal : filed[s][i] = NoFile

(* What the call that has the patch knows of it.                           *)
Knows(p, i) ==
  /\ pc[p] \notin {"idle", "stage"} => root[i] \in Statuses
  /\ pc[p] = "apply" => landed[i] = 0
  /\ to[p] = "rejected" => landed[i] = 0
  /\ pc[p] = "replace" => tmp[i] = to[p]
  /\ pc[p] = "rename" => root[i] = to[p]

Places(i) ==
  /\ landed[i] <= 1
  /\ \A s \in Terminal : filed[s][i] # NoFile => filed[s][i] = s /\ root[i] = NoFile
  /\ filed["applied"][i] = NoFile \/ filed["rejected"][i] = NoFile
  /\ filed["rejected"][i] # NoFile => landed[i] = 0
  /\ root[i] # "torn"
  /\ landed[i] > 0 /\ root[i] # NoFile => \E p \in Procs : on[p] = i /\ to[p] = "applied"

Tidy(i) ==
  /\ \A p, q \in Procs : on[p] = i /\ on[q] = i => p = q
  /\ \A p \in Procs : on[p] = i => Knows(p, i)
  /\ Places(i)

TidyOK == \A i \in Ids \ (shared \cup cut) : Tidy(i)

LEMMA FreshStep ==
  ASSUME IInv, FreshOK, [Next]_vars
  PROVE  FreshOK'
<1> USE BoundsAssumption DEF IInv
<1>1. ASSUME NEW p \in Procs, Call(p)  PROVE FreshOK'
  BY <1>1 DEF Call, Put, Apply, Reject, Start, FreshOK, TypeOK, files
<1>2. ASSUME NEW p \in Procs, Land(p)  PROVE FreshOK'
  <2>1. on[p] \in staged  BY <1>2 DEF Land, StagedOK
  <2> QED  BY <1>2, <2>1 DEF Land, Goto, FreshOK, TypeOK, files
<1>3. ASSUME NEW p \in Procs, Rename(p)  PROVE FreshOK'
  <2>1. on[p] \in staged /\ to[p] \in Terminal  BY <1>3 DEF Rename, StagedOK, MovesOK
  <2>2. \A i \in Ids \ staged, s \in Terminal : filed'[s][i] = filed[s][i]
    BY <1>3, <2>1 DEF Rename, TypeOK
  <2> QED  BY <1>3, <2>2 DEF Rename, Return, FreshOK, TypeOK, history
<1>4. ASSUME NEW p \in Procs,
             \/ Stage(p) \/ ApplyRaises(p) \/ MarkApplied(p) \/ MarkAppliedRaises(p)
             \/ Rewrite(p) \/ Replace(p) \/ MoveRaises(p) \/ Die(p)
      PROVE  FreshOK'
  <2>1. UNCHANGED <<filed, landed>> /\ staged \subseteq staged'
    BY <1>4 DEF Stage, ApplyRaises, MarkApplied, MarkAppliedRaises, Rewrite, Replace,
                MoveRaises, Die, files, history
  <2>2. \/ to' = [to EXCEPT ![p] = "pending"] /\ pc' = [pc EXCEPT ![p] = "idle"]
        \/ \E at \in Moving : to' = to /\ pc' = [pc EXCEPT ![p] = at]
    BY <1>4 DEF Stage, ApplyRaises, MarkApplied, MarkAppliedRaises, Rewrite, Replace,
                MoveRaises, Die, Return, Goto
  <2> QED  BY <2>1, <2>2 DEF FreshOK, TypeOK
<1>5. CASE UNCHANGED vars
  BY <1>5 DEF vars, FreshOK
<1> QED  BY <1>1, <1>2, <1>3, <1>4, <1>5 DEF Next, Step, Quiet

(* A step that does not touch the patch.                                   *)
LEMMA Elsewhere ==
  ASSUME NEW i \in Ids, Tidy(i),
         root'[i] = root[i], tmp'[i] = tmp[i], landed'[i] = landed[i],
         \A s \in Terminal : filed'[s][i] = filed[s][i],
         \A p \in Procs : \/ on[p] # i /\ on'[p] # i
                          \/ on'[p] = on[p] /\ pc'[p] = pc[p] /\ to'[p] = to[p]
  PROVE  Tidy(i)'
<1>1. \A p \in Procs : on'[p] = i => on[p] = i /\ pc'[p] = pc[p] /\ to'[p] = to[p]  OBVIOUS
<1>2. \A p \in Procs : on[p] = i => on'[p] = i /\ to'[p] = to[p]  OBVIOUS
<1>3. \A p, q \in Procs : on'[p] = i /\ on'[q] = i => p = q  BY <1>1 DEF Tidy
<1>4. \A p \in Procs : on'[p] = i => Knows(p, i)'  BY <1>1 DEF Tidy, Knows
<1>5. Places(i)'  BY <1>2 DEF Tidy, Places
<1> QED  BY <1>3, <1>4, <1>5 DEF Tidy

(* A step of one process that leaves every patch but its own alone.        *)
LEMMA OwnPatch ==
  ASSUME TypeOK, NEW p \in Procs, NEW i \in Ids, Tidy(i), on[p] # i, on'[p] # i,
         \A q \in Procs \ {p} : on'[q] = on[q] /\ pc'[q] = pc[q] /\ to'[q] = to[q],
         root'[i] = root[i], tmp'[i] = tmp[i], landed'[i] = landed[i],
         \A s \in Terminal : filed'[s][i] = filed[s][i]
  PROVE  Tidy(i)'
  BY Elsewhere

LEMMA TidyCall ==
  ASSUME IInv, FreshOK, TidyOK, NEW p \in Procs, Call(p)
  PROVE  TidyOK'
<1> USE BoundsAssumption DEF IInv
<1>1. PICK j \in Ids : Put(p, j) \/ Apply(p, j) \/ Reject(p, j)  BY DEF Call
<1>2. pc[p] = "idle" /\ on[p] = NoId /\ to[p] = "pending"
  BY <1>1 DEF Put, Apply, Reject, Start, TypeOK, FreshOK
<1>3. /\ on' = [on EXCEPT ![p] = j]
      /\ shared' = IF \E q \in Procs \ {p} : on[q] = j THEN shared \cup {j} ELSE shared
      /\ UNCHANGED <<root, filed, landed, cut>>
      /\ tmp' = tmp \/ (Put(p, j) /\ tmp' = [tmp EXCEPT ![j] = "pending"])
  BY <1>1 DEF Put, Apply, Reject, Start, files
<1>4. /\ pc'[p] \in {"stage", "apply", "rewrite"}
      /\ on'[p] = j
      /\ \A q \in Procs \ {p} : on'[q] = on[q] /\ pc'[q] = pc[q] /\ to'[q] = to[q]
  BY <1>1 DEF Put, Apply, Reject, Start, TypeOK
<1> SUFFICES ASSUME NEW i \in Ids, i \notin shared' \cup cut'  PROVE Tidy(i)'
  BY DEF TidyOK
<1>5. i \notin shared \cup cut /\ Tidy(i)  BY <1>3 DEF TidyOK
<1>6. CASE i # j
  <2>1. tmp'[i] = tmp[i]  BY <1>3, <1>6 DEF TypeOK
  <2> QED  BY <1>2, <1>3, <1>4, <1>5, <1>6, <2>1, OwnPatch
<1>7. CASE i = j
  <2>1. \A q \in Procs : on[q] # i  BY <1>2, <1>3, <1>7
  <2>2. \A q \in Procs : on'[q] = i => q = p  BY <1>4, <2>1
  <2>3. root[i] # NoFile => landed[i] = 0  BY <1>5, <2>1 DEF Tidy, Places, TypeOK
  <2>4. Knows(p, i)'
    <3>1. CASE Put(p, j)
      BY <1>2, <1>4, <3>1 DEF Put, Start, Knows, TypeOK
    <3>2. CASE Apply(p, j)
      <4>1. pc'[p] = "apply" /\ to'[p] = "pending"  BY <1>2, <3>2 DEF Apply, Start, TypeOK
      <4>2. root'[i] \in Statuses /\ landed'[i] = 0
        BY <1>3, <1>7, <2>3, <3>2 DEF Apply, Readable
      <4> QED  BY <4>1, <4>2 DEF Knows
    <3>3. CASE Reject(p, j)
      <4>1. pc'[p] = "rewrite"  BY <3>3 DEF Reject, Start, TypeOK
      <4>2. root'[i] \in Statuses /\ landed'[i] = 0
        BY <1>3, <1>7, <2>3, <3>3 DEF Reject, Readable
      <4> QED  BY <4>1, <4>2 DEF Knows
    <3> QED  BY <1>1, <3>1, <3>2, <3>3
  <2>5. Places(i)'  BY <1>3, <1>5, <2>1 DEF Tidy, Places
  <2>6. \A q, r \in Procs : on'[q] = i /\ on'[r] = i => q = r  BY <2>2
  <2>7. \A q \in Procs : on'[q] = i => Knows(q, i)'  BY <2>2, <2>4
  <2> QED  BY <2>5, <2>6, <2>7 DEF Tidy
<1> QED  BY <1>6, <1>7

(* The steps of a call: only its own patch can change.                     *)
LEMMA TidyStep ==
  ASSUME IInv, FreshOK, TidyOK, NEW p \in Procs, Step(p) \/ Die(p)
  PROVE  TidyOK'
<1> USE BoundsAssumption DEF IInv
<1> DEFINE j == on[p]
<1>1. pc[p] # "idle" /\ j \in Ids
  BY DEF Step, Stage, Land, ApplyRaises, MarkApplied, MarkAppliedRaises, Rewrite, Replace,
         Rename, MoveRaises, Die, TypeOK
<1>2. shared' = shared /\ cut \subseteq cut' /\ (~Die(p) => cut' = cut)
  BY DEF Step, Stage, Land, ApplyRaises, MarkApplied, MarkAppliedRaises, Rewrite, Replace,
         Rename, MoveRaises, Die, history
<1>3. Return(p) \/ (on' = on /\ \E at \in PCs \ {"idle"} : pc' = [pc EXCEPT ![p] = at])
  BY DEF Step, Stage, Land, ApplyRaises, MarkApplied, MarkAppliedRaises, Rewrite, Replace,
         Rename, MoveRaises, Die, Goto
<1>4. to' = to \/ Return(p) \/ (Land(p) /\ to' = [to EXCEPT ![p] = "applied"])
  BY DEF Step, Stage, Land, ApplyRaises, MarkApplied, MarkAppliedRaises, Rewrite, Replace,
         Rename, MoveRaises, Die
<1>5. /\ on'[p] \in {j, NoId}
      /\ \A q \in Procs \ {p} : on'[q] = on[q] /\ pc'[q] = pc[q] /\ to'[q] = to[q]
  BY <1>3, <1>4 DEF Return, TypeOK
<1>6. \A i \in Ids \ {j} :
        /\ root'[i] = root[i] /\ tmp'[i] = tmp[i] /\ landed'[i] = landed[i]
        /\ \A s \in Terminal : filed'[s][i] = filed[s][i]
  <2> SUFFICES ASSUME NEW i \in Ids \ {j}
               PROVE  /\ root'[i] = root[i] /\ tmp'[i] = tmp[i] /\ landed'[i] = landed[i]
                      /\ \A s \in Terminal : filed'[s][i] = filed[s][i]
    OBVIOUS
  <2>1. root'[i] = root[i]
    BY DEF Step, Stage, Land, ApplyRaises, MarkApplied, MarkAppliedRaises, Rewrite, Replace,
           Rename, MoveRaises, Die, TypeOK, files
  <2>2. tmp'[i] = tmp[i]
    BY DEF Step, Stage, Land, ApplyRaises, MarkApplied, MarkAppliedRaises, Rewrite, Replace,
           Rename, MoveRaises, Die, TypeOK, files
  <2>3. landed'[i] = landed[i]
    BY DEF Step, Stage, Land, ApplyRaises, MarkApplied, MarkAppliedRaises, Rewrite, Replace,
           Rename, MoveRaises, Die, TypeOK, history
  <2>4. \A s \in Terminal : filed'[s][i] = filed[s][i]
    <3>1. CASE Rename(p)  BY <3>1 DEF Rename, TypeOK
    <3>2. CASE ~Rename(p)
      BY <3>2 DEF Step, Stage, Land, ApplyRaises, MarkApplied, MarkAppliedRaises, Rewrite,
             Replace, MoveRaises, Die, files
    <3> QED  BY <3>1, <3>2
  <2> QED  BY <2>1, <2>2, <2>3, <2>4
<1> SUFFICES ASSUME NEW i \in Ids, i \notin shared' \cup cut'  PROVE Tidy(i)'
  BY DEF TidyOK
<1>7. i \notin shared \cup cut /\ Tidy(i)  BY <1>2 DEF TidyOK
<1>8. CASE i # j
  <2>1. on'[p] # i  BY <1>5, <1>8
  <2> QED  BY <1>5, <1>6, <1>7, <1>8, <2>1, OwnPatch
<1>9. CASE i = j
  <2>1. \A q \in Procs \ {p} : on[q] # i /\ on'[q] # i  BY <1>5, <1>7, <1>9 DEF Tidy
  <2>2. Knows(p, i) /\ Places(i)  BY <1>7, <1>9 DEF Tidy
  <2>3. SUFFICES (on'[p] = i => Knows(p, i)') /\ Places(i)'
    <3>1. \A q, r \in Procs : on'[q] = i /\ on'[r] = i => q = r  BY <2>1
    <3>2. on'[p] = i => Knows(p, i)'  BY <2>3
    <3>3. \A q \in Procs : on'[q] = i => Knows(q, i)'  BY <2>1, <3>2
    <3> QED  BY <2>3, <3>1, <3>3 DEF Tidy
  <2>4. ASSUME Return(p), UNCHANGED <<root, filed, landed>>, to[p] # "applied" \/ root[i] = NoFile
        PROVE  (on'[p] = i => Knows(p, i)') /\ Places(i)'
    <3>1. on'[p] # i  BY <2>4 DEF Return, TypeOK
    <3>2. landed[i] > 0 => root[i] = NoFile  BY <1>9, <2>1, <2>2, <2>4 DEF Places
    <3>3. Places(i)'  BY <2>2, <2>4, <3>2 DEF Places
    <3> QED  BY <3>1, <3>3
  <2>5. CASE Stage(p)
    <3>1. i \notin staged /\ tmp[i] = "pending"  BY <1>9, <2>5 DEF Stage, StagedOK
    <3>2. root'[i] = "pending" /\ UNCHANGED <<filed, landed>>
      BY <1>9, <2>5, <3>1 DEF Stage, TypeOK
    <3>3. landed[i] = 0 /\ \A s \in Terminal : filed[s][i] = NoFile  BY <3>1 DEF FreshOK
    <3>4. Places(i)'  BY <3>2, <3>3 DEF Places
    <3>5. on'[p] # i  BY <2>5 DEF Stage, Return, TypeOK
    <3> QED  BY <3>4, <3>5
  <2>6. CASE Land(p)
    <3>1. root[i] \in Statuses /\ landed[i] = 0  BY <2>2, <2>6 DEF Land, Knows
    <3>2. /\ landed'[i] = 1 /\ UNCHANGED <<root, filed>>
          /\ on'[p] = i /\ to'[p] = "applied" /\ pc'[p] = "landed"
      BY <1>9, <2>6, <3>1 DEF Land, Goto, TypeOK, files
    <3>3. \A s \in Terminal : filed[s][i] = NoFile  BY <2>2, <3>1 DEF Places
    <3>4. Knows(p, i)'  BY <3>1, <3>2 DEF Knows
    <3>5. Places(i)'  BY <3>1, <3>2, <3>3 DEF Places
    <3> QED  BY <3>4, <3>5
  <2>7. CASE ApplyRaises(p)
    <3>1. to[p] # "applied"  BY <2>7 DEF ApplyRaises, FreshOK
    <3> QED  BY <2>4, <2>7, <3>1 DEF ApplyRaises, files, history
  <2>8. CASE MarkApplied(p)
    <3>1. pc'[p] = "rewrite" /\ UNCHANGED <<root, filed, landed, to, on>>
      BY <2>8 DEF MarkApplied, Goto, TypeOK, files, history
    <3>2. root[i] \in Statuses  BY <1>9, <2>8 DEF MarkApplied, Readable
    <3>3. Knows(p, i)'  BY <2>2, <3>1, <3>2 DEF Knows
    <3>4. Places(i)'  BY <2>2, <3>1 DEF Places
    <3> QED  BY <3>3, <3>4
  <2>9. CASE MarkAppliedRaises(p)
    <3>1. FALSE  BY <1>9, <2>2, <2>9 DEF MarkAppliedRaises, Knows, Readable
    <3> QED  BY <3>1
  <2>10. CASE Rewrite(p)
    <3>1. /\ pc'[p] = "replace" /\ tmp'[i] = to[p]
          /\ UNCHANGED <<root, filed, landed, to, on>>
      BY <1>9, <2>10 DEF Rewrite, Goto, TypeOK, history
    <3>2. root[i] \in Statuses  BY <2>2, <2>10 DEF Rewrite, Knows
    <3>3. Knows(p, i)'  BY <2>2, <3>1, <3>2 DEF Knows
    <3>4. Places(i)'  BY <2>2, <3>1 DEF Places
    <3> QED  BY <3>3, <3>4
  <2>11. CASE Replace(p)
    <3>1. tmp[i] = to[p] /\ to[p] \in Terminal /\ root[i] \in Statuses
      BY <2>2, <2>11 DEF Replace, Knows, MovesOK
    <3>2. /\ pc'[p] = "rename" /\ root'[i] = to[p]
          /\ UNCHANGED <<filed, landed, to, on>>
      BY <1>9, <2>11, <3>1 DEF Replace, Goto, TypeOK, history
    <3>3. Knows(p, i)'  BY <2>2, <3>1, <3>2 DEF Knows
    <3>4. \A s \in Terminal : filed[s][i] = NoFile  BY <2>2, <3>1 DEF Places
    <3>5. landed[i] > 0 => to'[p] = "applied" /\ on'[p] = i
      BY <1>9, <2>1, <2>2, <3>1, <3>2 DEF Places
    <3>6. Places(i)'  BY <2>2, <3>1, <3>2, <3>4, <3>5 DEF Places
    <3> QED  BY <3>3, <3>6
  <2>12. CASE Rename(p)
    <3>1. root[i] = to[p] /\ to[p] \in Terminal
      BY <2>2, <2>12 DEF Rename, Knows, MovesOK
    <3>2. /\ root'[i] = NoFile /\ filed'[to[p]][i] = to[p] /\ UNCHANGED landed
          /\ \A s \in Terminal \ {to[p]} : filed'[s][i] = filed[s][i]
          /\ on'[p] = NoId
      BY <1>9, <2>12, <3>1 DEF Rename, Return, TypeOK, history
    <3>3. \A s \in Terminal : filed[s][i] = NoFile  BY <2>2, <3>1 DEF Places
    <3>4. to[p] = "rejected" => landed[i] = 0  BY <2>2 DEF Knows
    <3>5. Places(i)'  BY <2>2, <3>1, <3>2, <3>3, <3>4 DEF Places
    <3> QED  BY <3>2, <3>5
  <2>13. CASE MoveRaises(p)
    <3>1. FALSE
      BY <1>9, <2>2, <2>13 DEF MoveRaises, Knows, MovesOK
    <3> QED  BY <3>1
  <2>14. CASE Die(p)
    <3>1. to[p] # "applied"  BY <1>9, <2>14 DEF Die
    <3> QED  BY <2>4, <2>14, <3>1 DEF Die
  <2> QED  BY <2>5, <2>6, <2>7, <2>8, <2>9, <2>10, <2>11, <2>12, <2>13, <2>14 DEF Step
<1> QED  BY <1>8, <1>9

LEMMA TidyInvariant == Spec => [](FreshOK /\ TidyOK)
<1>1. Init => FreshOK /\ TidyOK
  BY BoundsAssumption DEF Init, FreshOK, TidyOK, Tidy, Knows, Places
<1>2. IInv /\ FreshOK /\ TidyOK /\ [Next]_vars => FreshOK' /\ TidyOK'
  <2> SUFFICES ASSUME IInv, FreshOK, TidyOK, [Next]_vars  PROVE FreshOK' /\ TidyOK'
    OBVIOUS
  <2>1. FreshOK'  BY FreshStep
  <2>2. CASE UNCHANGED vars
    BY <2>1, <2>2 DEF vars, TidyOK, Tidy, Knows, Places
  <2>3. ASSUME NEW p \in Procs, Call(p) \/ Step(p) \/ Die(p)  PROVE TidyOK'
    BY <2>3, TidyCall, TidyStep
  <2> QED  BY <2>1, <2>2, <2>3 DEF Next, Quiet
<1> QED  BY <1>1, <1>2, Invariant, PTL DEF Spec

(* A patch that no two calls met over and no death cut lands at most once  *)
(* (apply_patch.py, pending.py _move), is in one place, and both its place *)
(* and its status tell what became of it.                                  *)
THEOREM SettledCorrect == Spec => []Settled
<1>1. IInv /\ TidyOK => Settled
  <2> SUFFICES ASSUME IInv, TidyOK, NEW i \in Ids \ (shared \cup cut)
               PROVE  /\ landed[i] <= 1
                      /\ Cardinality({s \in Terminal : InFolder(i, s)})
                            <= (IF root[i] = NoFile THEN 1 ELSE 0)
                      /\ \A s \in Terminal : InFolder(i, s) => filed[s][i] = s
                      /\ InFolder(i, "rejected") => landed[i] = 0
    BY DEF Settled
  <2>1. Places(i)  BY DEF TidyOK, Tidy
  <2> DEFINE F == {s \in Terminal : InFolder(i, s)}
  <2>2. \/ F = {}
        \/ root[i] = NoFile /\ (F = {"applied"} \/ F = {"rejected"})
    BY <2>1 DEF Places, InFolder
  <2>3. Cardinality(F) <= (IF root[i] = NoFile THEN 1 ELSE 0)
    <3>1. CASE F = {}
      <4>1. Cardinality(F) = 0  BY <3>1, FS_EmptySet
      <4> QED  BY <4>1
    <3>2. CASE root[i] = NoFile /\ (F = {"applied"} \/ F = {"rejected"})
      <4>1. Cardinality(F) = 1  BY <3>2, FS_Singleton
      <4> QED  BY <3>2, <4>1
    <3> QED  BY <2>2, <3>1, <3>2
  <2> QED  BY <2>1, <2>3 DEF Places, InFolder
<1> QED  BY <1>1, Invariant, TidyInvariant, PTL
=============================================================================
