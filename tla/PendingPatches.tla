--------------------------- MODULE PendingPatches ---------------------------
(***************************************************************************)
(* The approval queue: PendingPatchStore (chat/pending.py) and the calls   *)
(* that stage, apply and reject a patch (tools/propose_note.py, ingest.py, *)
(* apply_patch.py, reject_patch.py; `brain patches` of brain_cli).         *)
(*                                                                         *)
(* brain_api, brain_mcp and brain_cli each hold a store on the same        *)
(* .brain/pending/ and take no lock.  An envelope is reduced to its        *)
(* status; every file-system effect is a step, so that another process or  *)
(* a death can come between any two.  VaultWriter.apply, a module of its   *)
(* own, is one step here: it lands the patch or raises.                    *)
(***************************************************************************)
EXTENDS Naturals, FiniteSets

CONSTANTS
  Procs,        \* processes with a store on this vault
  Ids,          \* patch ids
  MaxLandings,  \* bound: landings of one patch after which no apply starts
  MaxDeaths,    \* bound: processes that die in a run
  NoFile, NoId

Terminal == {"rejected", "applied"}
Statuses == {"pending"} \cup Terminal

(* What an envelope file holds.  "torn": its writer died in write_text.    *)
Envelope == Statuses \cup {"torn"}

ASSUME BoundsAssumption ==
  /\ MaxLandings \in Nat /\ MaxDeaths \in Nat
  /\ NoFile \notin Envelope /\ NoId \notin Ids

VARIABLES
  root,    \* id -> pending/<id>.json
  tmp,     \* id -> pending/<id>.json.tmp
  filed,   \* status -> id -> pending/<status>/<id>.json
  pc, on, to,      \* each process's running call, its patch, _move's new_status
  staged,  \* history: the ids put has returned
  landed,  \* history: id -> how often VaultWriter.apply has written the patch
  deaths,
  shared,  \* history: the ids two calls have worked on at once
  cut      \* history: the ids whose apply died after the patch had landed

files == <<root, tmp, filed>>
history == <<staged, landed, deaths, shared, cut>>
vars == <<root, tmp, filed, pc, on, to, staged, landed, deaths, shared, cut>>

(* "landed": mark_applied has yet to look for the file.                    *)
Moving == {"rewrite", "replace", "rename"}
PCs == {"idle", "stage", "apply", "landed"} \cup Moving

Readable(i) == root[i] \in Statuses

(* Mutant: list() does not look at the status.                             *)
Queue_All == {i \in Ids : root[i] # NoFile}

(* What list() shows: the envelopes whose status is still PENDING.  While  *)
(* one file is torn list() raises and shows nothing (pending.py:108): this *)
(* is what it shows when it can read them all.                             *)
Queue == {i \in Ids : root[i] = "pending"}

Init ==
  /\ root = [i \in Ids |-> NoFile]
  /\ tmp = [i \in Ids |-> NoFile]
  /\ filed = [s \in Terminal |-> [i \in Ids |-> NoFile]]
  /\ pc = [p \in Procs |-> "idle"]
  /\ on = [p \in Procs |-> NoId]
  /\ to = [p \in Procs |-> "pending"]
  /\ staged = {}
  /\ landed = [i \in Ids |-> 0]
  /\ deaths = 0
  /\ shared = {}
  /\ cut = {}
-----------------------------------------------------------------------------
(* A call's frame.                                                         *)

Start(p, i, at) ==
  /\ pc[p] = "idle"
  /\ pc' = [pc EXCEPT ![p] = at]
  /\ on' = [on EXCEPT ![p] = i]
  /\ shared' = IF \E q \in Procs \ {p} : on[q] = i THEN shared \cup {i} ELSE shared

(* Mutant: the call's patch is not forgotten.                              *)
Return_KeepsId(p) ==
  /\ pc' = [pc EXCEPT ![p] = "idle"]
  /\ to' = [to EXCEPT ![p] = "pending"]
  /\ UNCHANGED on

Return(p) ==
  /\ pc' = [pc EXCEPT ![p] = "idle"]
  /\ on' = [on EXCEPT ![p] = NoId]
  /\ to' = [to EXCEPT ![p] = "pending"]

Goto(p, at) == pc' = [pc EXCEPT ![p] = at] /\ UNCHANGED on

(* put: the id is new (a millisecond and 32 random bits); the file is      *)
(* written under its temporary name and renamed.                           *)
Put(p, i) ==
  /\ i \notin staged /\ tmp[i] = NoFile
  /\ Start(p, i, "stage")
  /\ tmp' = [tmp EXCEPT ![i] = "pending"]
  /\ UNCHANGED <<root, filed, to, staged, landed, deaths, cut>>

Stage(p) ==
  LET i == on[p] IN
  /\ pc[p] = "stage"
  /\ root' = [root EXCEPT ![i] = tmp[i]]
  /\ tmp' = [tmp EXCEPT ![i] = NoFile]
  /\ staged' = staged \cup {i}
  /\ Return(p)
  /\ UNCHANGED <<filed, landed, deaths, shared, cut>>

(* brain_apply_patch, `brain patches apply`: get() and, on the command     *)
(* line, the question to the user.  get() returns any envelope it finds.   *)
(* The id may come from an old listing; one get() cannot read ends here.   *)
Apply(p, i) ==
  /\ Readable(i)
  /\ landed[i] < MaxLandings
  /\ Start(p, i, "apply")
  /\ UNCHANGED <<files, to, staged, landed, deaths, cut>>

(* Mutant: mark_applied is forgotten.                                      *)
Land_Unmarked(p) ==
  /\ pc[p] = "apply"
  /\ landed' = [landed EXCEPT ![on[p]] = @ + 1]
  /\ Return(p)
  /\ UNCHANGED <<files, staged, deaths, shared, cut>>

Land(p) ==
  /\ pc[p] = "apply"
  /\ landed' = [landed EXCEPT ![on[p]] = @ + 1]
  /\ to' = [to EXCEPT ![p] = "applied"]
  /\ Goto(p, "landed")
  /\ UNCHANGED <<files, staged, deaths, shared, cut>>

(* Mutant: mark_applied in a finally clause.                               *)
ApplyRaises_Marks(p) ==
  /\ pc[p] = "apply"
  /\ to' = [to EXCEPT ![p] = "applied"]
  /\ Goto(p, "landed")
  /\ UNCHANGED <<files, history>>

(* The domain is out of scope, the user says no, or VaultWriter raises.    *)
ApplyRaises(p) ==
  /\ pc[p] = "apply"
  /\ Return(p)
  /\ UNCHANGED <<files, history>>

(* _move looks for the file and reads it, for mark_applied ...             *)
MarkApplied(p) ==
  /\ pc[p] = "landed"
  /\ Readable(on[p])
  /\ Goto(p, "rewrite")
  /\ UNCHANGED <<files, to, history>>

(* ... which raises when somebody else has moved it meanwhile ...          *)
MarkAppliedRaises(p) ==
  /\ pc[p] = "landed"
  /\ ~Readable(on[p])
  /\ Return(p)
  /\ UNCHANGED <<files, history>>

(* ... and for brain_reject_patch and `brain patches reject`.              *)
Reject(p, i) ==
  /\ Readable(i)
  /\ Start(p, i, "rewrite")
  /\ to' = [to EXCEPT ![p] = "rejected"]
  /\ UNCHANGED <<files, staged, landed, deaths, cut>>

(* Mutant: the file is renamed away and rewritten there.                   *)
Rewrite_Away(p) ==
  /\ pc[p] = "rewrite"
  /\ tmp' = [tmp EXCEPT ![on[p]] = to[p]]
  /\ root' = [root EXCEPT ![on[p]] = NoFile]
  /\ Goto(p, "replace")
  /\ UNCHANGED <<filed, to, history>>

Rewrite(p) ==
  /\ pc[p] = "rewrite"
  /\ tmp' = [tmp EXCEPT ![on[p]] = to[p]]
  /\ Goto(p, "replace")
  /\ UNCHANGED <<root, filed, to, history>>

(* Mutant: the temporary file goes straight to the folder.                 *)
Replace_Straight(p) ==
  LET i == on[p] IN
  /\ pc[p] = "replace"
  /\ tmp[i] # NoFile
  /\ filed' = [filed EXCEPT ![to[p]][i] = tmp[i]]
  /\ tmp' = [tmp EXCEPT ![i] = NoFile]
  /\ Return(p)
  /\ UNCHANGED <<root, history>>

(* Phase 1.  The temporary name is the patch's, not the process's: the     *)
(* file renamed may be another's, or gone.                                 *)
Replace(p) ==
  LET i == on[p] IN
  /\ pc[p] = "replace"
  /\ tmp[i] # NoFile
  /\ root' = [root EXCEPT ![i] = tmp[i]]
  /\ tmp' = [tmp EXCEPT ![i] = NoFile]
  /\ Goto(p, "rename")
  /\ UNCHANGED <<filed, to, history>>

(* Phase 2, over whatever the folder holds.                                *)
Rename(p) ==
  LET i == on[p] IN
  /\ pc[p] = "rename"
  /\ root[i] # NoFile
  /\ filed' = [filed EXCEPT ![to[p]][i] = root[i]]
  /\ root' = [root EXCEPT ![i] = NoFile]
  /\ Return(p)
  /\ UNCHANGED <<tmp, history>>

(* FileNotFoundError from os.replace: the tool's caller gets it.           *)
MoveRaises(p) ==
  LET i == on[p] IN
  /\ \/ pc[p] = "replace" /\ tmp[i] = NoFile
     \/ pc[p] = "rename" /\ root[i] = NoFile
  /\ Return(p)
  /\ UNCHANGED <<files, history>>

(* The process dies and is started again.  In write_text it leaves the     *)
(* temporary file truncated.                                               *)
Die(p) ==
  /\ pc[p] # "idle" /\ deaths < MaxDeaths
  /\ deaths' = deaths + 1
  /\ cut' = IF to[p] = "applied" THEN cut \cup {on[p]} ELSE cut
  /\ \/ UNCHANGED tmp
     \/ pc[p] = "rewrite" /\ tmp' = [tmp EXCEPT ![on[p]] = "torn"]
  /\ Return(p)
  /\ UNCHANGED <<root, filed, staged, landed, shared>>

Step(p) ==
  \/ Stage(p) \/ Land(p) \/ ApplyRaises(p) \/ MarkApplied(p) \/ MarkAppliedRaises(p)
  \/ Rewrite(p) \/ Replace(p) \/ Rename(p) \/ MoveRaises(p)

Call(p) == \E i \in Ids : Put(p, i) \/ Apply(p, i) \/ Reject(p, i)

(* With no call running, nobody need call again.                           *)
Quiet == (\A p \in Procs : pc[p] = "idle") /\ UNCHANGED vars

Next == (\E p \in Procs : Call(p) \/ Step(p) \/ Die(p)) \/ Quiet

Spec == Init /\ [][Next]_vars

(* A process runs the call it has begun; a user answers the question.      *)
FairSpec == Spec /\ \A p \in Procs : WF_vars(Step(p))
-----------------------------------------------------------------------------
(* Properties.                                                             *)

(* The type invariant; a process has a patch while a call runs.            *)
TypeOK ==
  /\ root \in [Ids -> Envelope \cup {NoFile}]
  /\ tmp \in [Ids -> Envelope \cup {NoFile}]
  /\ filed \in [Terminal -> [Ids -> Envelope \cup {NoFile}]]
  /\ pc \in [Procs -> PCs]
  /\ on \in [Procs -> Ids \cup {NoId}]
  /\ \A p \in Procs : on[p] = NoId <=> pc[p] = "idle"
  /\ to \in [Procs -> Statuses]
  /\ staged \subseteq Ids
  /\ landed \in [Ids -> Nat]
  /\ deaths \in Nat
  /\ shared \subseteq Ids
  /\ cut \subseteq Ids

InFolder(i, s) == filed[s][i] # NoFile

(* A patch that was staged is never lost: whichever calls race on it and   *)
(* wherever one dies, .brain/pending/ or one of its folders has a file of  *)
(* it.                                                                     *)
NothingLost == \A i \in staged : root[i] # NoFile \/ \E s \in Terminal : InFolder(i, s)

(* What lies in applied/ is in the vault: no race and no death files a     *)
(* patch there that VaultWriter has not written.                           *)
AppliedLanded == \A i \in Ids : InFolder(i, "applied") => landed[i] > 0

(* "so the stale transition does not resurface in the queue": once list()  *)
(* no longer shows a patch it never shows it again, although a second      *)
(* mover can bring the file itself back into pending/.                     *)
NeverRequeued == [][\A i \in staged : i \notin Queue => i \notin Queue']_vars

(* A patch that no two calls worked on at once and none of whose applies   *)
(* died half way lands at most once, is in one place, and its place and    *)
(* the status in the file say what happened to it.                         *)
Settled ==
  \A i \in Ids \ (shared \cup cut) :
    /\ landed[i] <= 1
    /\ Cardinality({s \in Terminal : InFolder(i, s)}) <= (IF root[i] = NoFile THEN 1 ELSE 0)
    /\ \A s \in Terminal : InFolder(i, s) => filed[s][i] = s
    /\ InFolder(i, "rejected") => landed[i] = 0

(* A patch that has landed leaves the queue, whatever the others do to its *)
(* files, unless the process that landed it died.                          *)
LandedLeavesQueue ==
  \A p \in Procs, i \in Ids :
    pc[p] = "landed" /\ on[p] = i ~> i \notin Queue \/ i \in cut
=============================================================================
