---------------------------- MODULE AtomicVault ----------------------------
(***************************************************************************)
(* What VaultWriter promises its callers, with no process, lock or file    *)
(* system in sight: "Apply ``patch`` atomically" and "Atomically rename a  *)
(* file inside the vault" (vault/writer.py).  The notes change from one    *)
(* committed vault to the next, by a whole patch or by one rename; a call  *)
(* that raises is no step at all.  While it is disturbed nothing is said.  *)
(***************************************************************************)
EXTENDS Naturals, Sequences

CONSTANTS Notes, NoNote, InitialNotes, Patches, Renames

VARIABLES vault, disturbed

Init == vault = InitialNotes /\ ~disturbed

(* The patch as a whole: every edit finds its text in the vault the patch  *)
(* was applied to, and every note it names changes at once.                *)
Applicable(q) ==
  \A i \in DOMAIN q.edits :
    LET e == q.edits[i] IN vault[e.path] # NoNote /\ e.old \subseteq vault[e.path]

NewFileAt(q, x, text) == \E i \in DOMAIN q.new : q.new[i] = [path |-> x, text |-> text]
EditAt(q, x, text) ==
  \E i \in DOMAIN q.edits :
    q.edits[i].path = x /\ text = (vault[x] \ q.edits[i].old) \cup q.edits[i].new
Untouched(q, x) ==
  /\ \A i \in DOMAIN q.new : q.new[i].path # x
  /\ \A i \in DOMAIN q.edits : q.edits[i].path # x

Commit(q) ==
  /\ Applicable(q)
  /\ DOMAIN vault' = Notes
  /\ \A x \in Notes : \/ NewFileAt(q, x, vault'[x])
                      \/ EditAt(q, x, vault'[x])
                      \/ Untouched(q, x) /\ vault'[x] = vault[x]

Rename(r) ==
  /\ vault[r.src] # NoNote /\ vault[r.dst] = NoNote
  /\ vault' = [vault EXCEPT ![r.src] = NoNote, ![r.dst] = vault[r.src]]

Next ==
  \/ disturbed \/ disturbed'
  \/ \E q \in Patches : Commit(q)
  \/ \E r \in Renames : Rename(r)

Spec == Init /\ [][Next]_vault
=============================================================================
