-------------------------- MODULE VaultWriterAtomic --------------------------
(***************************************************************************)
(* VaultWriter implements AtomicVault, except while                        *)
(*   - a revert runs (UndoLog takes no lock), or a call that one of its    *)
(*     writes has met,                                                     *)
(*   - a call whose rollback raised, that has put a new file over a note,  *)
(*     or that names a note twice,                                         *)
(* and for as long as no process has died inside a call.  Each exception   *)
(* is needed: VaultWriter's history names what goes wrong without it.      *)
(* Failing edits, OSErrors anywhere in apply, timeouts of the lock and     *)
(* interleaved calls are all in.                                           *)
(***************************************************************************)
EXTENDS VaultWriter

Disturbed ==
  \/ deaths > 0
  \/ \E p \in Procs :
       \/ pc[p] \in Reverting
       \/ tainted[p] \cap {"raced", "rollback error", "clobbered", "repeated"} # {}

(* What a caller who takes the lock next will find.                        *)
Committed == IF lock \in Procs /\ pc[lock] \in InApply THEN before[lock] ELSE notes

Atomic == INSTANCE AtomicVault WITH vault <- Committed, disturbed <- Disturbed

(* Every step is a whole patch, a whole rename, or nothing to a caller;    *)
(* what disturbed it once does not disturb it for good.                    *)
ImplementsAtomicVault == Atomic!Spec
=============================================================================
