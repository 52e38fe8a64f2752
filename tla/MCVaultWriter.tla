---------------------------- MODULE MCVaultWriter ----------------------------
(* Instances of VaultWriter for TLC: a vault of two notes in one domain.   *)
EXTENDS VaultWriter, TLC

CONSTANTS p1, p2, n1, n2, work, draft, final, orphaned

MCDomainOf == (n1 :> work) @@ (n2 :> work)
MCInitialNotes == (n1 :> {draft}) @@ (n2 :> NoNote)

NoPatch == [new |-> <<>>, edits |-> <<>>, index |-> <<>>, log |-> FALSE,
            bytes |-> 1, allowed |-> <<work>>, orphans |-> FALSE]
NewB == [path |-> n2, text |-> {final}]
EditA == [path |-> n1, old |-> {draft}, new |-> {final}]
BackA == [path |-> n1, old |-> {final}, new |-> {draft}]

(* A whole ingest: a new note, an edit, its catalogue entry and log line;  *)
(* the edit undone by another; an orphan mark; a patch that edits one note *)
(* twice; one over the limit of bytes.                                     *)
Edit1 == [NoPatch EXCEPT !.edits = <<EditA>>]
Back1 == [NoPatch EXCEPT !.edits = <<BackA>>]
Whole == [NoPatch EXCEPT !.new = <<NewB>>, !.edits = <<EditA>>, !.index = <<work>>, !.log = TRUE]
MarkA == [path |-> n1, old |-> {draft}, new |-> {draft, orphaned}]
MoreA == [path |-> n1, old |-> {final}, new |-> {draft, final}]
Twice == [NoPatch EXCEPT !.edits = <<EditA, MoreA>>]
Mark == [NoPatch EXCEPT !.edits = <<MarkA>>]
TooBig == [Edit1 EXCEPT !.bytes = 9]

RenameAB == [src |-> n1, dst |-> n2, allowed |-> <<work>>, orphans |-> FALSE]

CorePatches == {Whole, Twice}
LivePatches == {Whole, Back1, Mark, TooBig}
CoreRenames == {RenameAB}

=============================================================================
