---------------------------- MODULE MCFolderSync ----------------------------
(* The instances of FolderSync that TLC checks. *)
EXTENDS FolderSync, TLC

CONSTANTS api, mcp, f1, f2, a, b, c, s1, s2, j1, j2

(* Every title may give every slug. *)
MCAnyTitle == [f \in Files |-> Slugs]
(* Each file has titles of its own. *)
MCOwnTitle == f1 :> {s1} @@ f2 :> {s2}
(* Files, contents, slugs and job slots are interchangeable when every     *)
(* title may give every slug.                                              *)
MCSymmetry == Permutations(Files) \cup Permutations(Contents) \cup Permutations(Slugs)
                \cup Permutations(Jobs)
=============================================================================
