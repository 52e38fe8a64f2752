SPECIFICATION FairSpec
CONSTANTS
  p1 = p1  p2 = p2  n1 = n1  n2 = n2  work = work  draft = draft  final = final  orphaned = orphaned
  NoNote = NoNote  NoProc = NoProc  NoJob = NoJob  NoCommit = NoCommit
  Procs = {p1, p2}
  Notes = {n1, n2}
  Domains = {work}
  Fragments = {draft, final, orphaned}
  OrphanMark = orphaned
  DomainOf <- MCDomainOf
  InitialNotes <- MCInitialNotes
  Patches <- LivePatches
  Renames <- CoreRenames
  MaxPatchBytes = 5
  MaxFilesPerPatch = 2
  MaxIds = 2
  MaxDeaths = 0
  MaxIOErrors = 1
PROPERTIES CallsEnd ImplementsAtomicVault
