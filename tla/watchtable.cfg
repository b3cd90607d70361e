SPECIFICATION FairSpec
CONSTANTS
  i1 = i1
  i2 = i2
  NoFid = NoFid
  Inodes <- MCInodes
  Entries <- MCEntries
  Names <- MCNames
  FileLists <- MCFileLists
  Replacements <- MCReplacements
  WatchFilesystem = FALSE
  Errnos = {2}
  MaxWd = 2
  MaxId = 4
  MaxName = 3
INVARIANTS
  TypeOK
  IndexConsistent
  KernelWatchTracked
  FanotifyDescriptorsUnique
  ReplaceLeavesNoOldName
PROPERTIES
  StableAttribution
  CallReturns
