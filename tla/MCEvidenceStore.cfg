CONSTANTS
  Runs = {r1, r2}
  Pids = {p1, p2}
  alpha = alpha
  beta = beta
  Contents = {alpha, beta}
  ImportLists <- MCImportLists
  Other = Other
  None = None
  fileA = fileA
  fileB = fileB
  v1 = v1
  v2 = v2
  Paths <- MCPaths
  Versions <- MCVersions
  MaxEdits = 2
  MaxCalls = 2
  MaxFiles = 1
  MaxAccess = 1
  MaxModules = 3
  Programs <- MCPrograms
  Projects <- MCProjects
  LibraryFiles <- MCLibraryFiles
  LibraryTexts <- MCLibraryTexts
  MaxChanges = 1
SYMMETRY Symmetry
SPECIFICATION MCSpec
CHECK_DEADLOCK FALSE
INVARIANTS
  PassedEvidenceKept
  ObjectsWhole
  
  ReadsAreEvidence
  OneReading
  Libraries
