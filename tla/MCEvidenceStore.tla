--------------------------- MODULE MCEvidenceStore ---------------------------
(* The evidence of inputs, for TLC: runs whose programs read one input,    *)
(* two inputs, or two files with the same bytes, and share the store; the  *)
(* readers of one program over two files and two versions of each; or the  *)
(* libraries of one program and what a run keeps of them.                  *)
EXTENDS EvidenceStore, TLC

CONSTANTS alpha, beta
CONSTANTS fileA, fileB, v1, v2, Paths, Versions, MaxEdits, MaxCalls, MaxFiles, MaxAccess
VARIABLES file, bytes, edits, private, reader, call, calls, seen, generated, streams, stored, evidence, outcome
D == INSTANCE DataAccess
ASSUME ReadersConstants == D!DataConstants
access == <<file, bytes, edits, private, reader, call, calls, seen, generated, streams, stored, evidence, outcome>>

CONSTANTS MaxModules, Programs, Projects, LibraryFiles, LibraryTexts, MaxChanges
VARIABLES main, disk, changes, state, stack, visited, read, out, entries, objects, first
Lib == INSTANCE Modules WITH Paths <- LibraryFiles, Texts <- LibraryTexts
ASSUME ProjectConstants == Lib!LibraryConstants
project == <<main, disk, changes, state, stack, visited, read, out, entries, objects, first>>
VARIABLE what

MCImportLists == {<<alpha>>, <<beta, alpha>>, <<alpha, alpha>>}
MCPaths == {fileA, fileB}
MCVersions == {v1, v2}

ImportOf(path) == [k |-> "import", path |-> path]
FuncOf(f) == [k |-> "g_func", f |-> f]
OtherStatement == [k |-> "statement"]
TopA == <<"a">>
TopB == <<"b">>
SubA == <<"c", "a">>
SubB == <<"c", "b">>
MCLibraryFiles == {TopB, SubA}
MCPrograms == {<<ImportOf(TopB), ImportOf(TopA)>>, <<ImportOf(TopA), ImportOf(SubA)>>,
               <<FuncOf("f"), OtherStatement, ImportOf(TopA)>>}
AtTop == {<<FuncOf("f")>>, <<FuncOf("g"), FuncOf("g")>>, <<ImportOf(TopA), FuncOf("h")>>, <<ImportOf(TopB)>>,
          <<ImportOf(TopB), ImportOf(SubA)>>, <<ImportOf(TopA), OtherStatement>>, << >>}
Below == {<<FuncOf("f")>>, <<ImportOf(TopA)>>, <<ImportOf(TopB), FuncOf("h")>>}
MCProjects == [{TopA, TopB} -> AtTop] \union {top @@ below : top \in [{TopA, TopB} -> AtTop], below \in [{SubA, SubB} -> Below]}
MCLibraryTexts == {<<FuncOf("g")>>, <<ImportOf(TopB)>>}
Symmetry == UNION {Permutations(S) : S \in {Runs, Pids, MCPaths, MCVersions}}

-----------------------------------------------------------------------------
NoStore ==
  /\ links = TRUE /\ enforced = TRUE /\ inodes = << >> /\ object = [c \in Contents |-> 0]
  /\ temporary = [x \in Pids \X Contents |-> 0] /\ run = [r \in Runs |-> None] /\ faults = {}
NoProgram ==
  /\ file = None /\ bytes = << >> /\ edits = 0 /\ private = FALSE /\ reader = None /\ call = None /\ calls = 0
  /\ seen = {} /\ generated = {} /\ streams = {} /\ stored = {} /\ evidence = None /\ outcome = "none"

NoProject ==
  /\ main = << >> /\ disk = << >> /\ changes = 0 /\ state = "none" /\ stack = << >> /\ visited = {} /\ read = << >>
  /\ out = << >> /\ entries = << >> /\ objects = {} /\ first = << >>

MCInit == \/ what = "store" /\ Init /\ NoProgram /\ NoProject
          \/ what = "readers" /\ D!Init /\ NoStore /\ NoProject
          \/ what = "libraries" /\ Lib!Init /\ NoStore /\ NoProgram
MCNext == /\ UNCHANGED what
          /\ \/ what = "store" /\ Next /\ UNCHANGED <<access, project>>
             \/ what = "readers" /\ D!Next /\ UNCHANGED <<vars, project>>
             \/ what = "libraries" /\ Lib!Next /\ UNCHANGED <<vars, access>>
all == <<what, vars, access, project>>
MCSpec == MCInit /\ [][MCNext]_all

-----------------------------------------------------------------------------
(* What a program was given is in the evidence of its run, however files   *)
(* are changed meanwhile.                                                  *)
ReadsAreEvidence == what = "readers" => D!ReadsAreEvidence /\ D!FitsDataIsEvidence

(* All that reads a file holds one reading of it, and the snapshot of a    *)
(* batch reader is no mixture of two versions (eval_streaming_call,        *)
(* load_table and Inputs::call; Scan::copy_evidence).                      *)
OneReading == what = "readers" => D!OneReading /\ D!SnapshotsAreWhole

(* A run resolves a program of libraries as the files were when it read    *)
(* them, or refuses what cannot be resolved; what it keeps of them         *)
(* verifies as that program until it is lost or altered (resolve_with,     *)
(* preserve, verify_preserved_with_mode).                                  *)
Libraries == what = "libraries" => Lib!ResolvesAsReachable /\ Lib!EvidenceIsTheProgram

(* docs/SECURITY.md:140 of FITS data that changes after it was hashed.     *)
FitsDataReadsAreEvidence == what = "readers" => D!FitsDataReadsAreEvidence
=============================================================================
