----------------------------- MODULE DataAccess -----------------------------
(***************************************************************************)
(* The inputs and generated outputs of one program (the builtins with side *)
(* effects of src/src/evaluator.rs and the readers behind them).  Five     *)
(* readers keep a digest of what they read; when the program is over, the  *)
(* run copies every input and compares the copy with the digest.  Files    *)
(* have two blocks, and other programs rewrite them in place or replace    *)
(* them between any two reads of a block.                                  *)
(***************************************************************************)
EXTENDS Naturals, Sequences, FiniteSets

CONSTANTS
  Paths, Versions, None,
  MaxEdits,       \* changes of files by others
  MaxCalls,       \* calls of the program
  MaxFiles,       \* files of the scientific readers (32)
  MaxAccess       \* recorded calls per scientific file (64)

(* What a reader keeps of a file, and a copy of it in the evidence.        *)
Kinds == {"fits", "table", "scan", "scientific", "batch"}
Modes == {"fits", "header", "data", "csv", "tsv", "NPY", "ECSV"}
Opens == [digest : Versions \X Versions, mode : Modes, inode : Nat, head : Versions, access : Nat]
Copies == [blocks : Seq(Versions), from : (Kinds \union {"store"}) \X Paths]

DataConstants ==
  /\ {MaxEdits, MaxCalls, MaxFiles, MaxAccess, Cardinality(Paths)} \subseteq Nat
  /\ None \notin Opens \union Copies

VARIABLES
  file,           \* path -> inode
  bytes,          \* every inode: the version that is in it now
  edits,
  private,        \* the program says GO_PRIVATE
  reader,         \* kind and path -> what the reader keeps, or None
  call,           \* the read in progress: a call or the copy of an input
  calls,
  seen,           \* history: path, kind, block and version the program was given
  generated,      \* names of generated outputs
  streams,        \* names of output streams
  stored,         \* objects of the store: format and digest
  evidence,       \* kind and path -> the preserved copy, or None
  outcome         \* "running", "error", "preserving", "PASS", "FAIL"

vars == <<file, bytes, edits, private, reader, call, calls, seen, generated, streams, stored, evidence, outcome>>
world == <<file, bytes, edits, stored>>
outputs == <<generated, streams>>

Functions ==    \* the reader behind a function, and the delimiter, format or part it names
  {<<"fits", "header">>, <<"fits", "data">>, <<"table", "csv">>, <<"table", "tsv">>,
   <<"scan", "csv">>, <<"scan", "tsv">>, <<"scientific", "NPY">>, <<"scientific", "ECSV">>, <<"batch", "csv">>}

Has(k, p) == reader[<<k, p>>] # None
Idle == outcome = "running" /\ call = None
Fail == outcome' = "error" /\ call' = None

-----------------------------------------------------------------------------
Init ==
  /\ \E v \in Versions : bytes = [n \in 1..Cardinality(Paths) |-> v]
  /\ file \in [Paths -> 1..Cardinality(Paths)] /\ \A p, q \in Paths : file[p] = file[q] => p = q
  /\ edits = 0 /\ private \in BOOLEAN
  /\ reader = [x \in Kinds \X Paths |-> None] /\ call = None /\ calls = 0 /\ seen = {}
  /\ generated = {} /\ streams = {}
  /\ stored \in {{}, {<<"fits", <<v, v>>>> : v \in Versions}}
  /\ evidence = [x \in Kinds \X Paths |-> None] /\ outcome = "running"

(* Who may open a path that another reader has.                            *)
Refused(k, mode, p) ==
  \/ private
  \/ k \in {"fits", "table", "scan"} /\ (Has("batch", p) \/ Has("scientific", p))
  \/ k = "table" /\ Has("scan", p) /\ reader[<<"scan", p>>].mode # mode
  \/ k = "scan" /\ \E j \in {"table", "scan"} : Has(j, p) /\ reader[<<j, p>>].mode # mode
  \/ k \in {"batch", "scientific"} /\ \E j \in Kinds \ {"scientific"} : Has(j, p)
  \/ k = "batch" /\ Has("scientific", p)
  \/ k = "scientific" /\ ~Has(k, p) /\ Cardinality({q \in Paths : Has(k, q)}) >= MaxFiles

(* A call of a reader: it is refused, answered from what is there, or      *)
(* starts to read.  Every scan reads again.                                *)
Call(k, mode, p) ==
  /\ Idle /\ calls < MaxCalls /\ calls' = calls + 1
  /\ IF Refused(k, mode, p) THEN Fail
     ELSE /\ call' = [kind |-> k, mode |-> mode, path |-> p, inode |-> file[p],
                      blocks |-> << >>, cached |-> Has(k, p) /\ k # "scan"]
          /\ UNCHANGED outcome
  /\ UNCHANGED <<world, private, reader, seen, outputs, evidence>>

(* The blocks a reader takes: FITS headers are parsed before the whole     *)
(* file is hashed, a batch snapshot is compared with a second read.        *)
Needed(k) == IF k = "fits" THEN 3 ELSE IF k = "batch" THEN 4 ELSE 2

(* The next block is read.  The second read of a batch input is of the     *)
(* path, the others are of the file that was opened.                       *)
Read ==
  /\ call # None /\ ~call.cached /\ Len(call.blocks) < Needed(call.kind)
  /\ LET n == IF call.kind = "batch" /\ Len(call.blocks) = 2 THEN file[call.path] ELSE call.inode
     IN call' = [call EXCEPT !.blocks = Append(@, bytes[n]), !.inode = n]
  /\ UNCHANGED <<world, private, reader, calls, seen, outputs, evidence, outcome>>

Digest(c) == IF c.kind = "fits" THEN <<c.blocks[2], c.blocks[3]>> ELSE <<c.blocks[1], c.blocks[2]>>
Opened(c) ==
  [digest |-> Digest(c), mode |-> IF c.kind = "fits" THEN "fits" ELSE c.mode,
   inode |-> c.inode, head |-> c.blocks[1], access |-> IF c.kind = "scientific" THEN 1 ELSE 0]
Full == call # None /\ ~call.cached /\ Len(call.blocks) = Needed(call.kind)

(* Mutants: the second read is not compared; or the digests of earlier     *)
(* reads of the path are not.                                              *)
ChangedUnchecked(c) ==
  \/ c.kind = "table" /\ Has("scan", c.path) /\ reader[<<"scan", c.path>>].digest # Digest(c)
  \/ c.kind = "scan" /\ \E j \in {"table", "scan"} : Has(j, c.path) /\ reader[<<j, c.path>>].digest # Digest(c)

ChangedOnce(c) == c.kind = "batch" /\ SubSeq(c.blocks, 3, 4) # Digest(c)

(* The snapshot is refused if the second read differs; a scan or a table   *)
(* if what was read before of the same path had another digest.            *)
Changed(c) ==
  \/ c.kind = "batch" /\ SubSeq(c.blocks, 3, 4) # Digest(c)
  \/ c.kind = "table" /\ Has("scan", c.path) /\ reader[<<"scan", c.path>>].digest # Digest(c)
  \/ c.kind = "scan" /\ \E j \in {"table", "scan"} : Has(j, c.path) /\ reader[<<j, c.path>>].digest # Digest(c)

(* What the program is given of a file that is open: the header as it was  *)
(* parsed, data as it is now; the other readers' bytes.                    *)
Given(c, r) ==
  LET part == IF c.kind # "fits" THEN {1, 2} ELSE IF c.mode = "header" THEN {1} ELSE {2}
      Version(b) == IF c.kind # "fits" THEN r.digest[b] ELSE IF b = 1 THEN r.head ELSE bytes[r.inode]
  IN {<<c.path, c.kind, b, Version(b)>> : b \in part}

(* The reader keeps what it read before it compares, but for a scan.       *)
Open ==
  /\ Full /\ outcome = "running"
  /\ LET r == Opened(call)
     IN IF Changed(call)
        THEN /\ Fail /\ UNCHANGED seen
             /\ reader' = IF call.kind = "table" THEN [reader EXCEPT ![<<call.kind, call.path>>] = r] ELSE reader
        ELSE /\ reader' = [reader EXCEPT ![<<call.kind, call.path>>] = r]
             /\ seen' = seen \union Given(call, r)
             /\ call' = None /\ UNCHANGED outcome
  /\ UNCHANGED <<world, private, calls, outputs, evidence>>

Worn(r) == r.access >= MaxAccess

(* A later call on an open input: the same delimiter or format, and for a  *)
(* table the digest of a scan that came after it.                          *)
Reuse ==
  /\ call # None /\ call.cached
  /\ LET r == reader[<<call.kind, call.path>>]
         refused == \/ call.kind \in {"table", "scientific"} /\ r.mode # call.mode
                    \/ call.kind = "scientific" /\ Worn(r)
                    \/ call.kind = "table" /\ Has("scan", call.path) /\ reader[<<"scan", call.path>>].digest # r.digest
     IN IF refused THEN Fail /\ UNCHANGED <<reader, seen>>
        ELSE /\ reader' = [reader EXCEPT ![<<call.kind, call.path>>].access = IF call.kind = "scientific" THEN @ + 1 ELSE @]
             /\ seen' = seen \union Given(call, r)
             /\ call' = None /\ UNCHANGED outcome
  /\ UNCHANGED <<world, private, calls, outputs, evidence>>

(* The file does not decode, or cannot be read: nothing is kept, except    *)
(* by the readers that keep the bytes before they decode them.             *)
ReadError ==
  /\ Full /\ outcome = "running" /\ Fail
  /\ reader' = IF call.kind \in {"scientific", "batch"} /\ ~Changed(call)
               THEN [reader EXCEPT ![<<call.kind, call.path>>] = Opened(call)] ELSE reader
  /\ UNCHANGED <<world, private, calls, seen, outputs, evidence>>

-----------------------------------------------------------------------------
Taken(name) == name \in generated \union streams

(* write_text, write_csv, write_tsv, write_json, exports and joins.        *)
AddOutput(name) ==
  /\ Idle /\ calls < MaxCalls /\ calls' = calls + 1
  /\ IF private \/ Taken(name) THEN Fail /\ UNCHANGED generated
                               ELSE generated' = generated \union {name} /\ UNCHANGED <<call, outcome>>
  /\ UNCHANGED <<world, private, reader, seen, streams, evidence>>

(* A plot is a figure and its evidence.                                    *)
Plot ==
  /\ Idle /\ calls < MaxCalls /\ calls' = calls + 1
  /\ IF private \/ Taken("figure") \/ Taken("figure.plot.json") THEN Fail /\ UNCHANGED generated
     ELSE generated' = generated \union {"figure", "figure.plot.json"} /\ UNCHANGED <<call, outcome>>
  /\ UNCHANGED <<world, private, reader, seen, streams, evidence>>

OpenStream(name) ==
  /\ Idle /\ calls < MaxCalls /\ calls' = calls + 1
  /\ IF private \/ Taken(name) THEN Fail /\ UNCHANGED streams
     ELSE streams' = streams \union {name} /\ UNCHANGED <<call, outcome>>
  /\ UNCHANGED <<world, private, reader, seen, generated, evidence>>

-----------------------------------------------------------------------------
(* data_imports: a path that was scanned is listed once, as a scan.        *)
Imports == {x \in Kinds \X Paths : Has(x[1], x[2]) /\ ~(x[1] = "table" /\ Has("scan", x[2]))}

End ==
  /\ Idle \/ outcome = "error"
  /\ outcome' = IF outcome = "error" THEN "FAIL" ELSE IF Imports = {} THEN "PASS" ELSE "preserving"
  /\ UNCHANGED <<world, private, reader, call, calls, seen, outputs, evidence>>

(* copy_data_evidence asks the readers in this order for the digest: the   *)
(* snapshots in memory or staged, then the open files.                     *)
Order == <<"scientific", "batch", "scan", "table", "fits">>
Source(digest) ==
  LET holds(k) == {p \in Paths : Has(k, p) /\ reader[<<k, p>>].digest = digest}
      i == CHOOSE j \in DOMAIN Order : holds(Order[j]) # {} /\ \A h \in 1..j-1 : holds(Order[h]) = {}
  IN {<<Order[i], p>> : p \in holds(Order[i])}

(* Mutant: the copy's digest is recorded and not compared.                 *)
SealedAnyway(x, copy, from) ==
  /\ evidence' = [evidence EXCEPT ![x] = [blocks |-> copy, from |-> from]]
  /\ outcome' = IF \A y \in Imports \ {x} : evidence[y] # None THEN "PASS" ELSE outcome

(* A copy with the right digest decides; the run passes with the last.     *)
Sealed(x, copy, from) ==
  /\ evidence' = [evidence EXCEPT ![x] = [blocks |-> copy, from |-> from]]
  /\ outcome' = IF copy # reader[x].digest THEN "FAIL"
                ELSE IF \A y \in Imports \ {x} : evidence[y] # None THEN "PASS" ELSE outcome

Object(x) == <<reader[x].mode, reader[x].digest>>

(* An object that an earlier run or import registered is linked: the input *)
(* is not read again.                                                      *)
Link(x) ==
  /\ outcome = "preserving" /\ call = None /\ evidence[x] = None /\ Object(x) \in stored
  /\ Sealed(x, reader[x].digest, <<"store", x[2]>>)
  /\ UNCHANGED <<world, private, reader, call, calls, seen, outputs>>

Preserve(x) ==
  /\ outcome = "preserving" /\ call = None /\ evidence[x] = None /\ Object(x) \notin stored
  /\ \E s \in Source(reader[x].digest) :
       call' = [kind |-> s[1], mode |-> reader[s].mode, path |-> s[2], inode |-> reader[s].inode,
                blocks |-> << >>, cached |-> FALSE, for |-> x]
  /\ UNCHANGED <<world, private, reader, calls, seen, outputs, evidence, outcome>>

(* A block of the copy: from the file that is still open, or as kept.      *)
Copy ==
  /\ outcome = "preserving" /\ call # None /\ Len(call.blocks) < 2
  /\ LET b == Len(call.blocks) + 1
     IN call' = [call EXCEPT !.blocks = Append(@,
          IF call.kind \in {"scan", "fits"} THEN bytes[call.inode] ELSE reader[<<call.kind, call.path>>].digest[b])]
  /\ UNCHANGED <<world, private, reader, calls, seen, outputs, evidence, outcome>>

(* The copy is hashed, and registered if it is what was read.              *)
Compare ==
  /\ outcome = "preserving" /\ call # None /\ Len(call.blocks) = 2
  /\ Sealed(call.for, call.blocks, <<call.kind, call.path>>)
  /\ stored' = IF call.blocks = reader[call.for].digest THEN stored \union {Object(call.for)} ELSE stored
  /\ call' = None
  /\ UNCHANGED <<file, bytes, edits, private, reader, calls, seen, outputs>>

-----------------------------------------------------------------------------
(* Another program rewrites a file in place, or replaces it.               *)
Edit(p) ==
  /\ edits < MaxEdits /\ edits' = edits + 1 /\ outcome \in {"running", "preserving"}
  /\ \E v \in Versions \ {bytes[file[p]]} :
       \/ bytes' = [bytes EXCEPT ![file[p]] = v] /\ UNCHANGED file
       \/ bytes' = Append(bytes, v) /\ file' = [file EXCEPT ![p] = Len(bytes')]
  /\ UNCHANGED <<private, reader, call, calls, seen, outputs, stored, evidence, outcome>>

Next ==
  \/ \E f \in Functions, p \in Paths : Call(f[1], f[2], p)
  \/ outcome = "running" /\ Read
  \/ Open \/ Reuse \/ ReadError
  \/ \E name \in {"table", "figure.plot.json"} : AddOutput(name)
  \/ Plot \/ OpenStream("table")
  \/ End \/ (\E x \in Imports : Link(x) \/ Preserve(x)) \/ Copy \/ Compare
  \/ \E p \in Paths : Edit(p)

Spec == Init /\ [][Next]_vars

-----------------------------------------------------------------------------
Block == Versions
Record == [digest : Block \X Block, mode : {"fits", "csv", "tsv", "NPY", "ECSV"},
           inode : DOMAIN bytes, head : Block, access : 0..MaxAccess]

(* Every variable stays in its domain, the recorded accesses within their  *)
(* limit.                                                                  *)
TypeOK ==
  /\ file \in [Paths -> DOMAIN bytes] /\ bytes \in Seq(Versions)
  /\ edits \in 0..MaxEdits /\ private \in BOOLEAN /\ calls \in 0..MaxCalls
  /\ \A x \in Kinds \X Paths : reader[x] # None => reader[x] \in Record
  /\ call # None => call.kind \in Kinds /\ call.path \in Paths /\ Len(call.blocks) <= Needed(call.kind)
  /\ seen \subseteq Paths \X Kinds \X (1..2) \X Versions
  /\ generated \subseteq {"table", "figure", "figure.plot.json"} /\ streams \subseteq {"table"}
  /\ outcome \in {"running", "error", "preserving", "PASS", "FAIL"}

Kept(k, p) == IF k = "table" /\ Has("scan", p) THEN evidence[<<"scan", p>>] ELSE evidence[<<k, p>>]
InEvidence(s) == Kept(s[2], s[1]) # None /\ Kept(s[2], s[1]).blocks[s[3]] = s[4]

(* "exact parsed-byte evidence": in a run that passes, every byte that a   *)
(* program was given by the readers that keep what they read is in the     *)
(* evidence, however files are changed meanwhile.                          *)
ReadsAreEvidence == outcome = "PASS" => \A s \in seen : s[2] # "fits" => InEvidence(s)

(* FITS data is read from the open file after its hash: an accepted copy   *)
(* of that file is what the program was given, unless a change was undone. *)
FitsDataIsEvidence ==
  outcome = "PASS" /\ edits <= 1 =>
    \A s \in seen : s[2] = "fits" /\ s[3] = 2 /\ Kept("fits", s[1]).from = <<"fits", s[1]>> => InEvidence(s)

(* What the readers of a path hold is one file in one interpretation while *)
(* the run goes on, whatever was called in which order: tables and scans   *)
(* have the same delimiter and the same digest, the others a path alone.   *)
OneReading ==
  outcome \notin {"error", "FAIL"} =>
    \A p \in Paths :
      /\ Has("table", p) /\ Has("scan", p) =>
           reader[<<"table", p>>].digest = reader[<<"scan", p>>].digest /\ reader[<<"table", p>>].mode = reader[<<"scan", p>>].mode
      /\ Has("batch", p) => \A k \in Kinds \ {"batch"} : ~Has(k, p)
      /\ Has("scientific", p) => \A k \in Kinds \ {"scientific"} : ~Has(k, p)

(* "Batch input changed during snapshot": a snapshot is a state of the     *)
(* file and not a mixture, unless it was changed three times meanwhile.    *)
SnapshotsAreWhole ==
  edits <= 2 => \A p \in Paths : Has("batch", p) => reader[<<"batch", p>>].digest[1] = reader[<<"batch", p>>].digest[2]

(* docs: "a concurrent in-place change therefore converts the run to a     *)
(* machinery failure": the data that was read of a FITS file is in the      *)
(* evidence of a run that passes.                                          *)
FitsDataReadsAreEvidence ==
  outcome = "PASS" /\ edits <= 1 => \A s \in seen : s[2] = "fits" /\ s[3] = 2 => InEvidence(s)
=============================================================================
