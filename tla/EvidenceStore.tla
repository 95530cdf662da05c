---------------------------- MODULE EvidenceStore ----------------------------
(***************************************************************************)
(* The evidence of data inputs (preserve_data_evidence and its helpers in  *)
(* src/src/runtime.rs): the runs of a project keep one object per content  *)
(* in .goblin/imports, and every run directory attaches the objects it     *)
(* read by a hard link, or by a copy where links are not supported.  Runs  *)
(* are processes; each file-system call that another run can see is one    *)
(* step.  A content stands for its bytes, its digest and the file name     *)
(* made of the digest and the format's extension.                          *)
(***************************************************************************)
EXTENDS Naturals, Sequences

CONSTANTS
  Runs, Pids, Contents,
  ImportLists,    \* the inputs a program can have read, in their order
  Other,          \* any other bytes: a partial, changed or damaged file
  None

Steps == {"look", "copy", "register", "fill", "verify", "readonly", "hash", "rehash",
          "exists", "direct", "attach", "seal"}
Outcomes == {"running", "PASS", "FAIL", "damaged", "dead"}
(* A run over some inputs, when there are so many files.                   *)
RunOf(imports, files) ==
  [pid : Pids, imports : {imports}, index : DOMAIN imports, step : Steps, outcome : Outcomes,
   attached : [Contents -> files], receipt : [DOMAIN imports -> Contents \union {Other, None}]]

ASSUME EvidenceConstants ==
  /\ ImportLists \subseteq Seq(Contents) \ {<< >>}
  /\ Other \notin Contents /\ None # Other /\ \A imports \in ImportLists : None \notin RunOf(imports, Nat)

VARIABLES
  links,          \* the file system has hard links
  enforced,       \* the read-only bit keeps this user from writing
  inodes,         \* every file ever created: its bytes and its read-only bit
  object,         \* the store: the inode registered for each content, or 0
  temporary,      \* the store's temporaries, by pid and content
  run,            \* each run: its process, inputs, receipt and attached evidence
  faults          \* what went wrong so far; bound: each kind once

vars == <<links, enforced, inodes, object, temporary, run, faults>>
machine == <<links, enforced>>

Fault(kind) == kind \notin faults /\ faults' = faults \union {kind}
Bytes(n) == IF n = 0 THEN None ELSE inodes[n].bytes
NewFile(bytes) == inodes' = Append(inodes, [bytes |-> bytes, readonly |-> FALSE])
Started(r) == run[r] # None
Active(r) == Started(r) /\ run[r].outcome = "running"
At(r, step) == Active(r) /\ run[r].step = step
Import(r) == run[r].imports[run[r].index]
Stored(r) == object[Import(r)]
Temporary(r) == temporary[<<run[r].pid, Import(r)>>]
Attached(r) == run[r].attached[Import(r)]
SetObject(r, n) == object' = [object EXCEPT ![Import(r)] = n]
SetTemporary(r, n) == temporary' = [temporary EXCEPT ![<<run[r].pid, Import(r)>>] = n]
Go(r, step) == run' = [run EXCEPT ![r].step = step]
End(r, outcome) == run' = [run EXCEPT ![r].outcome = outcome]
Attach(r, n) == run' = [run EXCEPT ![r].attached[Import(r)] = n, ![r].step = "seal"]

(* A link is refused: always on a file system without them, else by error. *)
LinkRefused == IF links THEN Fault("error") ELSE UNCHANGED faults

-----------------------------------------------------------------------------
Init ==
  /\ links \in BOOLEAN /\ enforced \in BOOLEAN
  /\ inodes = << >> /\ object = [c \in Contents |-> 0]
  /\ temporary = [x \in Pids \X Contents |-> 0]
  /\ run = [r \in Runs |-> None] /\ faults = {}

(* Pids are used again, but not by two processes at once.                  *)
Start(r, pid, imports) ==
  /\ ~Started(r) /\ \A q \in Runs : Active(q) => run[q].pid # pid
  /\ run' = [run EXCEPT ![r] =
       [pid |-> pid, imports |-> imports, index |-> 1, step |-> "look", outcome |-> "running",
        attached |-> [c \in Contents |-> 0], receipt |-> [i \in DOMAIN imports |-> None]]]
  /\ UNCHANGED <<machine, inodes, object, temporary, faults>>

(* Mutant: a temporary of an earlier process with this pid is kept.        *)
LookOnly(r) ==
  /\ At(r, "look") /\ Go(r, IF Stored(r) # 0 THEN "hash" ELSE "copy")
  /\ UNCHANGED <<machine, inodes, object, temporary, faults>>

(* Is there an object?  If not, a temporary that an earlier process with   *)
(* this pid left is removed.                                               *)
Look(r) ==
  /\ At(r, "look")
  /\ IF Stored(r) # 0 THEN Go(r, "hash") /\ UNCHANGED temporary
                      ELSE Go(r, "copy") /\ SetTemporary(r, 0)
  /\ UNCHANGED <<machine, inodes, object, faults>>

(* copy_data_evidence to the new temporary, from what was read.            *)
Copy(r) ==
  /\ At(r, "copy") /\ Temporary(r) = 0
  /\ NewFile(Import(r)) /\ SetTemporary(r, Len(inodes'))
  /\ Go(r, "register")
  /\ UNCHANGED <<machine, object, faults>>

(* Mutant: the digest of the copy is not compared.                         *)
CopyUnchecked(r) ==
  /\ At(r, "copy") /\ Temporary(r) = 0
  /\ NewFile(Other) /\ SetTemporary(r, Len(inodes'))
  /\ Fault("change") /\ Go(r, "register")
  /\ UNCHANGED <<machine, object>>

(* The input was changed since it was read, or the copy fails: it is       *)
(* removed, or left behind by the reader that made it.                     *)
CopyFails(r) ==
  /\ At(r, "copy") /\ Temporary(r) = 0
  /\ NewFile(Other) /\ \E n \in {0, Len(inodes')} : SetTemporary(r, n)
  /\ Fault("change") \/ Fault("error")
  /\ End(r, "FAIL")
  /\ UNCHANGED <<machine, object>>

CreateObject(r) ==
  /\ NewFile(Other) /\ SetObject(r, Len(inodes'))
  /\ Go(r, "fill")
  /\ UNCHANGED <<machine, temporary>>

(* Mutants: the object is filled under its name although there are links;  *)
(* or an object that is there already is truncated and filled again.       *)
RegisterInPlace(r) == At(r, "register") /\ Stored(r) = 0 /\ CreateObject(r) /\ UNCHANGED faults
RegisterOver(r) ==
  /\ At(r, "register") /\ LinkRefused
  /\ IF Stored(r) = 0 THEN CreateObject(r)
     ELSE /\ inodes' = [inodes EXCEPT ![Stored(r)].bytes = Other]
          /\ Go(r, "fill") /\ UNCHANGED <<machine, object, temporary>>

(* register_evidence_object: a hard link publishes the whole object.       *)
RegisterLink(r) ==
  /\ At(r, "register") /\ links /\ Stored(r) = 0
  /\ SetObject(r, Temporary(r)) /\ Go(r, "readonly")
  /\ UNCHANGED <<machine, inodes, temporary, faults>>

(* Otherwise the object is created under its name and then filled.         *)
RegisterCopy(r) == At(r, "register") /\ Stored(r) = 0 /\ LinkRefused /\ CreateObject(r)

(* Another run has registered it first.                                    *)
RegisterLost(r) ==
  /\ At(r, "register") /\ Stored(r) # 0
  /\ SetTemporary(r, 0) /\ Go(r, "rehash")
  /\ UNCHANGED <<machine, inodes, object, faults>>

Fill(r) ==
  /\ At(r, "fill")
  /\ inodes' = [inodes EXCEPT ![Stored(r)].bytes = Bytes(Temporary(r))]
  /\ SetTemporary(r, 0) /\ Go(r, "verify")
  /\ UNCHANGED <<machine, object, faults>>

(* The object this run has filled is hashed, and removed if it is wrong.   *)
Verify(r) ==
  /\ At(r, "verify")
  /\ IF Bytes(Stored(r)) = Import(r) THEN Go(r, "readonly") /\ UNCHANGED object
                                     ELSE Go(r, "exists") /\ SetObject(r, 0)
  /\ UNCHANGED <<machine, inodes, temporary, faults>>

(* The temporary's own name is removed, then the object is made read-only. *)
MakeReadonly(r) ==
  /\ At(r, "readonly")
  /\ inodes' = [inodes EXCEPT ![Stored(r)].readonly = TRUE]
  /\ SetTemporary(r, 0) /\ Go(r, "attach")
  /\ UNCHANGED <<machine, object, faults>>

(* The object that was there at the first look is hashed.                  *)
Hash(r) ==
  /\ At(r, "hash") /\ Stored(r) # 0
  /\ Go(r, IF Bytes(Stored(r)) = Import(r) THEN "attach" ELSE "direct")
  /\ UNCHANGED <<machine, inodes, object, temporary, faults>>

(* verify_registered_object of an object that another run registered.      *)
Rehash(r) ==
  /\ At(r, "rehash")
  /\ Go(r, IF Stored(r) # 0 /\ Bytes(Stored(r)) = Import(r) THEN "attach" ELSE "exists")
  /\ UNCHANGED <<machine, inodes, object, temporary, faults>>

(* The registration has failed: with an object there all the same, the     *)
(* input is still preserved.                                               *)
Exists(r) ==
  /\ At(r, "exists")
  /\ IF Stored(r) # 0 THEN Go(r, "direct") ELSE End(r, "FAIL")
  /\ UNCHANGED <<machine, inodes, object, temporary, faults>>

(* Mutant: the damaged object is refused and nothing else is done.         *)
DirectNothing(r) ==
  /\ At(r, "direct") /\ End(r, "damaged")
  /\ UNCHANGED <<machine, inodes, object, temporary, faults>>

(* preserve_direct_import before the error is returned ("Stored FITS       *)
(* evidence is damaged"): the input is copied into the run directory,      *)
(* where nothing may be yet.                                               *)
Direct(r) ==
  /\ At(r, "direct") /\ Attached(r) = 0
  /\ \E bytes \in {Import(r), Other} :
       /\ NewFile(bytes)
       /\ run' = [run EXCEPT ![r].attached[Import(r)] = Len(inodes'), ![r].outcome = "damaged",
                             ![r].receipt[run[r].index] = bytes]
       /\ IF bytes = Other THEN Fault("change") ELSE UNCHANGED faults
  /\ UNCHANGED <<machine, object, temporary>>

(* The destination becomes a link to the object.                           *)
AttachLink(r) ==
  /\ At(r, "attach") /\ links /\ Stored(r) # 0 /\ Attached(r) = 0
  /\ Attach(r, Stored(r))
  /\ UNCHANGED <<machine, inodes, object, temporary, faults>>

(* Otherwise fs::copy, which copies the read-only bit too.                 *)
AttachCopy(r) ==
  /\ At(r, "attach") /\ LinkRefused /\ Stored(r) # 0 /\ Attached(r) = 0
  /\ inodes' = Append(inodes, inodes[Stored(r)])
  /\ Attach(r, Len(inodes'))
  /\ UNCHANGED <<machine, object, temporary>>

(* The same bytes were attached before: fs::copy truncates the destination *)
(* and then reads the object, which may be the same file.                  *)
AttachAgain(r) ==
  /\ At(r, "attach") /\ Stored(r) # 0 /\ Attached(r) # 0
  /\ ~(enforced /\ inodes[Attached(r)].readonly)
  /\ inodes' = [inodes EXCEPT ![Attached(r)].bytes =
                  IF Attached(r) = Stored(r) THEN Other ELSE Bytes(Stored(r))]
  /\ Attach(r, Attached(r))
  /\ UNCHANGED <<machine, object, temporary, faults>>

(* The digest of the attached file goes into the receipt.                  *)
Seal(r) ==
  /\ At(r, "seal")
  /\ LET bytes == Bytes(Attached(r))
         last == run[r].index = Len(run[r].imports)
     IN run' = [run EXCEPT ![r].receipt[run[r].index] = bytes, ![r].step = "look",
                  ![r].outcome = IF bytes # Import(r) THEN "FAIL" ELSE IF last THEN "PASS" ELSE @,
                  ![r].index = IF bytes # Import(r) \/ last THEN @ ELSE @ + 1]
  /\ UNCHANGED <<machine, inodes, object, temporary, faults>>

-----------------------------------------------------------------------------
(* A file is gone, is already there, or is not writable.                   *)
Refused(r) ==
  /\ \/ (At(r, "hash") \/ At(r, "attach")) /\ Stored(r) = 0
     \/ At(r, "attach") /\ Attached(r) # 0 /\ enforced /\ inodes[Attached(r)].readonly
     \/ At(r, "direct") /\ Attached(r) # 0
  /\ End(r, "FAIL")
  /\ UNCHANGED <<machine, inodes, object, temporary, faults>>

(* An I/O error.  A failed fill removes both files; an error after the     *)
(* registration is followed by a direct copy.                              *)
IOError(r) ==
  /\ Fault("error")
  /\ \/ /\ Active(r) /\ run[r].step \in {"look", "hash", "direct", "attach", "seal"}
        /\ End(r, "FAIL") /\ UNCHANGED <<object, temporary>>
     \/ At(r, "readonly") /\ Go(r, "exists") /\ UNCHANGED <<object, temporary>>
     \/ At(r, "fill") /\ Go(r, "exists") /\ SetTemporary(r, 0) /\ SetObject(r, 0)
  /\ UNCHANGED <<machine, inodes>>

(* The process dies; a temporary that it was writing stays.                *)
Crash(r) ==
  /\ Active(r) /\ Fault("crash") /\ End(r, "dead")
  /\ \/ UNCHANGED <<inodes, temporary>>
     \/ At(r, "copy") /\ Temporary(r) = 0 /\ NewFile(Other) /\ SetTemporary(r, Len(inodes'))
  /\ UNCHANGED <<machine, object>>

(* A registered object is damaged from outside.                            *)
Damage(c) ==
  /\ object[c] # 0 /\ Fault("damage")
  /\ inodes' = [inodes EXCEPT ![object[c]].bytes = Other]
  /\ UNCHANGED <<machine, object, temporary, run>>

Step(r) ==
  \/ Look(r) \/ Copy(r) \/ RegisterLink(r) \/ RegisterCopy(r) \/ RegisterLost(r)
  \/ Fill(r) \/ Verify(r) \/ MakeReadonly(r) \/ Hash(r) \/ Rehash(r) \/ Exists(r) \/ Direct(r)
  \/ AttachLink(r) \/ AttachCopy(r) \/ AttachAgain(r) \/ Seal(r)

Next ==
  \/ \E r \in Runs, pid \in Pids, imports \in ImportLists : Start(r, pid, imports)
  \/ \E r \in Runs : Step(r) \/ CopyFails(r) \/ Refused(r) \/ IOError(r) \/ Crash(r)
  \/ \E c \in Contents : Damage(c)

Spec == Init /\ [][Next]_vars

-----------------------------------------------------------------------------
(* Every variable stays in its domain.                                     *)
Files == [bytes : Contents \union {Other}, readonly : BOOLEAN]
TypeOK ==
  /\ links \in BOOLEAN /\ enforced \in BOOLEAN
  /\ inodes \in Seq(Files)
  /\ object \in [Contents -> 0..Len(inodes)]
  /\ temporary \in [Pids \X Contents -> 0..Len(inodes)]
  /\ DOMAIN run = Runs
  /\ \A r \in Runs : Started(r) => run[r].imports \in ImportLists /\ run[r] \in RunOf(run[r].imports, 0..Len(inodes))
  /\ faults \subseteq {"error", "change", "crash", "damage"}

(* verify_run's checks of one import.                                      *)
EvidenceOf(r, i) ==
  LET c == run[r].imports[i]
      n == run[r].attached[c]
  IN run[r].receipt[i] = c /\ n # 0 /\ Bytes(n) = c

(* No program reads the same bytes from two files.                         *)
DistinctInputs ==
  \A r \in Runs : Started(r) =>
    \A i, j \in DOMAIN run[r].imports : run[r].imports[i] = run[r].imports[j] => i = j

(* "Independent run verification hashes the attached evidence again": the  *)
(* evidence of a run that passed is not changed by any other run, although *)
(* their directories share files, nor by an error or a crash.              *)
PassedEvidenceKept ==
  "damage" \notin faults /\ DistinctInputs =>
    \A r \in Runs : Started(r) /\ run[r].outcome = "PASS" =>
      \A i \in DOMAIN run[r].imports : EvidenceOf(r, i)

Filling(c) == \E r \in Runs : (At(r, "fill") \/ At(r, "verify")) /\ Import(r) = c

(* An object appears whole where there are links, through races, crashes   *)
(* and changed inputs.  Filled under its name, it is whole once nobody     *)
(* fills it, unless a process died there.                                  *)
ObjectsWhole ==
  "damage" \notin faults /\ DistinctInputs =>
    \A c \in Contents :
      /\ object[c] # 0
      /\ (links /\ "error" \notin faults) \/ ("crash" \notin faults /\ ~Filling(c))
      => Bytes(object[c]) = c

(* Where there are links, no run is told of a damaged object when nothing  *)
(* was damaged and no call failed, whatever other runs are doing.          *)
NoFalseDamage ==
  links /\ DistinctInputs /\ {"error", "damage"} \intersect faults = {} =>
    \A r \in Runs : Started(r) => run[r].outcome # "damaged"

(* A run that is refused for a damaged object has evidence of that input   *)
(* all the same.                                                           *)
RefusedInputPreserved ==
  "change" \notin faults /\ DistinctInputs =>
    \A r \in Runs : Started(r) /\ run[r].outcome = "damaged" => EvidenceOf(r, run[r].index)

(* create_new of the temporary never meets one that a process with the     *)
(* same pid left behind.                                                   *)
TemporaryFree == \A r \in Runs : At(r, "copy") => Temporary(r) = 0

(* Only a damaged object makes a run refuse its input, and the run has     *)
(* evidence of it all the same; nothing that a killed run left does.       *)
OnlyDamageRefuses == NoFalseDamage /\ RefusedInputPreserved /\ TemporaryFree

(* "the immutable shared object": no run changes the bytes of an object    *)
(* that is registered.                                                     *)
ObjectsImmutable ==
  [][\A c \in Contents : object[c] # 0 /\ Bytes(object[c]) = c /\ faults' = faults
       => inodes'[object[c]].bytes = c]_vars
=============================================================================
