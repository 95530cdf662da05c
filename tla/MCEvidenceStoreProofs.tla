---------------------- MODULE MCEvidenceStoreProofs ----------------------
(* Proofs about the evidence of inputs.  First EvidenceStore: for every     *)
(* number of runs, process ids and inputs, the evidence of a run that       *)
(* passed stays, and no run meets a half-written object or a false damage.  *)
(* Then the readers part of MCEvidenceStore: for every number of paths,     *)
(* versions, changes and calls what a program was given is in the evidence  *)
(* of its run.  Last its libraries part: for every program, project and     *)
(* bound a program is resolved as its imports mean, and again from what     *)
(* its run kept.                                                            *)
EXTENDS MCEvidenceStore, FiniteSetTheorems, TLAPS

-----------------------------------------------------------------------------
(* Who has which file.  Runs that are on have different process ids, so    *)
(* nobody else writes to a run's temporary; one run at a time fills the    *)
(* object of a content; and a file, once there, belongs to one content.    *)
Registering(r) == At(r, "register") \/ At(r, "fill")
Filler(r) == At(r, "fill") \/ At(r, "verify")
PidsApart == \A q, r \in Runs : q # r /\ Active(q) /\ Active(r) => run[q].pid # run[r].pid
TemporariesThere == \A r \in Runs : Registering(r) => Temporary(r) # 0
FillersApart == \A q, r \in Runs : q # r /\ Filler(q) /\ Filler(r) => Import(q) # Import(r)
FillersHaveObject == \A r \in Runs : Filler(r) => Stored(r) # 0
SealsAttached == \A r \in Runs : At(r, "seal") => Attached(r) # 0
Belongs(n, c) ==
  \/ object[c] = n
  \/ \E pid \in Pids : temporary[<<pid, c>>] = n
  \/ \E r \in Runs : Started(r) /\ run[r].attached[c] = n
OneContent == \A n \in 1..Len(inodes) : \A c, d \in Contents : Belongs(n, c) /\ Belongs(n, d) => c = d
Ownership ==
  /\ TypeOK /\ PidsApart /\ TemporariesThere /\ TemporaryFree
  /\ FillersApart /\ FillersHaveObject /\ SealsAttached /\ OneContent

(* What is in the files, while nothing is damaged from outside and no      *)
(* program reads the same bytes from two files.                            *)
Clean == "damage" \notin faults /\ DistinctInputs
TemporaryIsCopy == \A r \in Runs : Registering(r) => Bytes(Temporary(r)) = Import(r)
VerifiesWhole == \A r \in Runs : At(r, "verify") => Bytes(Stored(r)) = Import(r)
AttachOnce ==
  \A r \in Runs : Active(r) =>
    \A j \in DOMAIN run[r].imports :
      j > run[r].index \/ (j = run[r].index /\ run[r].step # "seal") => run[r].attached[run[r].imports[j]] = 0
EvidenceKept ==
  \A r \in Runs : Started(r) =>
    \A i \in DOMAIN run[r].imports : i < run[r].index \/ run[r].outcome = "PASS" => EvidenceOf(r, i)
NoError == links /\ "error" \notin faults
BeingFilled(c) == \E r \in Runs : At(r, "fill") /\ Import(r) = c
ObjectsOK ==
  \A c \in Contents :
    object[c] # 0 /\ (NoError \/ ("crash" \notin faults /\ ~BeingFilled(c))) => Bytes(object[c]) = c
LinksSuffice ==
  NoError => \A r \in Runs :
    /\ Started(r) => run[r].outcome # "damaged"
    /\ Active(r) => run[r].step \notin {"fill", "verify", "exists", "direct"}
    /\ At(r, "rehash") => Stored(r) # 0
Contained == TemporaryIsCopy /\ VerifiesWhole /\ AttachOnce /\ EvidenceKept /\ ObjectsOK /\ LinksSuffice

(* The copy of a run that was refused is that run's own file: nothing else *)
(* leads to it, whatever is damaged.                                       *)
Elsewhere(n, r) ==
  \/ \E c \in Contents : object[c] = n
  \/ \E x \in Pids \X Contents : temporary[x] = n
  \/ \E q \in Runs, c \in Contents : q # r /\ Started(q) /\ run[q].attached[c] = n
RefusedAlone ==
  \A r \in Runs : Started(r) /\ run[r].outcome = "damaged" =>
    /\ Attached(r) # 0 /\ ~Elsewhere(Attached(r), r)
    /\ "change" \notin faults => EvidenceOf(r, run[r].index)

(* The invariant: Ownership is true whatever happens; the copies of refused *)
(* runs stay though objects are damaged; the rest needs a clean history.   *)
IInv == Ownership /\ RefusedAlone /\ (Clean => Contained)

-----------------------------------------------------------------------------
(* A run's inputs are a sequence of contents; the one it is at is one.     *)
LEMMA RunFacts ==
  ASSUME TypeOK, NEW r \in Runs, Started(r)
  PROVE  /\ run[r].imports \in Seq(Contents) /\ DOMAIN run[r].imports = 1..Len(run[r].imports)
         /\ run[r] \in RunOf(run[r].imports, 0..Len(inodes)) /\ run[r].imports \in ImportLists
         /\ run[r].index \in 1..Len(run[r].imports) /\ Len(run[r].imports) \in Nat
         /\ Import(r) \in Contents /\ run[r].pid \in Pids
         /\ Attached(r) \in 0..Len(inodes) /\ Stored(r) \in 0..Len(inodes) /\ Temporary(r) \in 0..Len(inodes)
<1>1. run[r].imports \in Seq(Contents) /\ run[r] \in RunOf(run[r].imports, 0..Len(inodes)) /\ run[r].imports \in ImportLists
  BY EvidenceConstants DEF TypeOK
<1>2. DOMAIN run[r].imports = 1..Len(run[r].imports) /\ Len(run[r].imports) \in Nat
  BY <1>1
<1>3. run[r].index \in DOMAIN run[r].imports /\ run[r].pid \in Pids /\ run[r].attached \in [Contents -> 0..Len(inodes)]
  BY <1>1 DEF RunOf
<1>4. Import(r) \in Contents
  BY <1>1, <1>3 DEF Import
<1> QED
  BY <1>1, <1>2, <1>3, <1>4 DEF TypeOK, Stored, Temporary, Attached

(* A new file is the last one, and the old ones are as they were.          *)
LEMMA NewFileFacts ==
  ASSUME inodes \in Seq(Files), NEW content \in Contents \union {Other}, NewFile(content)
  PROVE  /\ inodes' \in Seq(Files) /\ Len(inodes') = Len(inodes) + 1 /\ Len(inodes) \in Nat
         /\ \A n \in {Len(inodes) + 1} : n # 0 /\ Bytes(n)' = content
         /\ \A n \in 0..Len(inodes) : Bytes(n)' = Bytes(n)
         /\ \A n \in 0..Len(inodes) : n \in 0..Len(inodes')
<1>1. [bytes |-> content, readonly |-> FALSE] \in Files
  BY DEF Files
<1>2. inodes' \in Seq(Files) /\ Len(inodes') = Len(inodes) + 1 /\ Len(inodes) \in Nat
  BY <1>1 DEF NewFile
<1>3. inodes'[Len(inodes) + 1] = [bytes |-> content, readonly |-> FALSE] /\ \A n \in 1..Len(inodes) : inodes'[n] = inodes[n]
  BY <1>1 DEF NewFile
<1>4. \A n \in {Len(inodes) + 1} : n # 0 /\ Bytes(n)' = content
  BY <1>2, <1>3 DEF Bytes
<1>5. \A n \in 0..Len(inodes) : Bytes(n)' = Bytes(n)
  BY <1>2, <1>3 DEF Bytes
<1> QED
  BY <1>2, <1>4, <1>5

-----------------------------------------------------------------------------
(* Files are only added; what a run's record becomes by each kind of move. *)
Grow == inodes \in Seq(Files) /\ inodes' \in Seq(Files) /\ Len(inodes) \in Nat /\ Len(inodes') \in Nat /\ Len(inodes) <= Len(inodes')
RunsOK == DOMAIN run = Runs /\ \A r \in Runs : Started(r) =>
               run[r].imports \in ImportLists /\ run[r] \in RunOf(run[r].imports, 0..Len(inodes))
RunsGoOn == RunsOK' /\ \A r \in Runs : Started(r) => run'[r] # None

LEMMA RunBecomes ==
  ASSUME TypeOK, Grow, NEW r \in Runs, Started(r), NEW rec \in RunOf(run[r].imports, 0..Len(inodes')),
         run' = [run EXCEPT ![r] = rec]
  PROVE  RunsGoOn
<1>1. DOMAIN run' = Runs /\ \A q \in Runs : run'[q] = IF q = r THEN rec ELSE run[q]
  BY DEF TypeOK
<1>2. rec.imports = run[r].imports /\ run[r].imports \in ImportLists
  BY DEF RunOf, TypeOK
<1>3. \A q \in Runs : Started(q) => run[q] \in RunOf(run[q].imports, 0..Len(inodes'))
  <2> SUFFICES ASSUME NEW q \in Runs, Started(q) PROVE run[q] \in RunOf(run[q].imports, 0..Len(inodes'))
    OBVIOUS
  <2>1. run[q] \in RunOf(run[q].imports, 0..Len(inodes))
    BY DEF TypeOK
  <2>2. 0..Len(inodes) \subseteq 0..Len(inodes')
    BY DEF Grow
  <2> QED
    BY <2>1, <2>2 DEF RunOf
<1>4. rec # None
  <2>1. 0..Len(inodes') \subseteq Nat
    BY DEF Grow
  <2>2. rec \in RunOf(run[r].imports, Nat)
    BY <2>1 DEF RunOf
  <2> QED
    BY <1>2, <2>2, EvidenceConstants
<1> QED
  BY <1>1, <1>2, <1>3, <1>4 DEF RunsGoOn, RunsOK, Started, TypeOK

LEMMA RunMoves ==
  ASSUME TypeOK, Grow, NEW r \in Runs, Started(r), NEW step \in Steps, NEW ending \in Outcomes, NEW n \in 0..Len(inodes')
  PROVE  /\ Go(r, step) => RunsGoOn
         /\ End(r, ending) => RunsGoOn
         /\ Attach(r, n) => RunsGoOn
<1> DEFINE R == RunOf(run[r].imports, 0..Len(inodes'))
<1>1. run[r] \in R
  BY DEF TypeOK, Grow, RunOf
<1>2. Go(r, step) => RunsGoOn
  <2>1. [run[r] EXCEPT !.step = step] \in R
    BY <1>1 DEF RunOf
  <2> QED
    BY <2>1, RunBecomes DEF Go, TypeOK
<1>3. End(r, ending) => RunsGoOn
  <2>1. [run[r] EXCEPT !.outcome = ending] \in R
    BY <1>1 DEF RunOf
  <2> QED
    BY <2>1, RunBecomes DEF End, TypeOK
<1>4. Attach(r, n) => RunsGoOn
  <2>1. [run[r] EXCEPT !.attached = [@ EXCEPT ![Import(r)] = n], !.step = "seal"] \in R
    BY <1>1, RunFacts DEF RunOf, Steps
  <2>2. Attach(r, n) => run' = [run EXCEPT ![r] = [run[r] EXCEPT !.attached = [@ EXCEPT ![Import(r)] = n], !.step = "seal"]]
    BY DEF Attach, TypeOK
  <2> QED
    BY <2>1, <2>2, RunBecomes
<1> QED
  BY <1>2, <1>3, <1>4

LEMMA DirectMove ==
  ASSUME TypeOK, Grow, NEW r \in Runs, Started(r), NEW content \in Contents \union {Other}, NEW n \in 0..Len(inodes'),
         run' = [run EXCEPT ![r].attached[Import(r)] = n, ![r].outcome = "damaged", ![r].receipt[run[r].index] = content]
  PROVE  RunsGoOn
<1> DEFINE R == RunOf(run[r].imports, 0..Len(inodes'))
           rec == [run[r] EXCEPT !.attached = [@ EXCEPT ![Import(r)] = n], !.outcome = "damaged",
                                 !.receipt = [@ EXCEPT ![run[r].index] = content]]
<1>1. run[r] \in R
  BY DEF TypeOK, Grow, RunOf
<1>2. rec \in R
  BY <1>1, RunFacts DEF RunOf, Outcomes
<1>3. run' = [run EXCEPT ![r] = rec]
  BY DEF TypeOK
<1> QED
  BY <1>2, <1>3, RunBecomes

LEMMA SealMove ==
  ASSUME TypeOK, Grow, NEW r \in Runs, Seal(r), Bytes(Attached(r)) \in Contents \union {Other, None}
  PROVE  RunsGoOn
<1> DEFINE R == RunOf(run[r].imports, 0..Len(inodes'))
           content == Bytes(Attached(r))
           last == run[r].index = Len(run[r].imports)
           rec == [run[r] EXCEPT !.receipt = [@ EXCEPT ![run[r].index] = content], !.step = "look",
                     !.outcome = IF content # Import(r) THEN "FAIL" ELSE IF last THEN "PASS" ELSE @,
                     !.index = IF content # Import(r) \/ last THEN @ ELSE @ + 1]
<1>1. Started(r)
  BY DEF Seal, At, Active
<1>2. run[r] \in R
  BY <1>1 DEF TypeOK, Grow, RunOf
<1>3. (IF content # Import(r) \/ last THEN run[r].index ELSE run[r].index + 1) \in DOMAIN run[r].imports
  BY <1>1, RunFacts
<1>4. rec \in R
  BY <1>1, <1>2, <1>3, RunFacts DEF RunOf, Outcomes, Steps
<1>5. run' = [run EXCEPT ![r] = rec]
  BY <1>1 DEF TypeOK, Seal
<1> QED
  BY <1>1, <1>4, <1>5, RunBecomes

LEMMA StartMove ==
  ASSUME TypeOK, Grow, NEW r \in Runs, NEW pid \in Pids, NEW imports \in ImportLists, Start(r, pid, imports)
  PROVE  RunsOK'
<1> DEFINE rec == [pid |-> pid, imports |-> imports, index |-> 1, step |-> "look", outcome |-> "running",
                   attached |-> [c \in Contents |-> 0], receipt |-> [i \in DOMAIN imports |-> None]]
<1>1. imports \in Seq(Contents) /\ imports # << >>
  BY EvidenceConstants
<1>2. 1 \in DOMAIN imports
  BY <1>1
<1>3. rec \in RunOf(imports, 0..Len(inodes'))
  BY <1>2 DEF RunOf, Grow, Steps, Outcomes
<1>4. DOMAIN run' = Runs /\ \A q \in Runs : run'[q] = IF q = r THEN rec ELSE run[q]
  BY DEF TypeOK, Start
<1>5. \A q \in Runs : Started(q) => run[q].imports \in ImportLists /\ run[q] \in RunOf(run[q].imports, 0..Len(inodes'))
  BY DEF TypeOK, Start
<1> QED
  BY <1>3, <1>4, <1>5 DEF RunsOK, Started

-----------------------------------------------------------------------------
LEMMA BytesType ==
  ASSUME inodes \in Seq(Files), NEW n \in 0..Len(inodes), n # 0
  PROVE  Bytes(n) \in Contents \union {Other}
<1>1. n \in 1..Len(inodes) /\ inodes[n] \in Files
  OBVIOUS
<1> QED
  BY <1>1 DEF Bytes, Files

(* A file is written in place, or made read-only: no other changes.        *)
LEMMA RewriteFacts ==
  ASSUME inodes \in Seq(Files), NEW n \in 0..Len(inodes), NEW content \in Contents \union {Other},
         inodes' = [inodes EXCEPT ![n].bytes = content]
  PROVE  Grow /\ Len(inodes') = Len(inodes) /\ \A m \in 0..Len(inodes) : Bytes(m)' = IF m = n /\ n # 0 THEN content ELSE Bytes(m)
<1>1. DOMAIN inodes = 1..Len(inodes) /\ Len(inodes) \in Nat /\ \A m \in 1..Len(inodes) : inodes[m] \in Files
  OBVIOUS
<1>2. DOMAIN inodes' = 1..Len(inodes) /\ \A m \in 1..Len(inodes) : inodes'[m] = IF m = n THEN [inodes[m] EXCEPT !.bytes = content] ELSE inodes[m]
  BY <1>1
<1>3. \A m \in 1..Len(inodes) : inodes'[m] \in Files
  BY <1>1, <1>2 DEF Files
<1>4. inodes' \in Seq(Files) /\ Len(inodes') = Len(inodes)
  <2>1. inodes' = [m \in 1..Len(inodes) |-> inodes'[m]]
    BY <1>2
  <2>2. inodes' \in [1..Len(inodes) -> Files]
    BY <2>1, <1>3
  <2> QED
    BY <2>2, <1>1
<1>5. \A m \in 1..Len(inodes) : m = n => inodes'[m].bytes = content
  BY <1>1, <1>2 DEF Files
<1>6. \A m \in 0..Len(inodes) : Bytes(m)' = IF m = n /\ n # 0 THEN content ELSE Bytes(m)
  BY <1>1, <1>2, <1>5 DEF Bytes
<1> QED
  BY <1>1, <1>4, <1>6 DEF Grow

LEMMA ReadonlyFacts ==
  ASSUME inodes \in Seq(Files), NEW n \in 0..Len(inodes), inodes' = [inodes EXCEPT ![n].readonly = TRUE]
  PROVE  Grow /\ Len(inodes') = Len(inodes) /\ \A m \in 0..Len(inodes) : Bytes(m)' = Bytes(m)
<1>1. DOMAIN inodes = 1..Len(inodes) /\ Len(inodes) \in Nat /\ \A m \in 1..Len(inodes) : inodes[m] \in Files
  OBVIOUS
<1>2. DOMAIN inodes' = 1..Len(inodes) /\ \A m \in 1..Len(inodes) : inodes'[m] = IF m = n THEN [inodes[m] EXCEPT !.readonly = TRUE] ELSE inodes[m]
  BY <1>1
<1>3. \A m \in 1..Len(inodes) : inodes'[m] \in Files /\ inodes'[m].bytes = inodes[m].bytes
  BY <1>1, <1>2 DEF Files
<1>4. inodes' \in Seq(Files) /\ Len(inodes') = Len(inodes)
  <2>1. inodes' = [m \in 1..Len(inodes) |-> inodes'[m]]
    BY <1>2
  <2>2. inodes' \in [1..Len(inodes) -> Files]
    BY <2>1, <1>3
  <2> QED
    BY <2>2, <1>1
<1> QED
  BY <1>1, <1>3, <1>4 DEF Grow, Bytes

-----------------------------------------------------------------------------
(* Everything a run can do, and what can happen to it.                     *)
Act(r) == Step(r) \/ CopyFails(r) \/ Refused(r) \/ IOError(r) \/ Crash(r)
Acting == \E r \in Runs : Act(r)
Starting == \E r \in Runs, pid \in Pids, imports \in ImportLists : Start(r, pid, imports)

LEMMA NextCases ==
  ASSUME [Next]_vars
  PROVE  Acting \/ Starting \/ (\E c \in Contents : Damage(c)) \/ UNCHANGED vars
  BY DEF Next, Acting, Act, Starting

(* No file but one that is new or is written here changes its bytes.       *)
Written(n) ==
  \/ \E r \in Runs : At(r, "fill") /\ n = Stored(r) /\ Bytes(n)' = Bytes(Temporary(r))
  \/ \E r \in Runs : At(r, "attach") /\ Attached(r) # 0 /\ n = Attached(r)
  \/ \E c \in Contents : Damage(c) /\ n = object[c]
LEMMA FilesStep ==
  ASSUME TypeOK, TemporariesThere, [Next]_vars
  PROVE  Grow /\ \A n \in 1..Len(inodes) : Bytes(n)' = Bytes(n) \/ Written(n)
<1> DEFINE Kept == \A n \in 1..Len(inodes) : Bytes(n)' = Bytes(n) \/ Written(n)
<1>1. ASSUME UNCHANGED inodes PROVE Grow /\ Kept
  BY <1>1 DEF TypeOK, Grow, Bytes
<1>2. ASSUME NEW content \in Contents \union {Other}, NewFile(content) PROVE Grow /\ Kept
  <2>1. inodes \in Seq(Files)
    BY DEF TypeOK
  <2> QED
    BY <1>2, <2>1, NewFileFacts DEF Grow
<1>3. ASSUME NEW r \in Runs, Act(r) PROVE Grow /\ Kept
  <2>1. CASE UNCHANGED inodes
    BY <2>1, <1>1
  <2>2. CASE \E content \in Contents \union {Other} : NewFile(content)
    BY <2>2, <1>2
  <2>3. CASE Fill(r)
    <3>1. At(r, "fill") /\ Started(r) /\ inodes' = [inodes EXCEPT ![Stored(r)].bytes = Bytes(Temporary(r))]
      BY <2>3 DEF Fill, At, Active
    <3>2. Temporary(r) # 0 /\ Temporary(r) \in 0..Len(inodes) /\ Stored(r) \in 0..Len(inodes)
      BY <3>1, RunFacts DEF TemporariesThere, Registering
    <3>3. Bytes(Temporary(r)) \in Contents \union {Other} /\ inodes \in Seq(Files)
      BY <3>2, BytesType DEF TypeOK
    <3>4. Grow /\ \A m \in 0..Len(inodes) : Bytes(m)' = IF m = Stored(r) /\ Stored(r) # 0 THEN Bytes(Temporary(r)) ELSE Bytes(m)
      BY <3>1, <3>2, <3>3, RewriteFacts
    <3> QED
      BY <3>1, <3>4 DEF Written
  <2>4. CASE MakeReadonly(r)
    <3>1. Started(r) /\ inodes' = [inodes EXCEPT ![Stored(r)].readonly = TRUE] /\ inodes \in Seq(Files)
      BY <2>4 DEF MakeReadonly, At, Active, TypeOK
    <3>2. Stored(r) \in 0..Len(inodes)
      BY <3>1, RunFacts
    <3>3. Grow /\ \A m \in 0..Len(inodes) : Bytes(m)' = Bytes(m)
      BY <3>1, <3>2, ReadonlyFacts
    <3> QED
      BY <3>3
  <2>5. CASE AttachCopy(r)
    <3>1. Started(r) /\ Stored(r) # 0 /\ inodes' = Append(inodes, inodes[Stored(r)]) /\ inodes \in Seq(Files)
      BY <2>5 DEF AttachCopy, At, Active, TypeOK
    <3>2. inodes[Stored(r)] \in Files
      BY <3>1, RunFacts
    <3> QED
      BY <3>1, <3>2 DEF Grow, Bytes
  <2>6. CASE AttachAgain(r)
    <3>1. /\ At(r, "attach") /\ Started(r) /\ Stored(r) # 0 /\ Attached(r) # 0 /\ inodes \in Seq(Files)
          /\ inodes' = [inodes EXCEPT ![Attached(r)].bytes = IF Attached(r) = Stored(r) THEN Other ELSE Bytes(Stored(r))]
      BY <2>6 DEF AttachAgain, At, Active, TypeOK
    <3>2. Attached(r) \in 0..Len(inodes) /\ Stored(r) \in 0..Len(inodes)
      BY <3>1, RunFacts
    <3>3. Bytes(Stored(r)) \in Contents \union {Other}
      BY <3>1, <3>2, BytesType
    <3>4. Grow /\ \A m \in 0..Len(inodes) : m # Attached(r) => Bytes(m)' = Bytes(m)
      <4> DEFINE content == IF Attached(r) = Stored(r) THEN Other ELSE Bytes(Stored(r))
      <4>1. content \in Contents \union {Other} /\ inodes' = [inodes EXCEPT ![Attached(r)].bytes = content]
        BY <3>1, <3>3
      <4> HIDE DEF content
      <4> QED
        BY <3>1, <3>2, <4>1, RewriteFacts
    <3> QED
      BY <3>1, <3>4 DEF Written
  <2>7. At(r, "copy") => Import(r) \in Contents
    BY RunFacts DEF At, Active
  <2>8. At(r, "direct") => Import(r) \in Contents
    BY RunFacts DEF At, Active
  <2> QED
    BY <1>3, <2>1, <2>2, <2>3, <2>4, <2>5, <2>6, <2>7, <2>8
       DEF Act, Step, Look, Copy, RegisterLink, RegisterCopy, CreateObject, RegisterLost, Verify, Hash, Rehash, Exists,
           Direct, AttachLink, Seal, CopyFails, Refused, IOError, Crash
<1>4. ASSUME NEW c \in Contents, Damage(c) PROVE Grow /\ Kept
  <2>1. inodes' = [inodes EXCEPT ![object[c]].bytes = Other] /\ object[c] \in 0..Len(inodes) /\ inodes \in Seq(Files)
    BY <1>4 DEF Damage, TypeOK
  <2>2. Grow /\ \A n \in 0..Len(inodes) : n # object[c] => Bytes(n)' = Bytes(n)
    BY <2>1, RewriteFacts
  <2>3. ASSUME NEW n \in 1..Len(inodes) PROVE Bytes(n)' = Bytes(n) \/ Written(n)
    <3>1. CASE n # object[c]
      BY <2>2, <3>1
    <3>2. CASE n = object[c]
      BY <1>4, <3>2 DEF Written
    <3> QED
      BY <3>1, <3>2
  <2> QED
    BY <2>2, <2>3
<1> QED
  BY <1>1, <1>3, <1>4, NextCases DEF Acting, Starting, Start, vars

(* A step of a run leaves the other runs and other inputs alone.           *)
Frame(r) ==
  /\ Active(r) /\ links' = links /\ enforced' = enforced /\ faults \subseteq faults'
  /\ \A q \in Runs : q # r => run'[q] = run[q]
  /\ run'[r].pid = run[r].pid /\ run'[r].imports = run[r].imports
  /\ \A c \in Contents : c # Import(r) => run'[r].attached[c] = run[r].attached[c] /\ object'[c] = object[c]
  /\ \A x \in Pids \X Contents : x # <<run[r].pid, Import(r)>> => temporary'[x] = temporary[x]
LEMMA ActFrame ==
  ASSUME TypeOK, NEW r \in Runs, Act(r)
  PROVE  Frame(r)
<1>1. Active(r) /\ Started(r) /\ links' = links /\ enforced' = enforced /\ faults \subseteq faults'
  BY DEF Act, Step, Look, Copy, RegisterLink, RegisterCopy, CreateObject, RegisterLost, Fill, Verify, MakeReadonly, Hash, Rehash, Exists,
         Direct, AttachLink, AttachCopy, AttachAgain, Seal, CopyFails, Refused, IOError, Crash, At, Active, LinkRefused, Fault, machine
<1>2. run[r] \in RunOf(run[r].imports, 0..Len(inodes)) /\ Import(r) \in Contents /\ run[r].pid \in Pids
  BY <1>1, RunFacts
<1>3. /\ \A q \in Runs : q # r => run'[q] = run[q]
      /\ run'[r].pid = run[r].pid /\ run'[r].imports = run[r].imports
      /\ \A c \in Contents : c # Import(r) => run'[r].attached[c] = run[r].attached[c]
  <2> DEFINE Same == /\ \A q \in Runs : q # r => run'[q] = run[q]
                     /\ run'[r].pid = run[r].pid /\ run'[r].imports = run[r].imports
                     /\ \A c \in Contents : c # Import(r) => run'[r].attached[c] = run[r].attached[c]
  <2>1. ASSUME UNCHANGED run \/ \E step \in Steps : Go(r, step) PROVE Same
    BY <2>1, <1>2 DEF Go, TypeOK, RunOf
  <2>2. ASSUME NEW ending \in Outcomes, End(r, ending) PROVE Same
    BY <2>2, <1>2 DEF End, TypeOK, RunOf
  <2>3. ASSUME NEW n, Attach(r, n) PROVE Same
    BY <2>3, <1>2 DEF Attach, TypeOK, RunOf
  <2>4. ASSUME Direct(r) PROVE Same
    BY <2>4, <1>2 DEF Direct, TypeOK, RunOf
  <2>5. ASSUME Seal(r) PROVE Same
    BY <2>5, <1>2 DEF Seal, TypeOK, RunOf
  <2> HIDE DEF Same
  <2>6. Same
    BY <2>1, <2>2, <2>3, <2>4, <2>5
       DEF Act, Step, Look, Copy, RegisterLink, RegisterCopy, CreateObject, RegisterLost, Fill, Verify, MakeReadonly, Hash, Rehash, Exists,
           AttachLink, AttachCopy, AttachAgain, CopyFails, Refused, IOError, Crash, Steps, Outcomes
  <2> QED
    BY <2>6 DEF Same
<1>4. \A c \in Contents : c # Import(r) => object'[c] = object[c]
  BY <1>2 DEF Act, Step, Look, Copy, RegisterLink, RegisterCopy, CreateObject, RegisterLost, Fill, Verify, MakeReadonly, Hash, Rehash, Exists,
         Direct, AttachLink, AttachCopy, AttachAgain, Seal, CopyFails, Refused, IOError, Crash, SetObject, TypeOK
<1>5. \A x \in Pids \X Contents : x # <<run[r].pid, Import(r)>> => temporary'[x] = temporary[x]
  BY <1>2 DEF Act, Step, Look, Copy, RegisterLink, RegisterCopy, CreateObject, RegisterLost, Fill, Verify, MakeReadonly, Hash, Rehash, Exists,
         Direct, AttachLink, AttachCopy, AttachAgain, Seal, CopyFails, Refused, IOError, Crash, SetTemporary, TypeOK
<1> QED
  BY <1>1, <1>3, <1>4, <1>5 DEF Frame

LEMMA RunsStep ==
  ASSUME TypeOK, TemporariesThere, NEW r \in Runs, Act(r)
  PROVE  RunsGoOn
<1>1. Started(r) /\ Active(r) /\ Grow
  BY ActFrame, FilesStep DEF Frame, Active, Next, Act
<1>2. Import(r) \in Contents /\ run[r].pid \in Pids /\ Temporary(r) \in 0..Len(inodes) /\ Stored(r) \in 0..Len(inodes) /\ Attached(r) \in 0..Len(inodes)
  BY <1>1, RunFacts
<1>3. 0..Len(inodes) \subseteq 0..Len(inodes') /\ Len(inodes') \in 0..Len(inodes')
  BY <1>1 DEF Grow
<1>4. ASSUME UNCHANGED run PROVE RunsGoOn
  <2>1. \A q \in Runs : Started(q) => run[q] \in RunOf(run[q].imports, 0..Len(inodes'))
    BY <1>3 DEF TypeOK, RunOf
  <2> QED
    BY <1>4, <2>1 DEF RunsGoOn, RunsOK, TypeOK, Started
<1>5. ASSUME \/ \E step \in Steps : Go(r, step)
             \/ \E ending \in Outcomes : End(r, ending)
             \/ \E n \in 0..Len(inodes') : Attach(r, n)
      PROVE  RunsGoOn
  <2>1. "look" \in Steps /\ "running" \in Outcomes
    BY DEF Steps, Outcomes
  <2> QED
    BY <1>1, <1>3, <1>5, <2>1, RunMoves
<1>6. ASSUME Direct(r) PROVE RunsGoOn
  BY <1>1, <1>2, <1>3, <1>6, DirectMove DEF Direct
<1>7. ASSUME Seal(r) PROVE RunsGoOn
  <2>1. Bytes(Attached(r)) \in Contents \union {Other, None}
    <3>1. Attached(r) # 0 => Bytes(Attached(r)) \in Contents \union {Other}
      BY <1>2, BytesType DEF TypeOK
    <3> QED
      BY <3>1 DEF Bytes
  <2> QED
    BY <1>1, <1>7, <2>1, SealMove
<1> QED
  BY <1>2, <1>3, <1>4, <1>5, <1>6, <1>7
     DEF Act, Step, Look, Copy, RegisterLink, RegisterCopy, CreateObject, RegisterLost, Fill, Verify, MakeReadonly, Hash, Rehash, Exists,
         AttachLink, AttachCopy, AttachAgain, CopyFails, Refused, IOError, Crash, Steps, Outcomes

LEMMA TypeStep ==
  ASSUME TypeOK, TemporariesThere, [Next]_vars
  PROVE  TypeOK'
<1>1. Grow
  BY FilesStep
<1>2. ASSUME NEW r \in Runs, Act(r) PROVE TypeOK'
  <2>1. Started(r) /\ Active(r)
    BY <1>2, ActFrame DEF Frame, Active
  <2>2. Import(r) \in Contents /\ run[r].pid \in Pids /\ Temporary(r) \in 0..Len(inodes) /\ Stored(r) \in 0..Len(inodes) /\ Attached(r) \in 0..Len(inodes)
    BY <2>1, RunFacts
  <2>3. 0..Len(inodes) \subseteq 0..Len(inodes') /\ Len(inodes') \in 0..Len(inodes')
    BY <1>1 DEF Grow
  <2>4. RunsOK'
    BY <1>2, RunsStep DEF RunsGoOn
  <2>5. object' \in [Contents -> 0..Len(inodes')]
    <3>1. object \in [Contents -> 0..Len(inodes')]
      BY <2>3 DEF TypeOK
    <3>2. UNCHANGED object \/ \E n \in 0..Len(inodes') : SetObject(r, n)
      BY <1>2, <2>2, <2>3
         DEF Act, Step, Look, Copy, RegisterLink, RegisterCopy, CreateObject, RegisterLost, Fill, Verify, MakeReadonly, Hash, Rehash, Exists,
             Direct, AttachLink, AttachCopy, AttachAgain, Seal, CopyFails, Refused, IOError, Crash
    <3> QED
      BY <2>2, <3>1, <3>2 DEF SetObject
  <2>6. temporary' \in [Pids \X Contents -> 0..Len(inodes')]
    <3>1. temporary \in [Pids \X Contents -> 0..Len(inodes')] /\ <<run[r].pid, Import(r)>> \in Pids \X Contents
      BY <2>2, <2>3 DEF TypeOK
    <3>2. UNCHANGED temporary \/ \E n \in 0..Len(inodes') : SetTemporary(r, n)
      BY <1>2, <2>3 DEF Act, Step, Look, Copy, RegisterLink, RegisterCopy, CreateObject, RegisterLost, Fill, Verify, MakeReadonly, Hash, Rehash, Exists,
             Direct, AttachLink, AttachCopy, AttachAgain, Seal, CopyFails, Refused, IOError, Crash
    <3> QED
      BY <3>1, <3>2 DEF SetTemporary
  <2>7. links' \in BOOLEAN /\ enforced' \in BOOLEAN
    BY <1>2, ActFrame DEF Frame, TypeOK
  <2>8. faults' \subseteq {"error", "change", "crash", "damage"}
    BY <1>2 DEF TypeOK, Act, Step, Look, Copy, RegisterLink, RegisterCopy, CreateObject, RegisterLost, Fill, Verify, MakeReadonly, Hash, Rehash, Exists,
             Direct, AttachLink, AttachCopy, AttachAgain, Seal, CopyFails, Refused, IOError, Crash, LinkRefused, Fault
  <2> QED
    BY <1>1, <2>4, <2>5, <2>6, <2>7, <2>8 DEF TypeOK, RunsOK, Grow
<1>3. ASSUME NEW r \in Runs, NEW pid \in Pids, NEW imports \in ImportLists, Start(r, pid, imports) PROVE TypeOK'
  <2>1. RunsOK'
    BY <1>1, <1>3, StartMove
  <2> QED
    BY <1>3, <2>1 DEF Start, TypeOK, RunsOK, machine
<1>4. ASSUME NEW c \in Contents, Damage(c) PROVE TypeOK'
  <2>1. inodes' = [inodes EXCEPT ![object[c]].bytes = Other] /\ object[c] \in 0..Len(inodes) /\ inodes \in Seq(Files)
    BY <1>4 DEF Damage, TypeOK
  <2>2. Len(inodes') = Len(inodes)
    BY <2>1, RewriteFacts
  <2> QED
    BY <1>1, <1>4, <2>2 DEF Damage, TypeOK, Fault, machine, Grow, Started
<1>5. ASSUME UNCHANGED vars PROVE TypeOK'
  BY <1>5 DEF vars, TypeOK, Started
<1> QED
  BY <1>2, <1>3, <1>4, <1>5, NextCases DEF Acting, Starting

-----------------------------------------------------------------------------
(* What each kind of move leaves in the record of its run.                 *)
Same(r) == run'[r].imports = run[r].imports /\ run'[r].index = run[r].index /\ run'[r].receipt = run[r].receipt
LEMMA Moves ==
  ASSUME TypeOK, NEW r \in Runs, Started(r)
  PROVE  /\ UNCHANGED run => Same(r)
         /\ \A step : Go(r, step) =>
              Same(r) /\ run'[r].step = step /\ run'[r].outcome = run[r].outcome /\ run'[r].attached = run[r].attached
         /\ \A ending : End(r, ending) =>
              Same(r) /\ run'[r].step = run[r].step /\ run'[r].outcome = ending /\ run'[r].attached = run[r].attached
         /\ \A n : Attach(r, n) =>
              /\ Same(r) /\ run'[r].step = "seal" /\ run'[r].outcome = run[r].outcome
              /\ run'[r].attached = [run[r].attached EXCEPT ![Import(r)] = n]
<1>1. run[r] \in RunOf(run[r].imports, 0..Len(inodes)) /\ DOMAIN run = Runs
  BY DEF TypeOK
<1> QED
  BY <1>1 DEF RunOf, Go, End, Attach, Same

(* How a run comes to each of its steps.                                   *)
LEMMA Comes ==
  ASSUME TypeOK, NEW r \in Runs, Act(r)
  PROVE  /\ At(r, "copy")' => Look(r) /\ Stored(r) = 0
         /\ At(r, "register")' => Copy(r)
         /\ At(r, "fill")' => RegisterCopy(r)
         /\ At(r, "verify")' => Fill(r)
         /\ At(r, "seal")' => AttachLink(r) \/ AttachCopy(r) \/ AttachAgain(r)
         /\ At(r, "rehash")' => RegisterLost(r)
         /\ At(r, "exists")' => Verify(r) \/ Rehash(r) \/ IOError(r)
         /\ At(r, "direct")' => Hash(r) \/ Exists(r)
         /\ Seal(r) \/ Direct(r) \/ Same(r)
<1>1. Started(r) /\ Active(r)
  BY ActFrame DEF Frame, Active
<1>2. run[r] \in RunOf(run[r].imports, 0..Len(inodes)) /\ DOMAIN run = Runs
  BY <1>1 DEF TypeOK
<1>3. Seal(r) => run'[r].step = "look"
  BY <1>2 DEF RunOf, Seal
<1>4. Direct(r) => run'[r].outcome = "damaged"
  BY <1>2 DEF RunOf, Direct
<1>5. /\ Look(r) => run'[r].step = IF Stored(r) # 0 THEN "hash" ELSE "copy"
      /\ Copy(r) => run'[r].step = "register"
      /\ RegisterLink(r) => run'[r].step = "readonly"
      /\ RegisterCopy(r) => run'[r].step = "fill"
      /\ RegisterLost(r) => run'[r].step = "rehash"
      /\ Fill(r) => run'[r].step = "verify"
      /\ Verify(r) => run'[r].step \in {"readonly", "exists"}
      /\ MakeReadonly(r) => run'[r].step = "attach"
      /\ Hash(r) => run'[r].step \in {"attach", "direct"}
      /\ Rehash(r) => run'[r].step \in {"attach", "exists"}
  BY <1>1, Moves DEF Look, Copy, RegisterLink, RegisterCopy, CreateObject, RegisterLost, Fill, Verify, MakeReadonly, Hash, Rehash
<1>6. /\ Exists(r) => run'[r].outcome = "FAIL" \/ run'[r].step = "direct"
      /\ IOError(r) => run'[r].outcome = "FAIL" \/ run'[r].step = "exists"
      /\ CopyFails(r) \/ Refused(r) => run'[r].outcome = "FAIL"
      /\ Crash(r) => run'[r].outcome = "dead"
      /\ AttachLink(r) \/ AttachCopy(r) \/ AttachAgain(r) => run'[r].step = "seal"
  BY <1>1, Moves DEF Exists, IOError, CopyFails, Refused, Crash, AttachLink, AttachCopy, AttachAgain
<1>7. Seal(r) \/ Direct(r) \/ Same(r)
  BY <1>1, Moves
     DEF Act, Step, Look, Copy, RegisterLink, RegisterCopy, CreateObject, RegisterLost, Fill, Verify, MakeReadonly, Hash, Rehash, Exists,
         AttachLink, AttachCopy, AttachAgain, CopyFails, Refused, IOError, Crash
<1> QED
  BY <1>3, <1>4, <1>5, <1>6, <1>7 DEF Act, Step, At, Active

LEMMA OthersAt ==
  ASSUME TypeOK, NEW r \in Runs, Act(r), NEW q \in Runs, q # r
  PROVE  /\ \A step : At(q, step)' <=> At(q, step)
         /\ Active(q)' <=> Active(q)
         /\ Started(q)' <=> Started(q)
         /\ Import(q)' = Import(q) /\ run'[q] = run[q] /\ Attached(q)' = Attached(q)
  BY ActFrame DEF Frame, At, Active, Started, Import, Attached

LEMMA SameImport ==
  ASSUME NEW r \in Runs, Same(r)
  PROVE  Import(r)' = Import(r)
  BY DEF Same, Import

-----------------------------------------------------------------------------
(* Ownership is kept by every step.                                        *)
LEMMA PidsStep ==
  ASSUME Ownership, NEW r \in Runs, Act(r)
  PROVE  PidsApart'
  BY ActFrame DEF Frame, PidsApart, Ownership, Active, Started

(* A run's temporary is only touched by the run itself.                    *)
LEMMA OthersTemporary ==
  ASSUME Ownership, NEW r \in Runs, Act(r), NEW q \in Runs, q # r, Active(q)
  PROVE  Temporary(q)' = Temporary(q)
<1>1. Active(r) /\ run[q].pid # run[r].pid /\ TypeOK
  BY ActFrame DEF Frame, Ownership, PidsApart
<1>2. Import(q) \in Contents /\ run[q].pid \in Pids /\ Started(q)
  BY <1>1, RunFacts DEF Active
<1>3. run'[q] = run[q] /\ temporary'[<<run[q].pid, Import(q)>>] = temporary[<<run[q].pid, Import(q)>>]
  BY <1>1, <1>2, ActFrame DEF Frame
<1>4. Import(q)' = Import(q)
  BY <1>3 DEF Import
<1> QED
  BY <1>3, <1>4 DEF Temporary

LEMMA TemporariesStep ==
  ASSUME Ownership, NEW r \in Runs, Act(r)
  PROVE  TemporariesThere' /\ TemporaryFree'
<1>1. TypeOK /\ Started(r) /\ Import(r) \in Contents /\ run[r].pid \in Pids
  BY ActFrame, RunFacts DEF Frame, Active, Ownership
<1>2. temporary \in [Pids \X Contents -> 0..Len(inodes)] /\ <<run[r].pid, Import(r)>> \in Pids \X Contents
  BY <1>1 DEF TypeOK
<1>3. /\ run'[r].pid = run[r].pid
      /\ Same(r) => \A n : SetTemporary(r, n) => Temporary(r)' = n
      /\ Same(r) => (UNCHANGED temporary => Temporary(r)' = Temporary(r))
  BY <1>1, <1>2, ActFrame, SameImport DEF Frame, SetTemporary, Temporary
<1>4. (Registering(r) => Temporary(r) # 0)' /\ (At(r, "copy") => Temporary(r) = 0)'
  <2>1. ASSUME Copy(r) PROVE Temporary(r)' # 0
    <3>1. Same(r) /\ SetTemporary(r, Len(inodes'))
      BY <1>1, <2>1, Moves DEF Copy
    <3>2. Len(inodes') # 0
      BY <1>1, <2>1, NewFileFacts DEF Copy, TypeOK
    <3> QED
      BY <1>3, <3>1, <3>2
  <2>2. ASSUME RegisterCopy(r) PROVE Temporary(r)' # 0
    <3>1. Same(r) /\ UNCHANGED temporary /\ At(r, "register")
      BY <1>1, <2>2, Moves DEF RegisterCopy, CreateObject
    <3> QED
      BY <1>3, <3>1 DEF Ownership, TemporariesThere, Registering
  <2>3. ASSUME Look(r), Stored(r) = 0 PROVE Temporary(r)' = 0
    <3>1. Same(r) /\ SetTemporary(r, 0)
      BY <1>1, <2>3, Moves DEF Look
    <3> QED
      BY <1>3, <3>1
  <2> QED
    BY <1>1, <2>1, <2>2, <2>3, Comes DEF Registering
<1>5. ASSUME NEW q \in Runs, q # r PROVE (Registering(q) => Temporary(q) # 0)' /\ (At(q, "copy") => Temporary(q) = 0)'
  <2>1. (At(q, "register")' <=> At(q, "register")) /\ (At(q, "fill")' <=> At(q, "fill")) /\ (At(q, "copy")' <=> At(q, "copy"))
    BY <1>1, <1>5, OthersAt
  <2>2. Registering(q) \/ At(q, "copy") => Temporary(q)' = Temporary(q)
    BY <1>5, OthersTemporary DEF Registering, At
  <2> QED
    BY <2>1, <2>2 DEF Registering, Ownership, TemporariesThere, TemporaryFree
<1> QED
  BY <1>4, <1>5 DEF TemporariesThere, TemporaryFree

(* The object of a content comes from a registration, where none was, and  *)
(* goes with the run that was filling it.                                  *)
LEMMA ObjectMoves ==
  ASSUME Ownership, NEW r \in Runs, Act(r)
  PROVE  \/ UNCHANGED object
         \/ RegisterLink(r) /\ Stored(r) = 0 /\ object'[Import(r)] = Temporary(r) /\ Temporary(r) # 0
         \/ RegisterCopy(r) /\ Stored(r) = 0 /\ object'[Import(r)] = Len(inodes') /\ Len(inodes') = Len(inodes) + 1
         \/ Filler(r) /\ ~Filler(r)' /\ object'[Import(r)] = 0
<1>1. TypeOK /\ Started(r) /\ Import(r) \in Contents
  BY ActFrame, RunFacts DEF Frame, Active, Ownership
<1>2. \A n : SetObject(r, n) => object'[Import(r)] = n
  BY <1>1 DEF SetObject, TypeOK
<1>3. RegisterLink(r) => Stored(r) = 0 /\ object'[Import(r)] = Temporary(r) /\ Temporary(r) # 0
  BY <1>2 DEF RegisterLink, Ownership, TemporariesThere, Registering
<1>4. RegisterCopy(r) => Stored(r) = 0 /\ object'[Import(r)] = Len(inodes') /\ Len(inodes') = Len(inodes) + 1
  BY <1>1, <1>2, NewFileFacts DEF RegisterCopy, CreateObject, TypeOK
<1>5. Verify(r) => UNCHANGED object \/ (Filler(r) /\ ~Filler(r)' /\ object'[Import(r)] = 0)
  <2>1. Verify(r) => run'[r].step \in {"readonly", "exists"}
    BY <1>1, Moves DEF Verify
  <2> QED
    BY <1>2, <2>1 DEF Verify, Filler, At
<1>6. IOError(r) => UNCHANGED object \/ (Filler(r) /\ ~Filler(r)' /\ object'[Import(r)] = 0)
  <2>1. Go(r, "exists") => run'[r].step = "exists"
    BY <1>1, Moves
  <2> QED
    BY <1>2, <2>1 DEF IOError, Filler, At
<1> QED
  BY <1>3, <1>4, <1>5, <1>6
     DEF Act, Step, Look, Copy, RegisterLost, Fill, MakeReadonly, Hash, Rehash, Exists, Direct,
         AttachLink, AttachCopy, AttachAgain, Seal, CopyFails, Refused, Crash

LEMMA FillersStep ==
  ASSUME Ownership, NEW r \in Runs, Act(r)
  PROVE  FillersApart' /\ FillersHaveObject'
<1>1. TypeOK /\ Started(r) /\ Import(r) \in Contents
  BY ActFrame, RunFacts DEF Frame, Active, Ownership
<1>2. \A q \in Runs : q # r => (Filler(q)' <=> Filler(q)) /\ Import(q)' = Import(q)
  BY <1>1, OthersAt DEF Filler
<1>3. ASSUME Filler(r)'
      PROVE  /\ Import(r)' = Import(r)
             /\ RegisterCopy(r) \/ (Filler(r) /\ UNCHANGED object)
  <2>1. RegisterCopy(r) \/ Fill(r)
    BY <1>1, <1>3, Comes DEF Filler
  <2>2. Same(r)
    BY <1>1, <2>1, Moves DEF RegisterCopy, CreateObject, Fill
  <2>3. Fill(r) => Filler(r) /\ UNCHANGED object
    BY DEF Fill, Filler
  <2> QED
    BY <2>1, <2>2, <2>3, SameImport
<1>4. RegisterCopy(r) => Stored(r) = 0 /\ object'[Import(r)] # 0
  <2>1. Len(inodes) \in Nat
    BY <1>1 DEF TypeOK
  <2> QED
    BY <1>1, <2>1, NewFileFacts DEF RegisterCopy, CreateObject, SetObject, TypeOK
<1>5. FillersApart'
  <2>1. ASSUME NEW q \in Runs, q # r, Filler(q), Filler(r)' PROVE Import(q) # Import(r)
    BY <1>3, <1>4, <2>1 DEF Ownership, FillersApart, FillersHaveObject, Stored
  <2> QED
    BY <1>2, <1>3, <2>1 DEF FillersApart, Ownership
<1>6. FillersHaveObject'
  <2>1. ASSUME NEW q \in Runs, q # r, Filler(q) PROVE object'[Import(q)] # 0
    <3>1. Stored(q) # 0 /\ Import(q) \in Contents
      BY <1>1, <2>1, RunFacts DEF Ownership, FillersHaveObject, Filler, At, Active
    <3>2. CASE Import(q) # Import(r)
      BY <3>1, <3>2, ActFrame, <1>1 DEF Frame, Stored
    <3>3. CASE Import(q) = Import(r)
      BY <2>1, <3>1, <3>3, ObjectMoves DEF Ownership, FillersApart, Stored
    <3> QED
      BY <3>2, <3>3
  <2>2. Filler(r)' => object'[Import(r)] # 0
    BY <1>3, <1>4 DEF Ownership, FillersHaveObject, Stored
  <2> QED
    BY <1>2, <1>3, <2>1, <2>2 DEF FillersHaveObject, Stored
<1> QED
  BY <1>5, <1>6

LEMMA SealsStep ==
  ASSUME Ownership, NEW r \in Runs, Act(r)
  PROVE  SealsAttached'
<1>1. TypeOK /\ Started(r) /\ Import(r) \in Contents
  BY ActFrame, RunFacts DEF Frame, Active, Ownership
<1>2. At(r, "seal")' => Attached(r)' # 0
  <2>1. ASSUME At(r, "seal")' PROVE \E n : Attach(r, n) /\ n # 0
    <3>1. AttachLink(r) \/ AttachCopy(r) \/ AttachAgain(r)
      BY <1>1, <2>1, Comes
    <3>2. AttachCopy(r) => Len(inodes') # 0
      <4>1. inodes \in Seq(Files)
        BY <1>1 DEF TypeOK
      <4>2. Stored(r) \in 0..Len(inodes)
        BY <1>1, RunFacts
      <4>3. ASSUME Stored(r) # 0 PROVE inodes[Stored(r)] \in Files
        BY <4>1, <4>2, <4>3
      <4> QED
        BY <4>1, <4>3 DEF AttachCopy
    <3> QED
      BY <3>1, <3>2 DEF AttachLink, AttachCopy, AttachAgain
  <2>2. ASSUME NEW n, Attach(r, n), n # 0 PROVE Attached(r)' # 0
    <3>1. Same(r) /\ run'[r].attached = [run[r].attached EXCEPT ![Import(r)] = n]
      BY <1>1, <2>2, Moves
    <3>2. run[r].attached \in [Contents -> 0..Len(inodes)]
      BY <1>1, RunFacts DEF RunOf
    <3> QED
      BY <1>1, <2>2, <3>1, <3>2, SameImport DEF Attached
  <2> QED
    BY <2>1, <2>2
<1>3. \A q \in Runs : q # r => (At(q, "seal")' <=> At(q, "seal")) /\ Attached(q)' = Attached(q)
  BY <1>1, OthersAt
<1> QED
  BY <1>2, <1>3 DEF SealsAttached, Ownership

(* What a run's step attaches, and what becomes of its temporary.          *)
LEMMA AttachedNew ==
  ASSUME TypeOK, NEW r \in Runs, Started(r), Direct(r)
  PROVE  /\ run'[r].attached = [run[r].attached EXCEPT ![Import(r)] = Len(inodes) + 1]
         /\ run'[r].attached[Import(r)] = Len(inodes) + 1
<1>1. Import(r) \in Contents /\ inodes \in Seq(Files)
  BY RunFacts DEF TypeOK
<1>2. PICK content \in {Import(r), Other} :
        /\ NewFile(content)
        /\ run' = [run EXCEPT ![r].attached[Import(r)] = Len(inodes'), ![r].outcome = "damaged",
                              ![r].receipt[run[r].index] = content]
  BY DEF Direct
<1>3. run[r] \in RunOf(run[r].imports, 0..Len(inodes)) /\ DOMAIN run = Runs
  BY DEF TypeOK
<1>4. run'[r].attached = [run[r].attached EXCEPT ![Import(r)] = Len(inodes')] /\ run[r].attached \in [Contents -> 0..Len(inodes)]
  BY <1>2, <1>3 DEF RunOf
<1>5. Len(inodes') = Len(inodes) + 1
  BY <1>1, <1>2, NewFileFacts
<1> QED
  BY <1>1, <1>4, <1>5

LEMMA AttachedMoves ==
  ASSUME TypeOK, NEW r \in Runs, Act(r)
  PROVE  \/ run'[r].attached = run[r].attached
         \/ \E m \in {Stored(r), Attached(r), Len(inodes) + 1} : run'[r].attached = [run[r].attached EXCEPT ![Import(r)] = m]
<1>1. Started(r) /\ Import(r) \in Contents /\ inodes \in Seq(Files) /\ Stored(r) \in 0..Len(inodes)
  BY ActFrame, RunFacts DEF Frame, Active, TypeOK
<1>2. AttachLink(r) \/ AttachAgain(r) => \E m \in {Stored(r), Attached(r)} : run'[r].attached = [run[r].attached EXCEPT ![Import(r)] = m]
  BY <1>1, Moves DEF AttachLink, AttachAgain
<1>3. AttachCopy(r) => run'[r].attached = [run[r].attached EXCEPT ![Import(r)] = Len(inodes) + 1]
  <2>1. Stored(r) # 0 => inodes[Stored(r)] \in Files
    BY <1>1
  <2>2. AttachCopy(r) => Len(inodes') = Len(inodes) + 1
    BY <1>1, <2>1 DEF AttachCopy
  <2> QED
    BY <1>1, <2>2, Moves DEF AttachCopy
<1>4. Direct(r) => run'[r].attached = [run[r].attached EXCEPT ![Import(r)] = Len(inodes) + 1]
  BY <1>1, AttachedNew
<1>5. Seal(r) => run'[r].attached = run[r].attached
  <2>1. run[r] \in RunOf(run[r].imports, 0..Len(inodes)) /\ DOMAIN run = Runs
    BY <1>1 DEF TypeOK
  <2> QED
    BY <2>1 DEF Seal, RunOf
<1>6. (UNCHANGED run \/ (\E step : Go(r, step)) \/ (\E ending : End(r, ending))) => run'[r].attached = run[r].attached
  BY <1>1, Moves
<1> QED
  BY <1>2, <1>3, <1>4, <1>5, <1>6
     DEF Act, Step, Look, Copy, RegisterLink, RegisterCopy, CreateObject, RegisterLost, Fill, Verify, MakeReadonly, Hash, Rehash,
         Exists, CopyFails, Refused, IOError, Crash

LEMMA TemporaryMoves ==
  ASSUME TypeOK, NEW r \in Runs, Act(r)
  PROVE  UNCHANGED temporary \/ temporary'[<<run[r].pid, Import(r)>>] \in {0, Len(inodes) + 1}
<1>1. Started(r) /\ Import(r) \in Contents /\ <<run[r].pid, Import(r)>> \in Pids \X Contents /\ inodes \in Seq(Files)
  BY ActFrame, RunFacts DEF Frame, Active, TypeOK
<1>2. \/ UNCHANGED temporary
      \/ SetTemporary(r, 0)
      \/ SetTemporary(r, Len(inodes')) /\ \E content \in Contents \union {Other} : NewFile(content)
  BY <1>1 DEF Act, Step, Look, Copy, RegisterLink, RegisterCopy, CreateObject, RegisterLost, Fill, Verify, MakeReadonly, Hash, Rehash,
         Exists, Direct, AttachLink, AttachCopy, AttachAgain, Seal, CopyFails, Refused, IOError, Crash
<1>3. \A m : SetTemporary(r, m) => temporary'[<<run[r].pid, Import(r)>>] = m
  BY <1>1 DEF SetTemporary, TypeOK
<1>4. (\E content \in Contents \union {Other} : NewFile(content)) => Len(inodes') = Len(inodes) + 1
  BY <1>1, NewFileFacts
<1> QED
  BY <1>2, <1>3, <1>4

(* A file that is there belongs to no further content; a new one belongs   *)
(* to the content that its run is at.                                      *)
LEMMA BelongsStep ==
  ASSUME Ownership, NEW r \in Runs, Act(r), NEW n \in Nat \ {0}, NEW c \in Contents, Belongs(n, c)'
  PROVE  (n \in 1..Len(inodes) /\ Belongs(n, c)) \/ (n = Len(inodes) + 1 /\ c = Import(r))
<1>1. TypeOK /\ Started(r) /\ Import(r) \in Contents /\ run[r].pid \in Pids /\ <<run[r].pid, Import(r)>> \in Pids \X Contents
  BY ActFrame, RunFacts DEF Frame, Active, Ownership
<1>2. /\ inodes \in Seq(Files) /\ object \in [Contents -> 0..Len(inodes)] /\ temporary \in [Pids \X Contents -> 0..Len(inodes)]
      /\ \A q \in Runs : Started(q) => run[q].attached \in [Contents -> 0..Len(inodes)]
  BY <1>1 DEF TypeOK, RunOf
<1>3. Belongs(n, c) => n \in 1..Len(inodes)
  <2>1. object[c] \in 0..Len(inodes) /\ \A pid \in Pids : temporary[<<pid, c>>] \in 0..Len(inodes)
    BY <1>2
  <2>2. \A q \in Runs : Started(q) => run[q].attached[c] \in 0..Len(inodes)
    BY <1>2
  <2>3. n \in 0..Len(inodes) => n \in 1..Len(inodes)
    OBVIOUS
  <2> QED
    BY <2>1, <2>2, <2>3, Zenon DEF Belongs
<1>4. ASSUME object'[c] = n PROVE Belongs(n, c) \/ (n = Len(inodes) + 1 /\ c = Import(r))
  <2>1. CASE c # Import(r)
    BY <1>1, <1>4, <2>1, ActFrame DEF Frame, Belongs
  <2>2. CASE c = Import(r)
    BY <1>1, <1>4, <2>2, ObjectMoves DEF Belongs, Temporary
  <2> QED
    BY <2>1, <2>2
<1>5. ASSUME NEW pid \in Pids, temporary'[<<pid, c>>] = n PROVE Belongs(n, c) \/ (n = Len(inodes) + 1 /\ c = Import(r))
  <2>1. CASE <<pid, c>> # <<run[r].pid, Import(r)>>
    <3>1. temporary[<<pid, c>>] = n
      BY <1>1, <1>5, <2>1, ActFrame DEF Frame
    <3> QED
      BY <3>1 DEF Belongs
  <2>2. CASE <<pid, c>> = <<run[r].pid, Import(r)>>
    <3>1. UNCHANGED temporary \/ temporary'[<<pid, c>>] \in {0, Len(inodes) + 1}
      BY <1>1, <2>2, TemporaryMoves
    <3> QED
      BY <1>5, <2>2, <3>1 DEF Belongs
  <2> QED
    BY <2>1, <2>2
<1>6. ASSUME NEW q \in Runs, Started(q)', run'[q].attached[c] = n PROVE Belongs(n, c) \/ (n = Len(inodes) + 1 /\ c = Import(r))
  <2>1. CASE q # r
    <3>1. Started(q) /\ run[q].attached[c] = n
      BY <1>1, <1>6, <2>1, OthersAt
    <3> QED
      BY <3>1 DEF Belongs
  <2>2. CASE q = r /\ c # Import(r)
    <3>1. run[r].attached[c] = n
      BY <1>1, <1>6, <2>2, ActFrame DEF Frame
    <3> QED
      BY <1>1, <3>1 DEF Belongs
  <2>3. CASE q = r /\ c = Import(r)
    <3>1. run'[r].attached = run[r].attached \/ \E m \in {Stored(r), Attached(r), Len(inodes) + 1} : run'[r].attached = [run[r].attached EXCEPT ![Import(r)] = m]
      BY <1>1, AttachedMoves
    <3> QED
      BY <1>1, <1>2, <1>6, <2>3, <3>1 DEF Belongs, Stored, Attached
  <2> QED
    BY <2>1, <2>2, <2>3
<1> QED
  BY <1>3, <1>4, <1>5, <1>6 DEF Belongs

LEMMA ContentsStep ==
  ASSUME Ownership, NEW r \in Runs, Act(r)
  PROVE  OneContent'
<1>1. inodes \in Seq(Files) /\ OneContent
  BY DEF Ownership, TypeOK
<1>2. ASSUME NEW n \in 1..Len(inodes'), NEW c \in Contents, NEW d \in Contents, Belongs(n, c)', Belongs(n, d)' PROVE c = d
  <2>1. (n \in 1..Len(inodes) /\ Belongs(n, c)) \/ (n = Len(inodes) + 1 /\ c = Import(r))
    BY <1>2, BelongsStep
  <2>2. (n \in 1..Len(inodes) /\ Belongs(n, d)) \/ (n = Len(inodes) + 1 /\ d = Import(r))
    BY <1>2, BelongsStep
  <2>3. n \in 1..Len(inodes) => n # Len(inodes) + 1
    BY <1>1
  <2> QED
    BY <1>1, <2>1, <2>2, <2>3 DEF OneContent
<1> QED
  BY <1>2 DEF OneContent

LEMMA OwnershipStep == Ownership /\ [Next]_vars => Ownership'
<1> SUFFICES ASSUME Ownership, [Next]_vars PROVE Ownership'
  OBVIOUS
<1>1. TypeOK' /\ TypeOK
  BY TypeStep DEF Ownership
<1>2. ASSUME NEW r \in Runs, Act(r) PROVE Ownership'
  BY <1>1, <1>2, PidsStep, TemporariesStep, FillersStep, SealsStep, ContentsStep DEF Ownership
<1>3. ASSUME NEW r \in Runs, NEW pid \in Pids, NEW imports \in ImportLists, Start(r, pid, imports) PROVE Ownership'
  <2>1. /\ run'[r].pid = pid /\ run'[r].step = "look" /\ run'[r].attached = [c \in Contents |-> 0]
        /\ \A q \in Runs : q # r => run'[q] = run[q]
        /\ inodes' = inodes /\ object' = object /\ temporary' = temporary
    BY <1>1, <1>3 DEF Start, TypeOK
  <2>2. \A q \in Runs : q # r =>
          /\ \A step : At(q, step)' <=> At(q, step)
          /\ Import(q)' = Import(q) /\ Stored(q)' = Stored(q) /\ Temporary(q)' = Temporary(q) /\ Attached(q)' = Attached(q)
          /\ Active(q)' <=> Active(q)
    BY <2>1 DEF At, Active, Started, Import, Stored, Temporary, Attached
  <2>3. PidsApart'
    BY <1>3, <2>1, <2>2 DEF Ownership, PidsApart, Start
  <2>4. \A step \in Steps : At(r, step)' => step = "look"
    BY <2>1 DEF At
  <2>5. (TemporariesThere /\ TemporaryFree /\ FillersApart /\ FillersHaveObject /\ SealsAttached)'
    BY <2>2, <2>4 DEF Ownership, TemporariesThere, TemporaryFree, FillersApart, FillersHaveObject, SealsAttached, Registering, Filler, Steps
  <2>6. \A n \in 1..Len(inodes) : \A c \in Contents : Belongs(n, c)' => Belongs(n, c)
    BY <2>1 DEF Belongs, Started
  <2>7. OneContent'
    BY <2>1, <2>6 DEF Ownership, OneContent
  <2> QED
    BY <1>1, <2>3, <2>5, <2>7 DEF Ownership
<1>4. ASSUME UNCHANGED <<object, temporary, run>>, Len(inodes') = Len(inodes) PROVE Ownership'
  <2>1. ASSUME NEW q \in Runs
        PROVE  /\ \A step : At(q, step)' <=> At(q, step)
               /\ Active(q)' <=> Active(q)
               /\ Import(q)' = Import(q) /\ Stored(q)' = Stored(q) /\ Temporary(q)' = Temporary(q) /\ Attached(q)' = Attached(q)
               /\ run'[q] = run[q]
    BY <1>4 DEF At, Active, Started, Import, Stored, Temporary, Attached
  <2>2. \A n, c : Belongs(n, c)' <=> Belongs(n, c)
    BY <1>4 DEF Belongs, Started
  <2>3. (TemporariesThere /\ TemporaryFree)'
    BY <2>1 DEF Ownership, TemporariesThere, TemporaryFree, Registering
  <2>4. (FillersApart /\ FillersHaveObject)'
    BY <2>1 DEF Ownership, FillersApart, FillersHaveObject, Filler
  <2>5. (PidsApart /\ SealsAttached)'
    BY <2>1 DEF Ownership, PidsApart, SealsAttached
  <2>6. OneContent'
    BY <1>4, <2>2 DEF Ownership, OneContent
  <2> QED
    BY <1>1, <2>3, <2>4, <2>5, <2>6 DEF Ownership
<1>5. ASSUME NEW x \in Contents, Damage(x) PROVE Ownership'
  <2>1. inodes' = [inodes EXCEPT ![object[x]].bytes = Other] /\ object[x] \in 0..Len(inodes) /\ inodes \in Seq(Files)
    BY <1>1, <1>5 DEF Damage, TypeOK
  <2>2. Len(inodes') = Len(inodes)
    BY <2>1, RewriteFacts
  <2> QED
    BY <1>1, <1>5, <2>2, <1>4 DEF Damage
<1>6. ASSUME UNCHANGED vars PROVE Ownership'
  BY <1>1, <1>6, <1>4 DEF vars
<1> QED
  BY <1>2, <1>3, <1>5, <1>6, NextCases DEF Acting, Starting

-----------------------------------------------------------------------------
(* A run that has started is never taken back, so what is clean after a    *)
(* step was clean before it.                                               *)
LEMMA CleanBefore ==
  ASSUME TypeOK, TemporariesThere, NEW r \in Runs, Act(r), Clean'
  PROVE  Clean
<1>1. Frame(r)
  BY ActFrame
<1>2. \A q \in Runs : Started(q) => Started(q)'
  BY RunsStep DEF RunsGoOn, Started
<1>3. \A q \in Runs : run'[q].imports = run[q].imports
  BY <1>1 DEF Frame
<1>4. "damage" \notin faults
  BY <1>1 DEF Frame, Clean
<1> QED
  BY <1>2, <1>3, <1>4 DEF Clean, DistinctInputs

(* What holds before a step of a run, and nothing is damaged.              *)
Fixed == Ownership /\ Clean /\ Contained
LEMMA StaysWhole ==
  ASSUME Fixed, NEW r \in Runs, Act(r), Clean',
         NEW n \in 0..Len(inodes), NEW c \in Contents, Belongs(n, c), Bytes(n) = c
  PROVE  Bytes(n)' = c
<1>1. TypeOK /\ TemporariesThere /\ [Next]_vars
  BY DEF Fixed, Ownership, Next, Act
<1>2. CASE n = 0
  BY <1>2 DEF Bytes
<1>3. CASE n # 0
  <2>1. n \in 1..Len(inodes)
    BY <1>3
  <2>2. CASE Bytes(n)' = Bytes(n)
    BY <2>2
  <2>3. CASE Written(n)
    <3>1. ASSUME NEW q \in Runs, At(q, "fill"), n = Stored(q), Bytes(n)' = Bytes(Temporary(q)) PROVE Bytes(n)' = c
      <4>1. Import(q) \in Contents
        BY <1>1, <3>1, RunFacts DEF At, Active
      <4>2. Belongs(n, Import(q))
        BY <3>1 DEF Belongs, Stored
      <4>3. Import(q) = c
        BY <2>1, <4>1, <4>2 DEF Fixed, Ownership, OneContent
      <4>4. Bytes(Temporary(q)) = Import(q)
        BY <3>1 DEF Fixed, Contained, TemporaryIsCopy, Registering
      <4> QED
        BY <3>1, <4>3, <4>4
    <3>2. ASSUME NEW q \in Runs, At(q, "attach"), Attached(q) # 0 PROVE FALSE
      <4>1. run[q].index \in DOMAIN run[q].imports
        BY <1>1, <3>2, RunFacts DEF At, Active
      <4> QED
        BY <3>2, <4>1 DEF Fixed, Contained, AttachOnce, At, Attached, Import
    <3> QED
      BY <2>3, <3>1, <3>2 DEF Written, Clean, Damage, Fault
  <2> QED
    BY <1>1, <2>1, <2>2, <2>3, FilesStep
<1> QED
  BY <1>2, <1>3

(* The evidence of an input that the step is not about stays.              *)
LEMMA EvidenceStaysPut ==
  ASSUME Fixed, NEW r \in Runs, Act(r), Clean', NEW q \in Runs, Started(q),
         NEW i \in DOMAIN run[q].imports, EvidenceOf(q, i), run'[q].imports = run[q].imports,
         run'[q].receipt[i] = run[q].receipt[i],
         run'[q].attached[run[q].imports[i]] = run[q].attached[run[q].imports[i]]
  PROVE  EvidenceOf(q, i)'
<1> DEFINE c == run[q].imports[i]
           n == run[q].attached[c]
<1>1. c \in Contents
  BY RunFacts DEF Fixed, Ownership
<1>2. run[q].attached \in [Contents -> 0..Len(inodes)]
  BY RunFacts DEF Fixed, Ownership, RunOf
<1>3. n \in 0..Len(inodes) /\ n # 0 /\ Bytes(n) = c /\ run[q].receipt[i] = c
  BY <1>1, <1>2 DEF EvidenceOf
<1>4. Belongs(n, c)
  BY DEF Belongs
<1>5. \A m \in {n} : Bytes(m)' = c
  BY <1>1, <1>3, <1>4, StaysWhole
<1> QED
  BY <1>3, <1>5 DEF EvidenceOf, Bytes

(* Other inputs of a run have other contents, and nothing is attached for  *)
(* the one it is at before it is.                                          *)
LEMMA OtherInputs ==
  ASSUME Fixed, NEW r \in Runs, Started(r), NEW i \in DOMAIN run[r].imports, i # run[r].index
  PROVE  run[r].imports[i] \in Contents /\ run[r].imports[i] # Import(r)
<1>1. run[r].index \in DOMAIN run[r].imports /\ run[r].imports \in Seq(Contents)
  BY RunFacts DEF Fixed, Ownership
<1> QED
  BY <1>1 DEF Fixed, Clean, DistinctInputs, Import

-----------------------------------------------------------------------------
(* Each part of what is contained is kept by a step of a run.              *)
LEMMA CopiesStep ==
  ASSUME Fixed, NEW r \in Runs, Act(r), Clean'
  PROVE  TemporaryIsCopy'
<1>1. TypeOK /\ Started(r) /\ Import(r) \in Contents /\ run[r].pid \in Pids /\ <<run[r].pid, Import(r)>> \in Pids \X Contents
  BY ActFrame, RunFacts DEF Frame, Active, Fixed, Ownership
<1>2. ASSUME NEW q \in Runs, Registering(q), UNCHANGED temporary \/ q # r, Import(q)' = Import(q), Temporary(q)' = Temporary(q)
      PROVE  Bytes(Temporary(q))' = Import(q)'
  <2>1. Import(q) \in Contents /\ run[q].pid \in Pids /\ Temporary(q) \in 0..Len(inodes)
    BY <1>1, <1>2, RunFacts DEF Registering, At, Active
  <2>2. Bytes(Temporary(q)) = Import(q)
    BY <1>2 DEF Fixed, Contained, TemporaryIsCopy
  <2>3. Belongs(Temporary(q), Import(q))
    BY <2>1 DEF Belongs, Temporary
  <2>4. \A n \in {Temporary(q)} : Bytes(n)' = Import(q)
    BY <2>1, <2>2, <2>3, StaysWhole
  <2> QED
    BY <1>2, <2>4 DEF Bytes
<1>3. ASSUME Registering(r)' PROVE Bytes(Temporary(r))' = Import(r)'
  <2>1. Copy(r) \/ RegisterCopy(r)
    BY <1>1, <1>3, Comes DEF Registering
  <2>2. Same(r) /\ Import(r)' = Import(r) /\ run'[r].pid = run[r].pid
    BY <1>1, <2>1, Moves, SameImport, ActFrame DEF Copy, RegisterCopy, CreateObject, Frame
  <2>3. CASE Copy(r)
    <3>1. NewFile(Import(r)) /\ SetTemporary(r, Len(inodes')) /\ inodes \in Seq(Files)
      BY <1>1, <2>3 DEF Copy, TypeOK
    <3>2. Len(inodes') = Len(inodes) + 1 /\ \A n \in {Len(inodes) + 1} : n # 0 /\ Bytes(n)' = Import(r)
      BY <1>1, <3>1, NewFileFacts
    <3>3. Temporary(r)' = Len(inodes) + 1
      BY <1>1, <2>2, <3>1, <3>2 DEF SetTemporary, Temporary, TypeOK
    <3> QED
      BY <2>2, <3>2, <3>3 DEF Bytes
  <2>4. CASE RegisterCopy(r)
    <3>1. Registering(r) /\ UNCHANGED temporary
      BY <2>4 DEF RegisterCopy, CreateObject, Registering
    <3>2. Temporary(r)' = Temporary(r)
      BY <2>2, <3>1 DEF Temporary
    <3> QED
      BY <1>2, <2>2, <3>1, <3>2
  <2> QED
    BY <2>1, <2>3, <2>4
<1>4. ASSUME NEW q \in Runs, q # r, Registering(q)' PROVE Bytes(Temporary(q))' = Import(q)'
  <2>1. Registering(q) /\ Import(q)' = Import(q)
    BY <1>1, <1>4, OthersAt DEF Registering
  <2>2. Temporary(q)' = Temporary(q)
    BY <1>4, <2>1, OthersTemporary DEF Fixed, Registering, At
  <2> QED
    BY <1>2, <1>4, <2>1, <2>2
<1> QED
  BY <1>3, <1>4 DEF TemporaryIsCopy

LEMMA VerifiesStep ==
  ASSUME Fixed, NEW r \in Runs, Act(r), Clean'
  PROVE  VerifiesWhole'
<1>1. TypeOK /\ Started(r) /\ Import(r) \in Contents
  BY ActFrame, RunFacts DEF Frame, Active, Fixed, Ownership
<1>2. ASSUME At(r, "verify")' PROVE Bytes(Stored(r))' = Import(r)'
  <2>1. Fill(r) /\ At(r, "fill")
    BY <1>1, <1>2, Comes DEF Fill
  <2>2. Import(r)' = Import(r) /\ Stored(r)' = Stored(r)
    <3>1. Same(r)
      BY <1>1, <2>1, Moves DEF Fill
    <3> QED
      BY <2>1, <3>1, SameImport DEF Fill, Stored
  <2>3. Bytes(Temporary(r)) = Import(r) /\ Stored(r) # 0 /\ Stored(r) \in 0..Len(inodes) /\ inodes \in Seq(Files)
    BY <1>1, <2>1, RunFacts DEF Fixed, Contained, TemporaryIsCopy, Registering, Ownership, FillersHaveObject, Filler, TypeOK
  <2>4. inodes' = [inodes EXCEPT ![Stored(r)].bytes = Import(r)]
    BY <2>1, <2>3 DEF Fill
  <2>5. \A n \in {Stored(r)} : Bytes(n)' = Import(r)
    BY <1>1, <2>3, <2>4, RewriteFacts
  <2> QED
    BY <2>2, <2>5 DEF Bytes
<1>3. ASSUME NEW q \in Runs, q # r, At(q, "verify")' PROVE Bytes(Stored(q))' = Import(q)'
  <2>1. At(q, "verify") /\ Filler(q) /\ Import(q)' = Import(q)
    BY <1>1, <1>3, OthersAt DEF Filler
  <2>2. Import(q) \in Contents /\ Stored(q) \in 0..Len(inodes) /\ Stored(q) # 0 /\ Bytes(Stored(q)) = Import(q)
    BY <1>1, <2>1, RunFacts DEF At, Active, Fixed, Contained, VerifiesWhole, Ownership, FillersHaveObject
  <2>3. object'[Import(q)] = object[Import(q)]
    <3>1. CASE Import(q) # Import(r)
      BY <1>1, <2>2, <3>1, ActFrame DEF Frame
    <3>2. CASE Import(q) = Import(r)
      BY <1>3, <2>1, <2>2, <3>2, ObjectMoves DEF Fixed, Ownership, FillersApart, Stored
    <3> QED
      BY <3>1, <3>2
  <2>4. Stored(q)' = Stored(q)
    BY <2>1, <2>3 DEF Stored
  <2>5. Belongs(Stored(q), Import(q))
    BY DEF Belongs, Stored
  <2>6. \A n \in {Stored(q)} : Bytes(n)' = Import(q)
    BY <2>2, <2>5, StaysWhole
  <2> QED
    BY <2>1, <2>4, <2>6 DEF Bytes
<1> QED
  BY <1>2, <1>3 DEF VerifiesWhole

(* What a seal does to the record of its run.                              *)
LEMMA Sealed ==
  ASSUME TypeOK, NEW r \in Runs, Started(r), Seal(r)
  PROVE  /\ run'[r].imports = run[r].imports /\ run'[r].attached = run[r].attached /\ run'[r].step = "look"
         /\ run'[r].receipt[run[r].index] = Bytes(Attached(r))
         /\ \A i \in DOMAIN run[r].imports : i # run[r].index => run'[r].receipt[i] = run[r].receipt[i]
         /\ run'[r].outcome # "damaged"
         /\ \/ Bytes(Attached(r)) # Import(r) /\ run'[r].outcome = "FAIL" /\ run'[r].index = run[r].index
            \/ /\ Bytes(Attached(r)) = Import(r) /\ run'[r].outcome = "PASS" /\ run'[r].index = run[r].index
               /\ run[r].index = Len(run[r].imports)
            \/ Bytes(Attached(r)) = Import(r) /\ run'[r].outcome = "running" /\ run'[r].index = run[r].index + 1
<1>1. run[r] \in RunOf(run[r].imports, 0..Len(inodes)) /\ DOMAIN run = Runs
  BY DEF TypeOK
<1>2. run[r].outcome = "running"
  BY DEF Seal, At, Active
<1> DEFINE content == Bytes(Attached(r))
           last == run[r].index = Len(run[r].imports)
           rec == [run[r] EXCEPT !.receipt = [@ EXCEPT ![run[r].index] = content], !.step = "look",
                     !.outcome = IF content # Import(r) THEN "FAIL" ELSE IF last THEN "PASS" ELSE @,
                     !.index = IF content # Import(r) \/ last THEN @ ELSE @ + 1]
<1>3. run'[r] = rec
  BY <1>1 DEF Seal
<1>4. rec.imports = run[r].imports /\ rec.attached = run[r].attached /\ rec.step = "look" /\ rec.receipt = [run[r].receipt EXCEPT ![run[r].index] = content]
  BY <1>1 DEF RunOf
<1>5. /\ rec.outcome = IF content # Import(r) THEN "FAIL" ELSE IF last THEN "PASS" ELSE "running"
      /\ rec.index = IF content # Import(r) \/ last THEN run[r].index ELSE run[r].index + 1
  BY <1>1, <1>2 DEF RunOf
<1>6. run[r].receipt \in [DOMAIN run[r].imports -> Contents \union {Other, None}] /\ run[r].index \in DOMAIN run[r].imports
  BY <1>1 DEF RunOf
<1> HIDE DEF rec, content
<1>7. /\ rec.receipt[run[r].index] = content
      /\ \A i \in DOMAIN run[r].imports : i # run[r].index => rec.receipt[i] = run[r].receipt[i]
  BY <1>4, <1>6
<1> QED
  BY <1>3, <1>4, <1>5, <1>7 DEF content

(* What a direct copy does to the record of its run.                       *)
LEMMA DirectCopied ==
  ASSUME TypeOK, NEW r \in Runs, Started(r), Direct(r)
  PROVE  /\ run'[r].imports = run[r].imports /\ run'[r].index = run[r].index /\ run'[r].outcome = "damaged"
         /\ \A i \in DOMAIN run[r].imports : i # run[r].index => run'[r].receipt[i] = run[r].receipt[i]
         /\ "change" \notin faults' => run'[r].receipt[run[r].index] = Import(r)
         /\ "change" \notin faults' => \A n \in {run'[r].attached[Import(r)]} : n # 0 /\ Bytes(n)' = Import(r)
<1>1. /\ run[r] \in RunOf(run[r].imports, 0..Len(inodes)) /\ DOMAIN run = Runs /\ Import(r) \in Contents
      /\ inodes \in Seq(Files)
  BY RunFacts DEF TypeOK
<1>2. PICK content \in {Import(r), Other} :
        /\ NewFile(content)
        /\ run' = [run EXCEPT ![r].attached[Import(r)] = Len(inodes'), ![r].outcome = "damaged",
                              ![r].receipt[run[r].index] = content]
        /\ IF content = Other THEN Fault("change") ELSE UNCHANGED faults
  BY DEF Direct
<1> DEFINE rec == [run[r] EXCEPT !.attached = [@ EXCEPT ![Import(r)] = Len(inodes')], !.outcome = "damaged",
                                 !.receipt = [@ EXCEPT ![run[r].index] = content]]
<1>3. run'[r] = rec
  BY <1>1, <1>2
<1>4. /\ rec.imports = run[r].imports /\ rec.index = run[r].index /\ rec.outcome = "damaged"
      /\ rec.receipt = [run[r].receipt EXCEPT ![run[r].index] = content]
      /\ rec.attached = [run[r].attached EXCEPT ![Import(r)] = Len(inodes')]
  BY <1>1 DEF RunOf
<1>5. /\ run[r].receipt \in [DOMAIN run[r].imports -> Contents \union {Other, None}] /\ run[r].index \in DOMAIN run[r].imports
      /\ run[r].attached \in [Contents -> 0..Len(inodes)]
  BY <1>1 DEF RunOf
<1> HIDE DEF rec
<1>6. /\ rec.receipt[run[r].index] = content /\ rec.attached[Import(r)] = Len(inodes')
      /\ \A i \in DOMAIN run[r].imports : i # run[r].index => rec.receipt[i] = run[r].receipt[i]
  BY <1>1, <1>4, <1>5
<1>7. "change" \notin faults' => content = Import(r)
  BY <1>2 DEF Fault
<1>8. Len(inodes') = Len(inodes) + 1 /\ \A n \in {Len(inodes) + 1} : n # 0 /\ Bytes(n)' = content
  BY <1>1, <1>2, NewFileFacts
<1> QED
  BY <1>3, <1>4, <1>6, <1>7, <1>8

LEMMA AttachOnceStep ==
  ASSUME Fixed, NEW r \in Runs, Act(r), Clean'
  PROVE  AttachOnce'
<1> DEFINE Free(q) == \A j \in DOMAIN run[q].imports :
             j > run[q].index \/ (j = run[q].index /\ run[q].step # "seal") => run[q].attached[run[q].imports[j]] = 0
<1>1. TypeOK /\ Started(r) /\ Active(r) /\ Import(r) \in Contents
  BY ActFrame, RunFacts DEF Frame, Active, Fixed, Ownership
<1>2. Free(r)
  BY <1>1 DEF Fixed, Contained, AttachOnce
<1>3. ASSUME NEW step, Go(r, step), run[r].step # "seal" PROVE Free(r)'
  BY <1>1, <1>2, <1>3, Moves DEF Same
<1>4. ASSUME NEW n, Attach(r, n) PROVE Free(r)'
  <2>1. Same(r) /\ run'[r].step = "seal" /\ run'[r].attached = [run[r].attached EXCEPT ![Import(r)] = n]
    BY <1>1, <1>4, Moves
  <2>2. run[r].attached \in [Contents -> 0..Len(inodes)] /\ run[r].index \in Nat
    BY <1>1, RunFacts DEF RunOf
  <2>3. ASSUME NEW j \in DOMAIN run[r].imports, j > run[r].index PROVE run'[r].attached[run[r].imports[j]] = 0
    <3>1. run[r].imports[j] \in Contents /\ run[r].imports[j] # Import(r)
      BY <1>1, <2>2, <2>3, OtherInputs
    <3> QED
      BY <1>2, <2>1, <2>2, <2>3, <3>1
  <2> QED
    BY <2>1, <2>3 DEF Same
<1>5. ASSUME Seal(r), Active(r)' PROVE Free(r)'
  <2>1. run[r].index \in Nat /\ DOMAIN run[r].imports \subseteq Nat
    BY <1>1, RunFacts
  <2>2. run'[r].imports = run[r].imports /\ run'[r].attached = run[r].attached /\ run'[r].index = run[r].index + 1
    BY <1>1, <1>5, Sealed DEF Active
  <2> QED
    BY <1>2, <2>1, <2>2
<1>6. Active(r)' => Free(r)'
  <2>1. End(r, "FAIL") \/ End(r, "dead") \/ Direct(r) => ~Active(r)'
    BY <1>1, Moves, DirectCopied DEF Active
  <2> QED
    BY <1>3, <1>4, <1>5, <2>1
       DEF Act, Step, Look, Copy, RegisterLink, RegisterCopy, CreateObject, RegisterLost, Fill, Verify, MakeReadonly, Hash, Rehash, Exists,
           AttachLink, AttachCopy, AttachAgain, CopyFails, Refused, IOError, Crash, At
<1>7. \A q \in Runs : q # r => (Active(q)' <=> Active(q)) /\ run'[q] = run[q]
  BY <1>1, OthersAt
<1> QED
  BY <1>6, <1>7 DEF AttachOnce, Fixed, Contained

LEMMA EndsAs ==
  ASSUME TypeOK, NEW r \in Runs, Act(r)
  PROVE  Direct(r) \/ Seal(r) \/ run'[r].outcome \in {"running", "FAIL", "dead"}
<1>1. Started(r) /\ run[r].outcome = "running"
  BY ActFrame DEF Frame, Active
<1>2. /\ UNCHANGED run \/ (\E step : Go(r, step)) \/ (\E n : Attach(r, n)) => run'[r].outcome = "running"
      /\ End(r, "FAIL") => run'[r].outcome = "FAIL"
      /\ End(r, "dead") => run'[r].outcome = "dead"
  BY <1>1, Moves
<1> QED
  BY <1>2
     DEF Act, Step, Look, Copy, RegisterLink, RegisterCopy, CreateObject, RegisterLost, Fill, Verify, MakeReadonly, Hash, Rehash, Exists,
         AttachLink, AttachCopy, AttachAgain, CopyFails, Refused, IOError, Crash

LEMMA EvidenceStep ==
  ASSUME Fixed, NEW r \in Runs, Act(r), Clean'
  PROVE  EvidenceKept'
<1>1. TypeOK /\ Started(r) /\ Active(r) /\ run[r].outcome = "running" /\ Import(r) \in Contents /\ Frame(r)
  BY ActFrame, RunFacts DEF Frame, Active, Fixed, Ownership
<1>2. ASSUME NEW i \in DOMAIN run[r].imports, i < run[r].index, run'[r].receipt[i] = run[r].receipt[i]
      PROVE  EvidenceOf(r, i)'
  <2>1. run[r].index \in Nat /\ DOMAIN run[r].imports \subseteq Nat
    BY <1>1, RunFacts
  <2>2. run[r].imports[i] \in Contents /\ run[r].imports[i] # Import(r)
    BY <1>1, <1>2, <2>1, OtherInputs
  <2>3. run'[r].attached[run[r].imports[i]] = run[r].attached[run[r].imports[i]] /\ run'[r].imports = run[r].imports
    BY <1>1, <2>2 DEF Frame
  <2>4. EvidenceOf(r, i)
    BY <1>1, <1>2 DEF Fixed, Contained, EvidenceKept
  <2> QED
    BY <1>1, <1>2, <2>3, <2>4, EvidenceStaysPut
<1>3. ASSUME Seal(r), Bytes(Attached(r)) = Import(r) PROVE \A i \in {run[r].index} : EvidenceOf(r, i)'
  <2>1. /\ run'[r].imports = run[r].imports /\ run'[r].attached = run[r].attached
        /\ run'[r].receipt[run[r].index] = Import(r)
    BY <1>1, <1>3, Sealed
  <2>2. Attached(r) # 0
    BY <1>3 DEF Seal, Fixed, Ownership, SealsAttached
  <2>3. inodes' = inodes
    BY <1>3 DEF Seal
  <2> QED
    BY <1>3, <2>1, <2>2, <2>3 DEF EvidenceOf, Attached, Import, Bytes
<1>4. ASSUME NEW i \in DOMAIN run'[r].imports, i < run'[r].index \/ run'[r].outcome = "PASS" PROVE EvidenceOf(r, i)'
  <2>1. run[r].index \in 1..Len(run[r].imports) /\ DOMAIN run[r].imports = 1..Len(run[r].imports) /\ Len(run[r].imports) \in Nat
    BY <1>1, RunFacts
  <2>2. CASE Same(r) /\ ~Seal(r)
    <3>1. run'[r].outcome # "PASS"
      BY <1>1, <2>2, DirectCopied, EndsAs
    <3> QED
      BY <1>2, <1>4, <2>2, <3>1 DEF Same
  <2>3. CASE Direct(r)
    <3>1. run'[r].imports = run[r].imports /\ run'[r].index = run[r].index /\ run'[r].outcome = "damaged"
      BY <1>1, <2>3, DirectCopied
    <3>2. i \in DOMAIN run[r].imports /\ i < run[r].index
      BY <1>4, <3>1
    <3>3. run'[r].receipt[i] = run[r].receipt[i]
      BY <1>1, <2>1, <2>3, <3>2, DirectCopied
    <3> QED
      BY <1>2, <3>2, <3>3
  <2>4. CASE Seal(r)
    <3>1. i \in DOMAIN run[r].imports /\ i <= run[r].index /\ (i = run[r].index => Bytes(Attached(r)) = Import(r))
      BY <1>1, <1>4, <2>1, <2>4, Sealed
    <3>2. CASE i = run[r].index
      BY <1>3, <2>4, <3>1, <3>2
    <3>3. CASE i # run[r].index
      <4>1. i < run[r].index /\ run'[r].receipt[i] = run[r].receipt[i]
        BY <1>1, <2>1, <2>4, <3>1, <3>3, Sealed
      <4> QED
        BY <1>2, <3>1, <4>1
    <3> QED
      BY <3>2, <3>3
  <2> QED
    BY <1>1, <2>2, <2>3, <2>4, Comes
<1>5. ASSUME NEW q \in Runs, q # r, Started(q)' PROVE run'[q] = run[q] /\ Started(q) /\ \A i \in DOMAIN run[q].imports : EvidenceOf(q, i) => EvidenceOf(q, i)'
  <2>1. run'[q] = run[q] /\ Started(q)
    BY <1>1, <1>5, OthersAt
  <2> QED
    BY <2>1, EvidenceStaysPut
<1> QED
  BY <1>4, <1>5 DEF EvidenceKept, Fixed, Contained

LEMMA ObjectsStep ==
  ASSUME Fixed, NEW r \in Runs, Act(r), Clean'
  PROVE  ObjectsOK'
<1>1. TypeOK /\ Started(r) /\ Active(r) /\ Import(r) \in Contents /\ Frame(r) /\ inodes \in Seq(Files)
  BY ActFrame, RunFacts DEF Frame, Active, Fixed, Ownership, TypeOK
<1>2. NoError' => NoError
  BY <1>1 DEF Frame, NoError
<1>3. ASSUME NEW c \in Contents, object'[c] = object[c], Bytes(object[c]) = c PROVE Bytes(object[c])' = c
  <2>1. object[c] \in 0..Len(inodes) /\ Belongs(object[c], c)
    BY <1>1 DEF TypeOK, Belongs
  <2>2. \A n \in {object[c]} : Bytes(n)' = c
    BY <1>1, <1>3, <2>1, StaysWhole
  <2> QED
    BY <1>3, <2>2 DEF Bytes
<1>4. ASSUME NEW c \in Contents, NEW q \in Runs, q # r, At(q, "fill"), Import(q) = c PROVE BeingFilled(c)'
  BY <1>1, <1>4, OthersAt DEF BeingFilled
<1>5. ASSUME NEW c \in Contents, c # Import(r), object'[c] # 0, NoError' \/ ("crash" \notin faults' /\ ~BeingFilled(c)')
      PROVE  Bytes(object[c])' = c
  <2>1. object'[c] = object[c] /\ "crash" \notin faults' => "crash" \notin faults
    BY <1>1, <1>5 DEF Frame
  <2>2. ~BeingFilled(c)' => ~BeingFilled(c)
    BY <1>4, <1>5 DEF BeingFilled
  <2>3. object[c] # 0 /\ (NoError \/ ("crash" \notin faults /\ ~BeingFilled(c)))
    BY <1>1, <1>2, <1>5, <2>2 DEF Frame
  <2>4. Bytes(object[c]) = c
    BY <2>3 DEF Fixed, Contained, ObjectsOK
  <2> QED
    BY <1>1, <1>3, <1>5, <2>4 DEF Frame
<1>6. ASSUME UNCHANGED object, object'[Import(r)] # 0,
             NEW c \in {Import(r)}, NoError' \/ ("crash" \notin faults' /\ ~BeingFilled(c)')
      PROVE  Bytes(object[c])' = c
  <2>1. CASE NoError' \/ ~BeingFilled(c)
    <3>1. NoError \/ ("crash" \notin faults /\ ~BeingFilled(c))
      BY <1>1, <1>2, <1>6, <2>1 DEF Frame
    <3>2. Bytes(object[c]) = c
      BY <1>1, <1>6, <3>1 DEF Fixed, Contained, ObjectsOK
    <3> QED
      BY <1>1, <1>3, <1>6, <3>2
  <2>2. CASE ~NoError' /\ BeingFilled(c)
    <3>1. At(r, "fill") /\ "crash" \notin faults'
      BY <1>4, <1>6, <2>2, <1>1 DEF BeingFilled
    <3>2. ~Crash(r)
      BY <3>1 DEF Crash, Fault
    <3>3. SetObject(r, 0) => object'[Import(r)] = 0
      BY <1>1 DEF SetObject, TypeOK
    <3>4. Fill(r)
      BY <1>6, <3>1, <3>2, <3>3
         DEF Act, Step, Look, Copy, RegisterLink, RegisterCopy, RegisterLost, Verify, MakeReadonly, Hash, Rehash, Exists,
             Direct, AttachLink, AttachCopy, AttachAgain, Seal, CopyFails, Refused, IOError, At
    <3>5. Bytes(Temporary(r)) = Import(r) /\ object[c] # 0 /\ object[c] \in 0..Len(inodes) /\ c \in Contents
      BY <1>1, <1>6, <3>1 DEF Fixed, Contained, TemporaryIsCopy, Registering, TypeOK
    <3>6. inodes' = [inodes EXCEPT ![object[c]].bytes = c]
      BY <1>6, <3>4, <3>5 DEF Fill, Stored
    <3>7. \A n \in {object[c]} : Bytes(n)' = c
      BY <1>1, <3>5, <3>6, RewriteFacts
    <3> QED
      BY <1>6, <3>7 DEF Bytes
  <2> QED
    BY <2>1, <2>2
<1>7. ASSUME RegisterLink(r), NEW c \in {Import(r)} PROVE Bytes(object[c])' = c
  <2>1. object'[Import(r)] = Temporary(r)
    BY <1>1, <1>7 DEF RegisterLink, SetObject, TypeOK
  <2>2. Bytes(Temporary(r)) = Import(r) /\ Temporary(r) \in 0..Len(inodes) /\ run[r].pid \in Pids
    BY <1>1, <1>7, RunFacts DEF RegisterLink, Fixed, Contained, TemporaryIsCopy, Registering
  <2>3. Belongs(Temporary(r), Import(r))
    BY <2>2 DEF Belongs, Temporary
  <2>4. \A n \in {Temporary(r)} : Bytes(n)' = Import(r)
    BY <1>1, <2>2, <2>3, StaysWhole
  <2> QED
    BY <1>7, <2>1, <2>4 DEF Bytes
<1>8. ASSUME RegisterCopy(r), NEW c \in {Import(r)} PROVE ~NoError' /\ BeingFilled(c)'
  <2>1. Go(r, "fill") /\ run[r].outcome = "running" /\ links' = links /\ (links => "error" \in faults')
    BY <1>8 DEF RegisterCopy, CreateObject, LinkRefused, Fault, At, Active, machine
  <2>2. run'[r].step = "fill" /\ run'[r].outcome = "running" /\ Import(r)' = Import(r)
    BY <1>1, <2>1, Moves, SameImport
  <2>3. run'[r] # None
    BY <1>1, RunsStep DEF RunsGoOn, Fixed, Ownership
  <2> QED
    BY <1>8, <2>1, <2>2, <2>3 DEF NoError, BeingFilled, At, Active, Started
<1>9. ASSUME NEW c \in {Import(r)}, object'[c] # 0, NoError' \/ ("crash" \notin faults' /\ ~BeingFilled(c)')
      PROVE  Bytes(object[c])' = c
  <2>1. CASE UNCHANGED object
    BY <1>6, <1>9, <2>1
  <2>2. CASE RegisterLink(r)
    BY <1>7, <1>9, <2>2
  <2>3. CASE RegisterCopy(r)
    BY <1>8, <1>9, <2>3
  <2> QED
    BY <1>9, <2>1, <2>2, <2>3, ObjectMoves DEF Fixed
<1> QED
  BY <1>5, <1>9 DEF ObjectsOK

LEMMA LinksStep ==
  ASSUME Fixed, NEW r \in Runs, Act(r), Clean'
  PROVE  LinksSuffice'
<1>1. TypeOK /\ Started(r) /\ Active(r) /\ run[r].outcome = "running" /\ Import(r) \in Contents /\ Frame(r)
  BY ActFrame, RunFacts DEF Frame, Active, Fixed, Ownership
<1> SUFFICES ASSUME NoError'
             PROVE  \A q \in Runs : /\ (Started(q) => run[q].outcome # "damaged")'
                                    /\ (Active(q) => run[q].step \notin {"fill", "verify", "exists", "direct"})'
                                    /\ (At(q, "rehash") => Stored(q) # 0)'
  BY DEF LinksSuffice
<1>2. NoError
  BY <1>1 DEF Frame, NoError
<1>3. \A q \in Runs : /\ Started(q) => run[q].outcome # "damaged"
                      /\ Active(q) => run[q].step \notin {"fill", "verify", "exists", "direct"}
                      /\ At(q, "rehash") => Stored(q) # 0
  BY <1>2 DEF Fixed, Contained, LinksSuffice
<1>4. ~At(r, "fill") /\ ~At(r, "verify") /\ ~At(r, "exists") /\ ~At(r, "direct")
  BY <1>1, <1>3 DEF At
<1>5. ~IOError(r) /\ ~RegisterCopy(r)
  BY <1>2 DEF IOError, RegisterCopy, LinkRefused, Fault, NoError
<1>6. ~Fill(r) /\ ~Verify(r) /\ ~Exists(r) /\ ~Direct(r)
  BY <1>4 DEF Fill, Verify, Exists, Direct
<1>7. Stored(r) # 0 => Bytes(Stored(r)) = Import(r)
  BY <1>1, <1>2 DEF Fixed, Contained, ObjectsOK, Stored
<1>8. run'[r].outcome # "damaged"
  BY <1>1, <1>6, Sealed, EndsAs
<1>9. ~At(r, "exists")' /\ ~At(r, "direct")' /\ ~At(r, "fill")' /\ ~At(r, "verify")'
  <2>1. Rehash(r) => run'[r].step = "attach"
    BY <1>1, <1>3, <1>7, Moves DEF Rehash
  <2>2. Hash(r) => run'[r].step = "attach"
    BY <1>1, <1>7, Moves DEF Hash
  <2> QED
    BY <1>1, <1>5, <1>6, <2>1, <2>2, Comes DEF At
<1>10. UNCHANGED object \/ Stored(r) = 0
  BY <1>4, ObjectMoves DEF Filler, Fixed
<1>11. At(r, "rehash")' => Stored(r)' # 0
  <2>1. RegisterLost(r) => Stored(r) # 0 /\ object' = object /\ Same(r)
    BY <1>1, Moves DEF RegisterLost
  <2> QED
    BY <1>1, <2>1, Comes, SameImport DEF Stored
<1>12. ASSUME NEW q \in Runs, q # r PROVE At(q, "rehash")' => Stored(q)' # 0
  <2>1. (At(q, "rehash")' <=> At(q, "rehash")) /\ Import(q)' = Import(q)
    BY <1>1, <1>12, OthersAt
  <2>2. At(q, "rehash") => Stored(q) # 0 /\ Import(q) \in Contents
    BY <1>1, <1>3, RunFacts DEF At, Active
  <2>3. CASE Import(q) # Import(r)
    BY <1>1, <2>1, <2>2, <2>3 DEF Frame, Stored
  <2>4. CASE Import(q) = Import(r)
    BY <1>10, <2>1, <2>2, <2>4 DEF Stored
  <2> QED
    BY <2>3, <2>4
<1>13. \A q \in Runs : q # r => (Started(q)' <=> Started(q)) /\ (Active(q)' <=> Active(q)) /\ run'[q] = run[q]
  BY <1>1, OthersAt
<1> QED
  BY <1>3, <1>8, <1>9, <1>11, <1>12, <1>13 DEF At

-----------------------------------------------------------------------------
(* No step of any run makes the copy of a refused run another's.           *)
LEMMA ElsewhereStep ==
  ASSUME Ownership, NEW q \in Runs, Act(q), NEW r \in Runs, NEW n \in 1..Len(inodes), Elsewhere(n, r)'
  PROVE  Elsewhere(n, r)
<1>1. /\ TypeOK /\ Started(q) /\ Import(q) \in Contents /\ <<run[q].pid, Import(q)>> \in Pids \X Contents
      /\ n # 0 /\ n # Len(inodes) + 1 /\ Frame(q)
  BY ActFrame, RunFacts DEF Frame, Active, Ownership, TypeOK
<1>2. ASSUME NEW c \in Contents, object'[c] = n PROVE Elsewhere(n, r)
  <2>1. object[c] = n \/ Temporary(q) = n
    <3>1. CASE c # Import(q)
      BY <1>1, <1>2, <3>1 DEF Frame
    <3>2. CASE c = Import(q)
      BY <1>1, <1>2, <3>2, ObjectMoves
    <3> QED
      BY <3>1, <3>2
  <2> QED
    BY <1>1, <2>1 DEF Elsewhere, Temporary
<1>3. ASSUME NEW x \in Pids \X Contents, temporary'[x] = n PROVE Elsewhere(n, r)
  <2>1. temporary[x] = n
    <3>1. CASE x # <<run[q].pid, Import(q)>>
      BY <1>1, <1>3, <3>1 DEF Frame
    <3>2. CASE x = <<run[q].pid, Import(q)>>
      BY <1>1, <1>3, <3>2, TemporaryMoves
    <3> QED
      BY <3>1, <3>2
  <2> QED
    BY <2>1 DEF Elsewhere
<1>4. ASSUME NEW p \in Runs, NEW c \in Contents, p # r, Started(p)', run'[p].attached[c] = n
      PROVE  Elsewhere(n, r)
  <2>1. CASE p # q
    <3>1. Started(p) /\ run[p].attached[c] = n
      BY <1>1, <1>4, <2>1, OthersAt
    <3> QED
      BY <1>4, <3>1 DEF Elsewhere
  <2>2. CASE p = q
    <3>1. run[q].attached \in [Contents -> 0..Len(inodes)]
      BY <1>1, RunFacts DEF RunOf
    <3>2. run[q].attached[c] = n \/ Stored(q) = n \/ Attached(q) = n
      BY <1>1, <1>4, <2>2, <3>1, AttachedMoves
    <3>3. Stored(q) = n => Elsewhere(n, r)
      BY <1>1 DEF Elsewhere, Stored
    <3>4. run[q].attached[c] = n \/ Attached(q) = n => Elsewhere(n, r)
      BY <1>1, <1>4, <2>2 DEF Elsewhere, Attached
    <3> QED
      BY <3>2, <3>3, <3>4
  <2> QED
    BY <2>1, <2>2
<1> QED
  BY <1>2, <1>3, <1>4 DEF Elsewhere

LEMMA AloneStays ==
  ASSUME Ownership, RefusedAlone, [Next]_vars, NEW r \in Runs, Started(r), run[r].outcome = "damaged", run'[r] = run[r]
  PROVE  Attached(r)' = Attached(r) /\ (EvidenceOf(r, run[r].index) => EvidenceOf(r, run[r].index)')
<1> DEFINE n == Attached(r)
<1>1. Attached(r)' = Attached(r)
  BY DEF Attached, Import
<1>2. TypeOK /\ TemporariesThere /\ n \in 1..Len(inodes) /\ ~Elsewhere(n, r)
  <2>1. n \in 0..Len(inodes) /\ n # 0 /\ ~Elsewhere(n, r) /\ TypeOK
    BY RunFacts DEF Ownership, RefusedAlone
  <2> QED
    BY <2>1 DEF Ownership
<1>3. ~Written(n)
  <2>1. ASSUME NEW q \in Runs, At(q, "fill") PROVE n # Stored(q)
    BY <1>2, <2>1, RunFacts DEF At, Active, Elsewhere, Stored
  <2>2. ASSUME NEW q \in Runs, At(q, "attach") PROVE n # Attached(q)
    <3>1. q # r /\ Started(q) /\ Import(q) \in Contents
      BY <1>2, <2>2, RunFacts DEF At, Active
    <3> QED
      BY <1>2, <3>1 DEF Elsewhere, Attached
  <2>3. ASSUME NEW c \in Contents PROVE n # object[c]
    BY <1>2 DEF Elsewhere
  <2> QED
    BY <2>1, <2>2, <2>3 DEF Written
<1>4. Bytes(n)' = Bytes(n)
  <2>1. \A m \in {n} : Bytes(m)' = Bytes(m)
    BY <1>2, <1>3, FilesStep
  <2> QED
    BY <1>1, <2>1 DEF Bytes
<1> QED
  BY <1>1, <1>4 DEF EvidenceOf, Attached, Import, Bytes

LEMMA RefusedStep == Ownership /\ RefusedAlone /\ [Next]_vars => RefusedAlone'
<1> SUFFICES ASSUME Ownership, RefusedAlone, [Next]_vars PROVE RefusedAlone'
  OBVIOUS
<1> DEFINE Alone(r) == /\ Attached(r) # 0 /\ ~Elsewhere(Attached(r), r)
                       /\ "change" \notin faults => EvidenceOf(r, run[r].index)
<1>1. TypeOK
  BY DEF Ownership
<1>2. ASSUME NEW r \in Runs, Started(r), run[r].outcome = "damaged", run'[r] = run[r], faults \subseteq faults',
             \A n \in 1..Len(inodes) : Elsewhere(n, r)' => Elsewhere(n, r)
      PROVE  Alone(r)'
  <2>1. Alone(r)
    BY <1>2 DEF RefusedAlone
  <2>2. Attached(r)' = Attached(r) /\ (EvidenceOf(r, run[r].index) => EvidenceOf(r, run[r].index)')
    BY <1>2, AloneStays
  <2>3. Attached(r) \in 1..Len(inodes)
    <3>1. Attached(r) \in 0..Len(inodes)
      BY <1>1, <1>2, RunFacts
    <3> QED
      BY <2>1, <3>1
  <2>4. ~Elsewhere(Attached(r), r)'
    <3>1. \A n \in {Attached(r)} : ~Elsewhere(n, r)'
      BY <1>2, <2>1, <2>3
    <3> QED
      BY <2>2, <3>1 DEF Elsewhere
  <2> QED
    BY <1>2, <2>1, <2>2, <2>4
<1>3. ASSUME NEW q \in Runs, Act(q), NEW r \in Runs, Started(r)', run'[r].outcome = "damaged" PROVE Alone(r)'
  <2>1. Frame(q) /\ Started(q) /\ Import(q) \in Contents /\ inodes \in Seq(Files)
    BY <1>1, <1>3, ActFrame, RunFacts DEF Frame, Active, TypeOK
  <2>2. CASE q # r
    <3>1. Started(r) /\ run'[r] = run[r]
      BY <1>1, <1>3, <2>2, OthersAt
    <3>2. run[r].outcome = "damaged" /\ faults \subseteq faults'
      BY <1>3, <2>1, <3>1 DEF Frame
    <3> QED
      BY <1>2, <1>3, <3>1, <3>2, ElsewhereStep
  <2>3. CASE q = r
    <3>1. Direct(r)
      BY <1>1, <1>3, <2>1, <2>3, EndsAs, Sealed
    <3>2. /\ run'[r].imports = run[r].imports /\ run'[r].index = run[r].index
          /\ "change" \notin faults' => run'[r].receipt[run[r].index] = Import(r)
          /\ "change" \notin faults' => \A n \in {run'[r].attached[Import(r)]} : n # 0 /\ Bytes(n)' = Import(r)
      BY <1>1, <2>1, <2>3, <3>1, DirectCopied
    <3>3. run'[r].attached[Import(r)] = Len(inodes) + 1
      BY <1>1, <2>1, <2>3, <3>1, AttachedNew
    <3>4. Attached(r)' = Len(inodes) + 1
      BY <3>2, <3>3 DEF Attached, Import
    <3>5. "change" \notin faults' => EvidenceOf(r, run[r].index)'
      BY <3>2 DEF EvidenceOf, Import, Bytes
    <3>6. \A n \in {Len(inodes) + 1} : n # 0 /\ ~Elsewhere(n, r)'
      <4>1. \A m \in 0..Len(inodes) : m # Len(inodes) + 1
        BY <2>1
      <4>2. object' = object /\ temporary' = temporary
        BY <3>1 DEF Direct
      <4>3. /\ \A c \in Contents : object[c] \in 0..Len(inodes)
            /\ \A x \in Pids \X Contents : temporary[x] \in 0..Len(inodes)
            /\ \A p \in Runs, c \in Contents : Started(p) => run[p].attached[c] \in 0..Len(inodes)
        BY <1>1 DEF TypeOK, RunOf
      <4>4. \A p \in Runs : p # r => run'[p] = run[p] /\ (Started(p)' <=> Started(p))
        BY <1>1, <1>3, <2>3, OthersAt
      <4>5. Len(inodes) + 1 # 0
        BY <2>1
      <4> QED
        BY <4>1, <4>2, <4>3, <4>4, <4>5 DEF Elsewhere
    <3>7. ~Elsewhere(Attached(r), r)'
      BY <3>4, <3>6 DEF Elsewhere
    <3> QED
      BY <3>4, <3>5, <3>6, <3>7
  <2> QED
    BY <2>2, <2>3
<1>4. ASSUME NEW q \in Runs, NEW pid \in Pids, NEW imports \in ImportLists, Start(q, pid, imports),
             NEW r \in Runs, Started(r)', run'[r].outcome = "damaged"
      PROVE  Alone(r)'
  <2>1. /\ run'[q].outcome = "running" /\ run'[q].attached = [c \in Contents |-> 0]
        /\ \A p \in Runs : p # q => run'[p] = run[p]
        /\ inodes' = inodes /\ object' = object /\ temporary' = temporary /\ faults' = faults
    BY <1>1, <1>4 DEF Start, TypeOK
  <2>2. q # r /\ Started(r) /\ run'[r] = run[r] /\ run[r].outcome = "damaged"
    BY <1>4, <2>1 DEF Started
  <2>3. ASSUME NEW n \in 1..Len(inodes), Elsewhere(n, r)' PROVE Elsewhere(n, r)
    <3>1. n # 0
      OBVIOUS
    <3>2. ASSUME NEW p \in Runs, NEW c \in Contents, p # r, Started(p)', run'[p].attached[c] = n PROVE Elsewhere(n, r)
      <4>1. p # q
        BY <2>1, <3>1, <3>2
      <4> QED
        BY <2>1, <3>2, <4>1 DEF Elsewhere, Started
    <3> QED
      BY <2>1, <2>3, <3>2 DEF Elsewhere
  <2> QED
    BY <1>2, <2>1, <2>2, <2>3
<1>5. ASSUME UNCHANGED <<object, temporary, run>>, faults \subseteq faults', NEW r \in Runs, Started(r)', run'[r].outcome = "damaged"
      PROVE  Alone(r)'
  <2>1. Started(r) /\ run'[r] = run[r] /\ run[r].outcome = "damaged"
    BY <1>5 DEF Started
  <2>2. \A n \in 1..Len(inodes) : Elsewhere(n, r)' => Elsewhere(n, r)
    BY <1>5 DEF Elsewhere, Started
  <2> QED
    BY <1>2, <1>5, <2>1, <2>2
<1>6. ASSUME NEW r \in Runs, Started(r)', run'[r].outcome = "damaged" PROVE Alone(r)'
  BY <1>3, <1>4, <1>5, <1>6, NextCases DEF Acting, Starting, Damage, Fault, vars
<1> QED
  BY <1>6 DEF RefusedAlone

-----------------------------------------------------------------------------
(* The invariant holds at the start and is kept.                           *)
LEMMA InitIInv == Init => IInv
<1> SUFFICES ASSUME Init PROVE IInv
  OBVIOUS
<1>1. /\ \A r \in Runs : ~Started(r) /\ ~Active(r) /\ \A step : ~At(r, step)
      /\ inodes = << >> /\ Len(inodes) = 0 /\ \A c \in Contents : object[c] = 0
  BY DEF Init, Started, Active, At
<1>2. TypeOK
  <2>1. inodes \in Seq(Files) /\ 0 \in 0..Len(inodes)
    BY <1>1
  <2> QED
    BY <1>1, <2>1 DEF Init, TypeOK
<1>3. Ownership
  <2>1. PidsApart /\ TemporariesThere /\ TemporaryFree /\ FillersApart /\ FillersHaveObject /\ SealsAttached
    BY <1>1 DEF PidsApart, TemporariesThere, TemporaryFree, FillersApart, FillersHaveObject, SealsAttached, Registering, Filler
  <2>2. OneContent
    BY <1>1 DEF OneContent
  <2> QED
    BY <1>2, <2>1, <2>2 DEF Ownership
<1>4. RefusedAlone
  BY <1>1 DEF RefusedAlone
<1>5. Contained
  <2>1. TemporaryIsCopy /\ VerifiesWhole /\ LinksSuffice
    BY <1>1 DEF TemporaryIsCopy, VerifiesWhole, Registering, LinksSuffice
  <2>2. AttachOnce /\ EvidenceKept /\ ObjectsOK
    BY <1>1 DEF AttachOnce, EvidenceKept, ObjectsOK
  <2> QED
    BY <2>1, <2>2 DEF Contained
<1> QED
  BY <1>3, <1>4, <1>5 DEF IInv

LEMMA ContainedStep == IInv /\ [Next]_vars => (Clean => Contained)'
<1> SUFFICES ASSUME IInv, [Next]_vars, Clean' PROVE Contained'
  OBVIOUS
<1>1. Ownership /\ TypeOK /\ TemporariesThere
  BY DEF IInv, Ownership
<1>2. ASSUME NEW r \in Runs, Act(r) PROVE Contained'
  <2>1. Fixed
    BY <1>1, <1>2, CleanBefore DEF IInv, Fixed
  <2> QED
    BY <1>2, <2>1, CopiesStep, VerifiesStep, AttachOnceStep, EvidenceStep, ObjectsStep, LinksStep DEF Contained
<1>3. ASSUME UNCHANGED <<links, inodes, object, temporary, faults>>, NEW r, run' = run \/ (r \in Runs /\ ~Started(r)),
             \A q \in Runs : q # r => run'[q] = run[q],
             run' # run => /\ run'[r].index = 1 /\ run'[r].step = "look" /\ run'[r].outcome = "running"
                           /\ \A c \in Contents : run'[r].attached[c] = 0
                           /\ run'[r].imports \in Seq(Contents)
      PROVE  Contained'
  <2>1. ASSUME NEW q \in Runs, q # r \/ run' = run
        PROVE  /\ run'[q] = run[q] /\ (Started(q)' <=> Started(q)) /\ (Active(q)' <=> Active(q)) /\ \A step : At(q, step)' <=> At(q, step)
               /\ Import(q)' = Import(q) /\ Bytes(Stored(q))' = Bytes(Stored(q)) /\ Bytes(Temporary(q))' = Bytes(Temporary(q))
               /\ Stored(q)' = Stored(q) /\ (Registering(q)' <=> Registering(q))
               /\ \A i : EvidenceOf(q, i)' <=> EvidenceOf(q, i)
    BY <1>3, <2>1 DEF Started, Active, At, Import, Stored, Temporary, Bytes, Registering, EvidenceOf
  <2>2. ASSUME run' # run
        PROVE  ~Started(r) /\ \A step \in {"register", "fill", "verify", "rehash"} : ~At(r, step)' /\ ~At(r, step)
    BY <1>3, <2>2 DEF At, Active
  <2>3. Contained
    <3>1. ASSUME NEW q \in Runs, Started(q) PROVE Started(q)' /\ run'[q] = run[q]
      BY <1>3, <2>1, <3>1
    <3>2. Clean
      BY <1>3, <3>1 DEF Clean, DistinctInputs
    <3> QED
      BY <3>2 DEF IInv
  <2>4. TemporaryIsCopy'
    BY <2>1, <2>2, <2>3 DEF Contained, TemporaryIsCopy, Registering
  <2>5. VerifiesWhole'
    BY <2>1, <2>2, <2>3 DEF Contained, VerifiesWhole
  <2>6. AttachOnce'
    <3>1. ASSUME run' # run, NEW j \in DOMAIN run'[r].imports PROVE run'[r].attached[run'[r].imports[j]] = 0
      BY <1>3, <3>1
    <3> QED
      BY <2>1, <2>3, <3>1 DEF Contained, AttachOnce
  <2>7. EvidenceKept'
    <3>1. ASSUME run' # run, NEW i \in DOMAIN run'[r].imports PROVE ~(i < run'[r].index) /\ run'[r].outcome # "PASS"
      BY <1>3, <3>1
    <3> QED
      BY <2>1, <2>3, <3>1 DEF Contained, EvidenceKept
  <2>8. ObjectsOK'
    <3>1. \A c \in Contents : BeingFilled(c) => BeingFilled(c)'
      BY <2>1, <2>2 DEF BeingFilled
    <3>2. (NoError' <=> NoError) /\ \A c \in Contents : object'[c] = object[c] /\ Bytes(object[c])' = Bytes(object[c])
      BY <1>3 DEF NoError, Bytes
    <3> QED
      BY <1>3, <2>3, <3>1, <3>2 DEF Contained, ObjectsOK
  <2>9. LinksSuffice'
    <3>1. NoError' <=> NoError
      BY <1>3 DEF NoError
    <3>2. run' # run => run'[r].outcome # "damaged" /\ run'[r].step \notin {"fill", "verify", "exists", "direct"}
      BY <1>3
    <3> QED
      BY <2>1, <2>2, <2>3, <3>1, <3>2 DEF Contained, LinksSuffice
  <2> QED
    BY <2>4, <2>5, <2>6, <2>7, <2>8, <2>9 DEF Contained
<1>4. ASSUME NEW r \in Runs, NEW pid \in Pids, NEW imports \in ImportLists, Start(r, pid, imports) PROVE Contained'
  <2>1. imports \in Seq(Contents)
    BY EvidenceConstants
  <2>2. /\ run'[r].index = 1 /\ run'[r].step = "look" /\ run'[r].outcome = "running"
        /\ run'[r].attached = [c \in Contents |-> 0] /\ run'[r].imports = imports
        /\ \A q \in Runs : q # r => run'[q] = run[q]
    BY <1>1, <1>4 DEF Start, TypeOK
  <2>3. ~Started(r) /\ UNCHANGED <<links, inodes, object, temporary, faults>>
    BY <1>4 DEF Start, machine
  <2> QED
    BY <1>3, <2>1, <2>2, <2>3
<1>5. CASE UNCHANGED vars
  <2>1. UNCHANGED <<links, inodes, object, temporary, faults>> /\ run' = run
    BY <1>5 DEF vars
  <2> QED
    BY <1>3, <2>1
<1>6. \A c \in Contents : ~Damage(c)
  BY DEF Damage, Fault, Clean
<1> QED
  BY <1>2, <1>4, <1>5, <1>6, NextCases DEF Acting, Starting

LEMMA Inductive == Spec => []IInv
<1>1. IInv /\ [Next]_vars => IInv'
  BY OwnershipStep, RefusedStep, ContainedStep DEF IInv
<1> QED
  BY <1>1, InitIInv, PTL DEF Spec

-----------------------------------------------------------------------------
(* Every variable of the store stays in its domain, however many runs race. *)
THEOREM TypeCorrect == Spec => []TypeOK
<1>1. IInv => TypeOK
  BY DEF IInv, Ownership
<1> QED
  BY <1>1, Inductive, PTL

(* The evidence of a run that passed is not changed by any other run, nor  *)
(* by an error or a crash, although the run directories share files with   *)
(* the store (preserve_data_evidence, attach_evidence_object).             *)
THEOREM EvidenceStays == Spec => []PassedEvidenceKept
<1>1. IInv => PassedEvidenceKept
  BY DEF IInv, Clean, Contained, EvidenceKept, PassedEvidenceKept
<1> QED
  BY <1>1, Inductive, PTL

(* An object appears under its name whole where there are links; filled    *)
(* under its name, it is whole once nobody fills it, unless a process died *)
(* (register_evidence_object).                                             *)
THEOREM ObjectsAppearWhole == Spec => []ObjectsWhole
<1>1. ASSUME IInv PROVE ObjectsWhole
  <2>1. ASSUME NEW c \in Contents, BeingFilled(c) PROVE Filling(c)
    BY <2>1 DEF BeingFilled, Filling
  <2> QED
    BY <1>1, <2>1 DEF IInv, Clean, Contained, ObjectsOK, NoError, ObjectsWhole
<1> QED
  BY <1>1, Inductive, PTL

(* Only a damaged object makes a run refuse its input: where there are     *)
(* links, none is refused when nothing was damaged and no call failed; a   *)
(* refused run has its own copy of the input and keeps it; and create_new  *)
(* of a temporary never meets a file of an earlier process with the same   *)
(* pid (preserve_data_evidence, preserve_direct_import).                   *)
THEOREM RefusalsMeanDamage == Spec => []OnlyDamageRefuses
<1>1. IInv => NoFalseDamage
  BY DEF IInv, Clean, Contained, LinksSuffice, NoError, NoFalseDamage
<1>2. IInv => RefusedInputPreserved
  BY DEF IInv, RefusedAlone, RefusedInputPreserved
<1>3. IInv => TemporaryFree
  BY DEF IInv, Ownership
<1>4. IInv => OnlyDamageRefuses
  BY <1>1, <1>2, <1>3 DEF OnlyDamageRefuses
<1> QED
  BY <1>4, Inductive, PTL

-----------------------------------------------------------------------------
(* What a reader keeps, what is being read, and a copy in the evidence.    *)
Readers(n) == [digest : Versions \X Versions, mode : D!Modes, inode : 1..n, head : Versions, access : Nat]
Reads(n) == [kind : D!Kinds, mode : D!Modes, path : Paths, inode : 1..n, blocks : Seq(Versions), cached : BOOLEAN]
Copying(n) ==
  [kind : D!Kinds, mode : D!Modes, path : Paths, inode : 1..n, blocks : Seq(Versions), cached : {FALSE}, for : D!Kinds \X Paths]
Inputs == D!Kinds \X Paths
Reading == outcome = "running" /\ call # None
Preserving == outcome = "preserving" /\ call # None

Typed ==
  /\ bytes \in Seq(Versions) /\ file \in [Paths -> 1..Len(bytes)] /\ edits \in Nat
  /\ reader \in [Inputs -> Readers(Len(bytes)) \union {None}]
  /\ \A s \in seen : s[1] \in Paths /\ s[2] \in D!Kinds
  /\ evidence \in [Inputs -> D!Copies \union {None}]
  /\ outcome \in {"running", "error", "preserving", "PASS", "FAIL"}
  /\ Reading => call \in Reads(Len(bytes))
  /\ Preserving => call \in Copying(Len(bytes))
  /\ call # None => Reading \/ Preserving
  /\ outcome \in {"running", "error"} => \A x \in Inputs : evidence[x] = None
Apart == \A p, q \in Paths : file[p] = file[q] => p = q

(* A call that reads was allowed to, and a reader keeps to what it read.   *)
Free(k, mode, p) ==
  /\ k \in {"fits", "table", "scan"} => ~D!Has("batch", p) /\ ~D!Has("scientific", p)
  /\ k = "table" /\ D!Has("scan", p) => reader[<<"scan", p>>].mode = mode
  /\ k = "scan" => \A j \in {"table", "scan"} : D!Has(j, p) => reader[<<j, p>>].mode = mode
  /\ k \in {"batch", "scientific"} => \A j \in D!Kinds \ {"scientific"} : ~D!Has(j, p)
  /\ k = "batch" => ~D!Has("scientific", p)
Allowed == Reading => /\ Free(call.kind, call.mode, call.path)
                      /\ call.cached <=> D!Has(call.kind, call.path) /\ call.kind # "scan"
Held == \A s \in seen : D!Has(s[2], s[1]) /\ (s[2] # "fits" => reader[<<s[2], s[1]>>].digest[s[3]] = s[4])

(* The evidence is what was read.                                          *)
Copied ==
  /\ \A x \in Inputs : evidence[x] # None /\ outcome # "FAIL" => evidence[x].blocks = reader[x].digest
  /\ outcome = "PASS" => \A x \in D!Imports : evidence[x] # None
  /\ Preserving => /\ call.for \in D!Imports /\ D!Has(call.kind, call.path)
                   /\ call.inode = reader[<<call.kind, call.path>>].inode

(* The data of a FITS file after its hash, by the number of changes.       *)
Data(p) == reader[<<"fits", p>>].digest[2]
Now(p) == bytes[reader[<<"fits", p>>].inode]
DataSeen == {s \in seen : s[2] = "fits" /\ s[3] = 2}
Undone(p) == \A s \in DataSeen : s[1] = p /\ s[4] # Data(p) => edits >= 2
FitsData ==
  /\ Reading /\ call.kind = "fits" /\ Len(call.blocks) = 3 => (bytes[call.inode] # call.blocks[3] => edits >= 1)
  /\ \A p \in Paths : D!Has("fits", p) /\ Now(p) # Data(p) => edits >= 1
  /\ \A s \in DataSeen : s[4] # Data(s[1]) => edits >= 1 /\ (Now(s[1]) = Data(s[1]) => edits >= 2)
  /\ Preserving /\ call.kind = "fits" /\ call.for = <<"fits", call.path>> /\ Len(call.blocks) = 2
       => (call.blocks[2] = Data(call.path) => Undone(call.path))
  /\ \A p \in Paths : evidence[<<"fits", p>>] # None /\ evidence[<<"fits", p>>].from = <<"fits", p>> /\ outcome # "FAIL" => Undone(p)

(* The blocks of a batch snapshot, by the number of changes.               *)
BatchRead(c) ==
  LET b == c.blocks
      current == bytes[file[c.path]]
      own == bytes[c.inode]
  IN /\ Len(b) <= 4
     /\ Len(b) = 0 \/ Len(b) = 1 => c.inode = file[c.path] \/ \A p \in Paths : file[p] # c.inode
     /\ Len(b) = 1 /\ own # b[1] => edits >= 1 /\ (current = b[1] => edits >= 2)
     /\ Len(b) = 2 /\ b[2] # b[1] => edits >= 1 /\ (current = b[1] => edits >= 2)
     /\ Len(b) = 3 /\ b[2] # b[1] /\ b[3] = b[1] => edits >= 2 /\ (own # b[3] => edits >= 3)
     /\ Len(b) = 4 /\ b[2] # b[1] /\ b[3] = b[1] /\ b[4] = b[2] => edits >= 3
Snapshots ==
  /\ Reading /\ call.kind = "batch" => BatchRead(call)
  /\ \A p \in Paths : D!Has("batch", p) /\ reader[<<"batch", p>>].digest[1] # reader[<<"batch", p>>].digest[2] => edits >= 3

ReadersInv == Typed /\ Apart /\ Allowed /\ D!OneReading /\ Held /\ Copied /\ FitsData /\ Snapshots

-----------------------------------------------------------------------------
LEMMA Constants ==
  /\ D!Cardinality(Paths) \in Nat /\ None \notin D!Opens /\ None \notin D!Copies
  /\ \A n \in Nat : None \notin Readers(n)
PROOF
<1>1. D!Cardinality(Paths) \in Nat /\ None \notin D!Opens /\ None \notin D!Copies
  BY ReadersConstants DEF D!DataConstants
<1>2. ASSUME NEW n \in Nat, NEW r \in Readers(n) PROVE r \in D!Opens
  <2>1. r.inode \in Nat
    BY DEF Readers
  <2>2. QED
    BY <2>1 DEF Readers, D!Opens
<1>3. QED
  BY <1>1, <1>2

(* What a reader has, if it is one.                                        *)
LEMMA ReaderFacts ==
  ASSUME Typed, NEW k \in D!Kinds, NEW p \in Paths
  PROVE  /\ <<k, p>> \in Inputs /\ Len(bytes) \in Nat
         /\ D!Has(k, p) <=> reader[<<k, p>>] \in Readers(Len(bytes))
         /\ D!Has(k, p) <=> reader[<<k, p>>] # None
PROOF
<1>1. <<k, p>> \in Inputs /\ Len(bytes) \in Nat
  BY DEF Inputs, Typed
<1>2. reader[<<k, p>>] \in Readers(Len(bytes)) \union {None}
  BY <1>1 DEF Typed
<1>3. QED
  BY <1>1, <1>2, Constants DEF D!Has

(* Nothing is being read and the program goes on or has failed.            *)
LEMMA Stops ==
  ASSUME ReadersInv, UNCHANGED <<file, bytes, edits, reader, seen, evidence>>,
         call' = None, outcome = "running", outcome' \in {"running", "error"}
  PROVE  ReadersInv'
PROOF
<1>1. Typed'
  BY DEF ReadersInv, Typed, Reading, Preserving
<1>2. Apart' /\ Allowed'
  BY DEF ReadersInv, Apart, Allowed, Reading
<1>3. D!OneReading'
  BY DEF ReadersInv, D!OneReading, D!Has
<1>4. Held'
  BY DEF ReadersInv, Held, D!Has
<1>5. Copied'
  BY DEF ReadersInv, Copied, Preserving
<1>6. FitsData'
  BY DEF ReadersInv, FitsData, Reading, Preserving, Undone, Data, Now, DataSeen, D!Has
<1>7. Snapshots'
  BY DEF ReadersInv, Snapshots, Reading, D!Has
<1>8. QED
  BY <1>1, <1>2, <1>3, <1>4, <1>5, <1>6, <1>7 DEF ReadersInv

LEMMA NameStep ==
  ASSUME ReadersInv, (\E name \in {"table", "figure.plot.json"} : D!AddOutput(name)) \/ D!Plot \/ D!OpenStream("table")
  PROVE  ReadersInv'
PROOF
<1>1. /\ UNCHANGED <<file, bytes, edits, reader, seen, evidence>> /\ outcome = "running" /\ call = None
      /\ call' = None /\ outcome' \in {"running", "error"}
  BY DEF D!AddOutput, D!Plot, D!OpenStream, D!Idle, D!Fail, D!world
<1>2. QED
  BY <1>1, Stops

LEMMA CallStep ==
  ASSUME ReadersInv, NEW f \in D!Functions, NEW p \in Paths, D!Call(f[1], f[2], p)
  PROVE  ReadersInv'
PROOF
<1> DEFINE k == f[1]
           mode == f[2]
<1>1. k \in D!Kinds /\ mode \in D!Modes
  BY DEF D!Functions, D!Kinds, D!Modes
<1> HIDE DEF k, mode
<1>2. /\ outcome = "running" /\ call = None /\ UNCHANGED <<file, bytes, edits, reader, seen, evidence>> /\ D!Call(k, mode, p)
  BY DEF D!Call, D!Idle, D!world, k, mode
<1>3. CASE D!Refused(k, mode, p)
  <2>1. call' = None /\ outcome' = "error"
    BY <1>2, <1>3 DEF D!Call, D!Fail
  <2>2. QED
    BY <1>2, <2>1, Stops
<1>4. CASE ~D!Refused(k, mode, p)
  <2>1. /\ call' = [kind |-> k, mode |-> mode, path |-> p, inode |-> file[p],
                    blocks |-> << >>, cached |-> D!Has(k, p) /\ k # "scan"]
        /\ outcome' = "running"
    BY <1>2, <1>4 DEF D!Call
  <2>2. /\ call'.kind = k /\ call'.mode = mode /\ call'.path = p /\ call'.inode = file[p] /\ call'.blocks = << >>
        /\ call'.cached <=> D!Has(k, p) /\ k # "scan"
    BY <2>1
  <2>3. file[p] \in 1..Len(bytes)
    BY DEF ReadersInv, Typed
  <2>4. call' \in Reads(Len(bytes))
    BY <1>1, <2>1, <2>3 DEF Reads
  <2>5. Free(k, mode, p)
    BY <1>4 DEF D!Refused, Free
  <2>6. Typed'
    BY <1>2, <2>1, <2>4 DEF ReadersInv, Typed, Reading, Preserving
  <2>7. Apart'
    BY <1>2 DEF ReadersInv, Apart
  <2>8. Allowed'
    BY <1>2, <2>2, <2>5 DEF Allowed, Reading, Free, D!Has
  <2>9. D!OneReading'
    BY <1>2, <2>1 DEF ReadersInv, D!OneReading, D!Has
  <2>10. Held'
    BY <1>2 DEF ReadersInv, Held, D!Has
  <2>11. Copied'
    BY <1>2, <2>1 DEF ReadersInv, Copied, Preserving
  <2>12. FitsData'
    BY <1>2, <2>1, <2>2 DEF ReadersInv, FitsData, Reading, Preserving, Undone, Data, Now, DataSeen, D!Has
  <2>13. Snapshots'
    <3>1. BatchRead(call)'
      BY <1>2, <2>2 DEF BatchRead
    <3>2. QED
      BY <1>2, <3>1 DEF ReadersInv, Snapshots, D!Has
  <2>14. QED
    BY <2>6, <2>7, <2>8, <2>9, <2>10, <2>11, <2>12, <2>13 DEF ReadersInv
<1>5. QED
  BY <1>3, <1>4


LEMMA ReadStep ==
  ASSUME ReadersInv, outcome = "running", D!Read
  PROVE  ReadersInv'
PROOF
<1> DEFINE N == Len(bytes)
           b == call.blocks
           n == IF call.kind = "batch" /\ Len(b) = 2 THEN file[call.path] ELSE call.inode
           w == Append(b, bytes[n])
<1>1. /\ UNCHANGED <<file, bytes, edits, reader, seen, evidence, outcome>> /\ call # None
      /\ Len(b) < D!Needed(call.kind) /\ ~call.cached
      /\ call' = [call EXCEPT !.blocks = Append(@, bytes[n]), !.inode = n]
  BY DEF D!Read, D!world
<1>2. Reading /\ ~Preserving' /\ call \in Reads(N)
  <2>1. Reading /\ outcome' = "running"
    BY <1>1 DEF Reading
  <2>2. QED
    BY <2>1 DEF Preserving, ReadersInv, Typed
<1>3. /\ N \in Nat /\ b \in Seq(Versions) /\ n \in 1..N /\ bytes[n] \in Versions
      /\ call.kind \in D!Kinds /\ call.mode \in D!Modes /\ call.path \in Paths /\ call.cached \in BOOLEAN
  BY <1>2 DEF ReadersInv, Typed, Reads
<1>4. w \in Seq(Versions) /\ Len(w) = Len(b) + 1 /\ w[Len(b) + 1] = bytes[n] /\ \A i \in 1..Len(b) : w[i] = b[i]
  BY <1>3
<1>5. /\ call'.kind = call.kind /\ call'.mode = call.mode /\ call'.path = call.path /\ call'.cached = call.cached
      /\ call'.blocks = w /\ call'.inode = n
  BY <1>1, <1>2 DEF Reads
<1>6. call' \in Reads(N)
  BY <1>1, <1>2, <1>3, <1>4 DEF Reads
<1>7. Typed'
  BY <1>1, <1>2, <1>6 DEF ReadersInv, Typed, Reading
<1>8. Apart'
  BY <1>1 DEF ReadersInv, Apart
<1>9. Allowed'
  BY <1>1, <1>2, <1>5 DEF ReadersInv, Allowed, Free, D!Has
<1>10. D!OneReading'
  BY <1>1 DEF ReadersInv, D!OneReading, D!Has
<1>11. Held'
  BY <1>1 DEF ReadersInv, Held, D!Has
<1>12. Copied'
  BY <1>1, <1>2 DEF ReadersInv, Copied
<1>13. FitsData'
  <2>1. call.kind = "fits" /\ Len(w) = 3 => n = call.inode /\ w[3] = bytes[n]
    BY <1>3, <1>4
  <2>2. call'.kind = "fits" /\ Len(call'.blocks) = 3 => bytes'[call'.inode] = call'.blocks[3]
    BY <1>1, <1>5, <2>1
  <2>3. QED
    BY <1>1, <1>2, <2>2 DEF ReadersInv, FitsData, Undone, Data, Now, DataSeen, D!Has
<1>14. Snapshots'
  <2>1. ASSUME call.kind = "batch" PROVE BatchRead(call)'
    <3> DEFINE p == call.path
               L == Len(b)
    <3>1. BatchRead(call)
      BY <1>2, <2>1 DEF ReadersInv, Snapshots
    <3>2. L \in Nat /\ L < 4
      BY <1>1, <1>3, <2>1 DEF D!Needed
    <3>3. file[p] \in 1..N /\ edits \in Nat
      BY <1>3 DEF ReadersInv, Typed
    <3>4. n = IF L = 2 THEN file[p] ELSE call.inode
      BY <2>1
    <3>5. Len(w) = L + 1 /\ w[L + 1] = bytes[n] /\ \A i \in 1..L : w[i] = b[i]
      BY <1>4
    <3> DEFINE own == bytes[call.inode]
               current == bytes[file[p]]
               own2 == bytes[n]
    <3>6. /\ L = 0 \/ L = 1 => call.inode = file[p] \/ \A q \in Paths : file[q] # call.inode
          /\ L = 1 /\ own # b[1] => edits >= 1 /\ (current = b[1] => edits >= 2)
          /\ L = 2 /\ b[2] # b[1] => edits >= 1 /\ (current = b[1] => edits >= 2)
          /\ L = 3 /\ b[2] # b[1] /\ b[3] = b[1] => edits >= 2 /\ (own # b[3] => edits >= 3)
      BY <3>1 DEF BatchRead
    <3>7. /\ Len(w) <= 4
          /\ Len(w) = 0 \/ Len(w) = 1 => n = file[p] \/ \A q \in Paths : file[q] # n
          /\ Len(w) = 1 /\ own2 # w[1] => edits >= 1 /\ (current = w[1] => edits >= 2)
          /\ Len(w) = 2 /\ w[2] # w[1] => edits >= 1 /\ (current = w[1] => edits >= 2)
          /\ Len(w) = 3 /\ w[2] # w[1] /\ w[3] = w[1] => edits >= 2 /\ (own2 # w[3] => edits >= 3)
          /\ Len(w) = 4 /\ w[2] # w[1] /\ w[3] = w[1] /\ w[4] = w[2] => edits >= 3
      <4> HIDE DEF w, n, b, p, L
      <4>1. L = 0 \/ L = 1 \/ L = 2 \/ L = 3
        BY <3>2
      <4>2. CASE L = 0
        BY <4>2, <3>4, <3>5, <3>6
      <4>3. CASE L = 1
        BY <4>3, <3>3, <3>4, <3>5, <3>6
      <4>4. CASE L = 2
        BY <4>4, <3>3, <3>4, <3>5, <3>6
      <4>5. CASE L = 3
        <5>1. Len(w) = 4 /\ w[1] = b[1] /\ w[2] = b[2] /\ w[3] = b[3] /\ w[4] = own /\ n = call.inode
          BY <4>5, <3>4, <3>5
        <5>2. w[2] # w[1] /\ w[3] = w[1] /\ w[4] = w[2] => edits >= 3
          BY <5>1, <4>5, <3>6
        <5>3. QED
          BY <5>1, <5>2
      <4>6. QED
        BY <4>1, <4>2, <4>3, <4>4, <4>5
    <3>8. QED
      BY <1>1, <1>5, <3>7 DEF BatchRead
  <2>2. QED
    BY <1>1, <1>5, <2>1 DEF ReadersInv, Snapshots, D!Has
<1>15. QED
  BY <1>7, <1>8, <1>9, <1>10, <1>11, <1>12, <1>13, <1>14 DEF ReadersInv

(* What a reader has when it has read all it needs.                        *)
LEMMA OpenedFacts ==
  ASSUME ReadersInv, D!Full, outcome = "running"
  PROVE  /\ Reading /\ call \in Reads(Len(bytes)) /\ D!Opened(call) \in Readers(Len(bytes))
         /\ call.kind \in D!Kinds /\ call.path \in Paths /\ call.mode \in D!Modes
         /\ call.kind # "scan" => ~D!Has(call.kind, call.path)
         /\ D!Opened(call).inode = call.inode /\ call.inode \in 1..Len(bytes)
         /\ D!Opened(call).digest = D!Digest(call)
         /\ call.kind # "fits" => D!Opened(call).mode = call.mode
         /\ Len(D!Digest(call)) = 2 /\ \A b \in {1, 2} : D!Digest(call)[b] \in Versions
         /\ D!Opened(call).head \in Versions
PROOF
<1> DEFINE b == call.blocks
           k == call.kind
           d == D!Digest(call)
           r == D!Opened(call)
<1>1. call # None /\ ~call.cached /\ Len(b) = D!Needed(k)
  BY DEF D!Full
<1>2. Reading /\ call \in Reads(Len(bytes))
  BY <1>1 DEF Reading, ReadersInv, Typed
<1>3. /\ b \in Seq(Versions) /\ k \in D!Kinds /\ call.path \in Paths /\ call.mode \in D!Modes
      /\ call.inode \in 1..Len(bytes)
  BY <1>2 DEF Reads
<1>4. k # "scan" => ~D!Has(k, call.path)
  BY <1>1, <1>2 DEF ReadersInv, Allowed
<1>5. Len(b) >= 2 /\ (k = "fits" => Len(b) = 3)
  BY <1>1 DEF D!Needed
<1>6. b[1] \in Versions /\ b[2] \in Versions /\ (k = "fits" => b[3] \in Versions)
  BY <1>3, <1>5
<1>7. d \in Versions \X Versions /\ Len(d) = 2 /\ \A i \in {1, 2} : d[i] \in Versions
  <2>1. CASE k = "fits"
    BY <2>1, <1>6 DEF D!Digest
  <2>2. CASE k # "fits"
    BY <2>2, <1>6 DEF D!Digest
  <2>3. QED
    BY <2>1, <2>2
<1> HIDE DEF d
<1>8. /\ r.digest = d /\ r.mode = (IF k = "fits" THEN "fits" ELSE call.mode) /\ r.inode = call.inode
      /\ r.head = b[1]
  BY DEF D!Opened, d
<1>9. (IF k = "fits" THEN "fits" ELSE call.mode) \in D!Modes
  BY <1>3 DEF D!Modes
<1>10. r \in Readers(Len(bytes))
  <2>1. r = [digest |-> d, mode |-> IF k = "fits" THEN "fits" ELSE call.mode,
             inode |-> call.inode, head |-> b[1], access |-> IF k = "scientific" THEN 1 ELSE 0]
    BY DEF D!Opened, d
  <2> HIDE DEF r, b, k
  <2>2. QED
    BY <2>1, <1>3, <1>6, <1>7, <1>9 DEF Readers
<1>11. QED
  BY <1>2, <1>3, <1>4, <1>6, <1>7, <1>8, <1>10 DEF d

(* A reader keeps what it read: the call is answered, or the run fails     *)
(* after that.                                                             *)
Keeps ==
  /\ D!Full /\ outcome = "running" /\ call' = None /\ outcome' \in {"running", "error"}
  /\ UNCHANGED <<file, bytes, edits, evidence>>
  /\ reader' = [reader EXCEPT ![<<call.kind, call.path>>] = D!Opened(call)]
  /\ \/ seen' = seen
     \/ seen' = seen \union D!Given(call, D!Opened(call))
  /\ outcome' = "error" \/ ~D!Changed(call)
  /\ call.kind \in {"batch", "scan"} => ~D!Changed(call)

LEMMA KeepStep ==
  ASSUME ReadersInv, Keeps
  PROVE  ReadersInv'
PROOF
<1> DEFINE k == call.kind
           p == call.path
           x == <<k, p>>
           r == D!Opened(call)
           d == D!Digest(call)
           N == Len(bytes)
<1>1. /\ Reading /\ call \in Reads(N) /\ r \in Readers(N) /\ k \in D!Kinds /\ p \in Paths /\ call.mode \in D!Modes
      /\ r.inode = call.inode /\ call.inode \in 1..N /\ r.digest = d
  BY OpenedFacts DEF Keeps
<1>2. /\ k # "scan" => ~D!Has(k, p)
      /\ k # "fits" => r.mode = call.mode
      /\ Len(d) = 2 /\ (\A b \in {1, 2} : d[b] \in Versions) /\ r.head \in Versions
  BY OpenedFacts DEF Keeps
<1>3. x \in Inputs /\ N \in Nat
  BY <1>1, ReaderFacts DEF ReadersInv
<1>4. r # None
  BY <1>1, <1>3, Constants
<1>5. reader \in [Inputs -> Readers(N) \union {None}]
  BY DEF ReadersInv, Typed
<1>6. /\ reader' \in [Inputs -> Readers(N) \union {None}]
      /\ reader'[x] = r /\ \A y \in Inputs : y # x => reader'[y] = reader[y]
  <2>1. reader' = [reader EXCEPT ![x] = r]
    BY DEF Keeps
  <2> HIDE DEF x, r, N
  <2>2. QED
    BY <1>1, <1>3, <1>5, <2>1
<1>7. \A j \in D!Kinds, q \in Paths : D!Has(j, q)' <=> D!Has(j, q) \/ <<j, q>> = x
  <2>1. ASSUME NEW j \in D!Kinds, NEW q \in Paths PROVE D!Has(j, q)' <=> D!Has(j, q) \/ <<j, q>> = x
    <3>1. <<j, q>> \in Inputs
      BY DEF Inputs
    <3> HIDE DEF x, r
    <3>2. QED
      BY <3>1, <1>4, <1>6 DEF D!Has
  <2>2. QED
    BY <2>1
<1>8. /\ call' = None /\ outcome = "running" /\ outcome' \in {"running", "error"}
      /\ UNCHANGED <<file, bytes, edits, evidence>> /\ ~Reading' /\ ~Preserving'
  BY DEF Keeps, Reading, Preserving
<1>9. \A y \in Inputs : evidence'[y] = None
  BY <1>8 DEF ReadersInv, Typed
<1>10. k = "fits" => D!Given(call, r) \in {{<<p, k, 1, r.head>>}, {<<p, k, 2, bytes[r.inode]>>}}
  BY DEF D!Given
<1>11. k # "fits" => D!Given(call, r) = {<<p, k, 1, d[1]>>, <<p, k, 2, d[2]>>}
  <2>1. k # "fits" => D!Given(call, r) = {<<p, k, b, r.digest[b]>> : b \in {1, 2}}
    BY DEF D!Given
  <2> HIDE DEF d, r, k, p
  <2>2. QED
    BY <1>1, <2>1
<1>12. bytes[r.inode] \in Versions
  BY <1>1 DEF ReadersInv, Typed
<1> DEFINE G == D!Given(call, r)
<1>13. seen' = seen \/ seen' = seen \union G
  BY DEF Keeps
<1>14. \A s \in G : /\ s[1] = p /\ s[2] = k
                    /\ k # "fits" => d[s[3]] = s[4]
                    /\ k = "fits" /\ s[3] = 2 => s[4] = bytes[r.inode]
  <2> HIDE DEF d, r, k, p
  <2>1. CASE k = "fits"
    <3>1. \A s \in D!Given(call, r) : s = <<p, k, 1, r.head>> \/ s = <<p, k, 2, bytes[r.inode]>>
      BY <1>10, <2>1
    <3>2. QED
      BY <1>1, <1>2, <1>12, <2>1, <3>1
  <2>2. CASE k # "fits"
    <3>1. \A s \in D!Given(call, r) : s = <<p, k, 1, d[1]>> \/ s = <<p, k, 2, d[2]>>
      BY <1>11, <2>2
    <3>2. QED
      BY <1>1, <1>2, <2>2, <3>1
  <2>3. QED
    BY <2>1, <2>2
<1> HIDE DEF G
<1>15. \A s \in seen : s[1] \in Paths /\ s[2] \in D!Kinds
  BY DEF ReadersInv, Typed
<1>16. Typed'
  <2>1. \A s \in seen' : s[1] \in Paths /\ s[2] \in D!Kinds
    BY <1>1, <1>13, <1>14, <1>15
  <2> HIDE DEF x, r
  <2>2. QED
    BY <1>6, <1>8, <1>9, <2>1 DEF ReadersInv, Typed
<1>17. Apart'
  BY <1>8 DEF ReadersInv, Apart
<1>18. Allowed'
  BY <1>8 DEF Allowed
<1>19. D!OneReading'
  <2>1. CASE outcome' = "error"
    BY <2>1 DEF D!OneReading
  <2>2. CASE outcome' = "running"
    <3>1. Free(k, call.mode, p) /\ ~D!Changed(call)
      BY <1>1, <2>2 DEF ReadersInv, Allowed, Keeps
    <3>2. ASSUME NEW q \in Paths, D!Has("table", q)', D!Has("scan", q)'
          PROVE  /\ reader'[<<"table", q>>].digest = reader'[<<"scan", q>>].digest
                 /\ reader'[<<"table", q>>].mode = reader'[<<"scan", q>>].mode
      <4>1. "table" \in D!Kinds /\ "scan" \in D!Kinds
        BY DEF D!Kinds
      <4>2. <<"table", q>> \in Inputs /\ <<"scan", q>> \in Inputs
        BY <4>1 DEF Inputs
      <4>3. CASE q = p /\ k = "table"
        <5>1. reader'[<<"table", q>>] = r /\ reader'[<<"scan", q>>] = reader[<<"scan", q>>] /\ D!Has("scan", q)
          BY <1>6, <1>7, <3>2, <4>1, <4>2, <4>3
        <5>2. reader[<<"scan", q>>].mode = call.mode /\ reader[<<"scan", q>>].digest = d
          BY <3>1, <4>3, <5>1 DEF Free, D!Changed
        <5>3. r.mode = call.mode
          BY <1>2, <4>3
        <5>4. QED
          BY <1>1, <5>1, <5>2, <5>3
      <4>4. CASE q = p /\ k = "scan"
        <5>1. reader'[<<"scan", q>>] = r /\ reader'[<<"table", q>>] = reader[<<"table", q>>] /\ D!Has("table", q)
          BY <1>6, <1>7, <3>2, <4>1, <4>2, <4>4
        <5>2. reader[<<"table", q>>].mode = call.mode /\ reader[<<"table", q>>].digest = d
          BY <3>1, <4>4, <5>1 DEF Free, D!Changed
        <5>3. r.mode = call.mode
          BY <1>2, <4>4
        <5>4. QED
          BY <1>1, <5>1, <5>2, <5>3
      <4>5. CASE ~(q = p /\ k \in {"table", "scan"})
        <5>1. <<"table", q>> # x /\ <<"scan", q>> # x
          BY <4>5
        <5>2. /\ reader'[<<"table", q>>] = reader[<<"table", q>>] /\ reader'[<<"scan", q>>] = reader[<<"scan", q>>]
              /\ D!Has("table", q) /\ D!Has("scan", q)
          BY <1>6, <1>7, <3>2, <4>1, <4>2, <5>1
        <5>3. QED
          BY <1>8, <5>2 DEF ReadersInv, D!OneReading
      <4>6. QED
        BY <4>3, <4>4, <4>5
    <3>3. ASSUME NEW j \in {"batch", "scientific"}, NEW q \in Paths, D!Has(j, q)', NEW i \in D!Kinds \ {j} PROVE ~D!Has(i, q)'
      <4>1. j \in D!Kinds /\ i \in D!Kinds
        BY DEF D!Kinds
      <4>2. D!Has(j, q) => ~D!Has(i, q)
        BY <1>8 DEF ReadersInv, D!OneReading
      <4>3. ASSUME q = p, i = k, D!Has(j, p) PROVE FALSE
        BY <3>1, <4>1, <4>3, <1>2, <3>3 DEF Free, D!Kinds
      <4>4. ASSUME q = p, j = k, D!Has(i, p) PROVE FALSE
        BY <3>1, <4>1, <4>4, <1>2, <3>3 DEF Free, D!Kinds
      <4>5. QED
        BY <1>7, <3>3, <4>1, <4>2, <4>3, <4>4
    <3>4. QED
      BY <3>2, <3>3 DEF D!OneReading, D!Has
  <2>3. QED
    BY <1>8, <2>1, <2>2
<1>20. Held'
  <2>1. ASSUME NEW s \in seen
        PROVE  D!Has(s[2], s[1])' /\ (s[2] # "fits" => reader'[<<s[2], s[1]>>].digest[s[3]] = s[4])
    <3>1. s[2] \in D!Kinds /\ s[1] \in Paths /\ <<s[2], s[1]>> \in Inputs
      BY <1>15 DEF Inputs
    <3>2. D!Has(s[2], s[1]) /\ (s[2] # "fits" => reader[<<s[2], s[1]>>].digest[s[3]] = s[4])
      BY DEF ReadersInv, Held
    <3>3. D!Has(s[2], s[1])'
      BY <1>7, <3>1, <3>2
    <3>4. CASE <<s[2], s[1]>> = x
      <4>1. k = "scan" /\ D!Has("scan", p) /\ s[2] = k /\ s[1] = p
        BY <1>2, <3>2, <3>4
      <4>2. reader[<<"scan", p>>].digest = d
        BY <4>1 DEF Keeps, D!Changed
      <4>3. QED
        BY <1>1, <1>6, <3>2, <3>3, <3>4, <4>1, <4>2
    <3>5. CASE <<s[2], s[1]>> # x
      BY <1>6, <3>1, <3>2, <3>3, <3>5
    <3>6. QED
      BY <3>4, <3>5
  <2>2. ASSUME NEW s \in G
        PROVE  D!Has(s[2], s[1])' /\ (s[2] # "fits" => reader'[<<s[2], s[1]>>].digest[s[3]] = s[4])
    <3>1. s[1] = p /\ s[2] = k /\ (k # "fits" => d[s[3]] = s[4])
      BY <1>14
    <3>2. <<s[2], s[1]>> = x /\ s[1] \in Paths /\ s[2] \in D!Kinds
      BY <1>1, <3>1
    <3>3. D!Has(s[2], s[1])'
      BY <1>7, <3>2
    <3>4. reader'[<<s[2], s[1]>>].digest = d
      BY <1>1, <1>6, <3>2
    <3>5. QED
      BY <3>1, <3>3, <3>4
  <2>3. QED
    BY <1>13, <2>1, <2>2 DEF Held, D!Has
<1>21. Copied'
  <2>1. outcome' # "PASS" /\ ~Preserving'
    BY <1>8
  <2>2. QED
    BY <1>9, <2>1 DEF Copied
<1>22. FitsData'
  <2>1. ASSUME NEW q \in Paths, D!Has("fits", q)', Now(q)' # Data(q)' PROVE edits >= 1
    <3>1. "fits" \in D!Kinds /\ <<"fits", q>> \in Inputs
      BY DEF D!Kinds, Inputs
    <3>2. CASE <<"fits", q>> = x
      <4>1. k = "fits" /\ reader'[<<"fits", q>>] = r
        BY <1>6, <3>2
      <4>2. Now(q)' = bytes[call.inode] /\ Data(q)' = d[2]
        BY <1>1, <1>8, <4>1 DEF Now, Data
      <4>3. Len(call.blocks) = 3 /\ d[2] = call.blocks[3]
        BY <4>1 DEF Keeps, D!Full, D!Needed, D!Digest
      <4>4. QED
        BY <1>1, <2>1, <4>1, <4>2, <4>3 DEF ReadersInv, FitsData
    <3>3. CASE <<"fits", q>> # x
      <4>1. D!Has("fits", q) /\ reader'[<<"fits", q>>] = reader[<<"fits", q>>]
        BY <1>6, <1>7, <2>1, <3>1, <3>3
      <4>2. Now(q)' = Now(q) /\ Data(q)' = Data(q)
        BY <1>8, <4>1 DEF Now, Data
      <4>3. QED
        BY <2>1, <4>1, <4>2 DEF ReadersInv, FitsData
    <3>4. QED
      BY <3>2, <3>3
  <2>2. ASSUME NEW s \in seen', s[2] = "fits", s[3] = 2, s[4] # Data(s[1])'
        PROVE  edits >= 1 /\ (Now(s[1])' = Data(s[1])' => edits >= 2)
    <3>1. CASE s \in seen
      <4>1. s[1] \in Paths /\ "fits" \in D!Kinds /\ <<"fits", s[1]>> \in Inputs
        BY <1>15, <3>1 DEF D!Kinds, Inputs
      <4>2. D!Has("fits", s[1])
        BY <2>2, <3>1 DEF ReadersInv, Held
      <4>3. <<"fits", s[1]>> # x
        BY <1>2, <4>2
      <4>4. reader'[<<"fits", s[1]>>] = reader[<<"fits", s[1]>>]
        BY <1>6, <4>1, <4>3
      <4>5. Now(s[1])' = Now(s[1]) /\ Data(s[1])' = Data(s[1])
        BY <1>8, <4>4 DEF Now, Data
      <4>6. s \in DataSeen
        BY <2>2, <3>1 DEF DataSeen
      <4>7. QED
        BY <2>2, <4>5, <4>6 DEF ReadersInv, FitsData
    <3>2. CASE s \in G
      <4>1. s[1] = p /\ k = "fits" /\ s[4] = bytes[r.inode]
        BY <1>14, <2>2, <3>2
      <4>2. reader'[<<"fits", s[1]>>] = r
        BY <1>6, <4>1
      <4>3. Now(s[1])' = bytes[r.inode]
        BY <1>8, <4>2 DEF Now
      <4>4. Now(s[1])' # Data(s[1])' /\ s[1] \in Paths
        BY <2>2, <1>1, <4>1, <4>3
      <4>5. D!Has("fits", s[1])'
        BY <1>1, <1>7, <4>1
      <4>6. edits >= 1
        BY <2>1, <4>4, <4>5
      <4>7. QED
        BY <4>4, <4>6
    <3>3. QED
      BY <1>13, <3>1, <3>2
  <2>3. \A q \in Paths : evidence'[<<"fits", q>>] = None
    BY <1>9 DEF Inputs, D!Kinds
  <2>4. edits' = edits
    BY <1>8
  <2> HIDE DEF x, r, d, k, p
  <2>5. QED
    <3>1. \A q \in Paths : D!Has("fits", q)' /\ Now(q)' # Data(q)' => edits' >= 1
      BY <2>1, <2>4
    <3>2. \A s \in DataSeen' : s[4] # Data(s[1])' => edits' >= 1 /\ (Now(s[1])' = Data(s[1])' => edits' >= 2)
      BY <2>2, <2>4 DEF DataSeen
    <3>3. QED
      BY <1>8, <2>3, <3>1, <3>2 DEF FitsData, D!Has
<1>23. Snapshots'
  <2>1. ASSUME NEW q \in Paths, D!Has("batch", q)', reader'[<<"batch", q>>].digest[1] # reader'[<<"batch", q>>].digest[2]
        PROVE  edits' >= 3
    <3>1. "batch" \in D!Kinds /\ <<"batch", q>> \in Inputs
      BY DEF D!Kinds, Inputs
    <3>2. CASE <<"batch", q>> = x
      <4> DEFINE b == call.blocks
      <4>1. k = "batch" /\ reader'[<<"batch", q>>].digest = d
        BY <1>1, <1>6, <3>2
      <4>2. Len(b) = 4 /\ d = <<b[1], b[2]>> /\ b \in Seq(Versions)
        BY <1>1, <4>1 DEF Keeps, D!Full, D!Needed, D!Digest, Reads
      <4>3. SubSeq(b, 3, 4) = d
        BY <4>1 DEF Keeps, D!Changed
      <4>4. SubSeq(b, 3, 4)[1] = b[3] /\ SubSeq(b, 3, 4)[2] = b[4]
        <5> HIDE DEF b
        <5>1. QED
          BY <4>2
      <4>5. b[3] = b[1] /\ b[4] = b[2] /\ b[2] # b[1]
        <5>1. d[1] = b[1] /\ d[2] = b[2] /\ d[1] # d[2]
          BY <2>1, <4>1, <4>2
        <5> HIDE DEF b, d
        <5>2. QED
          BY <4>3, <4>4, <5>1
      <4>6. BatchRead(call)
        BY <1>1, <4>1 DEF ReadersInv, Snapshots
      <4>7. QED
        BY <1>8, <4>2, <4>5, <4>6 DEF BatchRead
    <3>3. CASE <<"batch", q>> # x
      <4>1. D!Has("batch", q) /\ reader'[<<"batch", q>>] = reader[<<"batch", q>>]
        BY <1>6, <1>7, <2>1, <3>1, <3>3
      <4>2. QED
        BY <1>8, <2>1, <4>1 DEF ReadersInv, Snapshots
    <3>4. QED
      BY <3>2, <3>3
  <2> HIDE DEF x, r, d, k, p
  <2>2. QED
    BY <1>8, <2>1 DEF Snapshots, D!Has
<1>24. QED
  BY <1>16, <1>17, <1>18, <1>19, <1>20, <1>21, <1>22, <1>23 DEF ReadersInv

LEMMA OpenStep ==
  ASSUME ReadersInv, D!Open
  PROVE  ReadersInv'
PROOF
<1>1. D!Full /\ outcome = "running" /\ UNCHANGED <<file, bytes, edits, evidence>>
  BY DEF D!Open, D!world
<1>2. CASE D!Changed(call) /\ call.kind # "table"
  <2>1. call' = None /\ outcome' = "error" /\ UNCHANGED <<seen, reader>>
    BY <1>2 DEF D!Open, D!Fail
  <2>2. QED
    BY <1>1, <2>1, Stops
<1>3. CASE D!Changed(call) /\ call.kind = "table"
  <2>1. /\ call' = None /\ outcome' = "error" /\ seen' = seen
        /\ reader' = [reader EXCEPT ![<<call.kind, call.path>>] = D!Opened(call)]
    BY <1>3 DEF D!Open, D!Fail
  <2>2. Keeps
    BY <1>1, <1>3, <2>1 DEF Keeps
  <2>3. QED
    BY <2>2, KeepStep
<1>4. CASE ~D!Changed(call)
  <2>1. /\ call' = None /\ outcome' = outcome /\ seen' = seen \union D!Given(call, D!Opened(call))
        /\ reader' = [reader EXCEPT ![<<call.kind, call.path>>] = D!Opened(call)]
    BY <1>4 DEF D!Open
  <2>2. Keeps
    BY <1>1, <1>4, <2>1 DEF Keeps
  <2>3. QED
    BY <2>2, KeepStep
<1>5. QED
  BY <1>2, <1>3, <1>4

LEMMA ReadErrorStep ==
  ASSUME ReadersInv, D!ReadError
  PROVE  ReadersInv'
PROOF
<1>1. /\ D!Full /\ outcome = "running" /\ call' = None /\ outcome' = "error"
      /\ UNCHANGED <<file, bytes, edits, seen, evidence>>
  BY DEF D!ReadError, D!Fail, D!world
<1>2. CASE call.kind \in {"scientific", "batch"} /\ ~D!Changed(call)
  <2>1. reader' = [reader EXCEPT ![<<call.kind, call.path>>] = D!Opened(call)]
    BY <1>2 DEF D!ReadError
  <2>2. Keeps
    BY <1>1, <1>2, <2>1 DEF Keeps
  <2>3. QED
    BY <2>2, KeepStep
<1>3. CASE ~(call.kind \in {"scientific", "batch"} /\ ~D!Changed(call))
  <2>1. reader' = reader
    BY <1>3 DEF D!ReadError
  <2>2. QED
    BY <1>1, <2>1, Stops
<1>4. QED
  BY <1>2, <1>3

(* A reader is used again: but for the recorded calls it has what it had.  *)
SameReaders ==
  \A y \in Inputs :
    /\ reader'[y] = None <=> reader[y] = None
    /\ reader'[y].digest = reader[y].digest /\ reader'[y].mode = reader[y].mode /\ reader'[y].inode = reader[y].inode

LEMMA SameFacts ==
  ASSUME SameReaders, UNCHANGED bytes, NEW k \in D!Kinds, NEW p \in Paths
  PROVE  /\ D!Has(k, p)' <=> D!Has(k, p)
         /\ reader'[<<k, p>>].digest = reader[<<k, p>>].digest /\ reader'[<<k, p>>].mode = reader[<<k, p>>].mode
         /\ k = "fits" => Now(p)' = Now(p) /\ Data(p)' = Data(p)
PROOF
<1>1. <<k, p>> \in Inputs
  BY DEF Inputs
<1>2. /\ reader'[<<k, p>>] = None <=> reader[<<k, p>>] = None
      /\ reader'[<<k, p>>].digest = reader[<<k, p>>].digest /\ reader'[<<k, p>>].mode = reader[<<k, p>>].mode
      /\ reader'[<<k, p>>].inode = reader[<<k, p>>].inode
  BY <1>1 DEF SameReaders
<1>3. QED
  BY <1>2 DEF D!Has, Now, Data

LEMMA ReuseStep ==
  ASSUME ReadersInv, D!Reuse
  PROVE  ReadersInv'
PROOF
<1> DEFINE k == call.kind
           p == call.path
           x == <<k, p>>
           r == reader[x]
           N == Len(bytes)
           G == D!Given(call, r)
<1>1. call # None /\ call.cached /\ UNCHANGED <<file, bytes, edits, evidence>>
  BY DEF D!Reuse, D!world
<1>2. Reading /\ outcome = "running" /\ call \in Reads(N)
  <2>1. ~Preserving
    <3>1. Preserving => call.cached \in {FALSE}
      BY DEF ReadersInv, Typed, Copying
    <3>2. QED
      BY <1>1, <3>1
  <2>2. Reading
    BY <1>1, <2>1 DEF ReadersInv, Typed
  <2>3. QED
    BY <2>2 DEF Reading, ReadersInv, Typed
<1>3. k \in D!Kinds /\ p \in Paths /\ D!Has(k, p) /\ k # "scan"
  BY <1>1, <1>2 DEF Reads, ReadersInv, Allowed
<1>4. x \in Inputs /\ N \in Nat /\ r \in Readers(N)
  BY <1>3, ReaderFacts DEF ReadersInv
<1>5. CASE UNCHANGED <<reader, seen>>
  <2>1. call' = None /\ outcome' \in {"running", "error"}
    BY <1>2 DEF D!Reuse, D!Fail
  <2>2. QED
    BY <1>1, <1>2, <1>5, <2>1, Stops
<1>6. CASE ~UNCHANGED <<reader, seen>>
  <2>1. /\ reader' = [reader EXCEPT ![x].access = IF k = "scientific" THEN @ + 1 ELSE @]
        /\ seen' = seen \union G /\ call' = None /\ outcome' = "running"
    BY <1>2, <1>6 DEF D!Reuse
  <2>2. /\ call' = None /\ outcome' = "running" /\ outcome = "running"
        /\ UNCHANGED <<file, bytes, edits, evidence>> /\ ~Reading' /\ ~Preserving'
    BY <1>1, <1>2, <2>1 DEF Reading, Preserving
  <2>3. reader \in [Inputs -> Readers(N) \union {None}]
    BY DEF ReadersInv, Typed
  <2> DEFINE a == IF k = "scientific" THEN r.access + 1 ELSE r.access
             r2 == [r EXCEPT !.access = a]
  <2>4. r2 \in Readers(N) /\ r2.digest = r.digest /\ r2.mode = r.mode /\ r2.inode = r.inode
    <3>1. r.access \in Nat
      BY <1>4 DEF Readers
    <3>2. a \in Nat
      BY <3>1
    <3> HIDE DEF r, a, N
    <3>3. QED
      BY <1>4, <3>2 DEF Readers
  <2>5. reader' = [reader EXCEPT ![x] = r2]
    BY <1>4, <2>1, <2>3
  <2>6. /\ reader' \in [Inputs -> Readers(N) \union {None}]
        /\ reader'[x] = r2 /\ \A y \in Inputs : y # x => reader'[y] = reader[y]
    <3> HIDE DEF x, r2, N
    <3>1. QED
      BY <1>4, <2>3, <2>4, <2>5
  <2>7. r2 # None /\ r # None
    BY <1>4, <2>4, Constants
  <2>8. SameReaders
    <3> HIDE DEF x, r2
    <3>1. QED
      BY <2>4, <2>6, <2>7 DEF SameReaders, r2
  <2>9. \A s \in seen : s[1] \in Paths /\ s[2] \in D!Kinds
    BY DEF ReadersInv, Typed
  <2>10. bytes[r.inode] \in Versions /\ r.head \in Versions
    BY <1>4 DEF ReadersInv, Typed, Readers
  <2>11. k # "fits" => D!Given(call, r) = {<<p, k, b, r.digest[b]>> : b \in {1, 2}}
    BY DEF D!Given
  <2>12. k = "fits" => D!Given(call, r) \in {{<<p, k, 1, r.head>>}, {<<p, k, 2, bytes[r.inode]>>}}
    BY DEF D!Given
  <2>13. \A s \in G :
           /\ s[1] = p /\ s[2] = k
           /\ k # "fits" => r.digest[s[3]] = s[4]
           /\ k = "fits" /\ s[3] = 2 => s[4] = bytes[r.inode]
    <3> HIDE DEF r, k, p
    <3>1. CASE k = "fits"
      <4>1. \A s \in D!Given(call, r) : s = <<p, k, 1, r.head>> \/ s = <<p, k, 2, bytes[r.inode]>>
        BY <2>12, <3>1
      <4>2. QED
        BY <3>1, <4>1
    <3>2. CASE k # "fits"
      <4>1. \A s \in D!Given(call, r) : s = <<p, k, 1, r.digest[1]>> \/ s = <<p, k, 2, r.digest[2]>>
        BY <2>11, <3>2
      <4>2. QED
        BY <3>2, <4>1
    <3>3. QED
      BY <3>1, <3>2
  <2> HIDE DEF G, r, x, r2, N
  <2>14. \A s \in seen' :
           s[1] \in Paths /\ s[2] \in D!Kinds /\ (s \in seen \/ (s \in G /\ s[1] = p /\ s[2] = k))
    BY <1>3, <2>1, <2>9, <2>13
  <2>15. Typed'
    <3>1. \A y \in Inputs : evidence'[y] = None
      BY <2>2 DEF ReadersInv, Typed
    <3>2. \A s \in seen' : s[1] \in Paths /\ s[2] \in D!Kinds
      BY <2>14
    <3>3. QED
      BY <2>2, <2>6, <3>1, <3>2 DEF ReadersInv, Typed, N
  <2>16. Apart' /\ Allowed'
    BY <2>2 DEF ReadersInv, Apart, Allowed
  <2>17. D!OneReading'
    <3>1. D!OneReading /\ "table" \in D!Kinds /\ "scan" \in D!Kinds /\ "batch" \in D!Kinds /\ "scientific" \in D!Kinds
      BY DEF ReadersInv, D!Kinds
    <3>2. ASSUME NEW q \in Paths, D!Has("table", q)', D!Has("scan", q)'
          PROVE  /\ reader'[<<"table", q>>].digest = reader'[<<"scan", q>>].digest
                 /\ reader'[<<"table", q>>].mode = reader'[<<"scan", q>>].mode
      <4>1. D!Has("table", q) /\ D!Has("scan", q)
        BY <2>2, <2>8, <3>1, <3>2, SameFacts
      <4>2. /\ reader[<<"table", q>>].digest = reader[<<"scan", q>>].digest
            /\ reader[<<"table", q>>].mode = reader[<<"scan", q>>].mode
        BY <2>2, <3>1, <4>1 DEF D!OneReading
      <4>3. QED
        BY <2>2, <2>8, <3>1, <4>2, SameFacts
    <3>3. ASSUME NEW q \in Paths, NEW j \in {"batch", "scientific"}, D!Has(j, q)', NEW i \in D!Kinds \ {j} PROVE ~D!Has(i, q)'
      <4>1. j \in D!Kinds /\ i \in D!Kinds
        BY <3>1
      <4>2. D!Has(j, q)
        BY <2>2, <2>8, <3>3, <4>1, SameFacts
      <4>3. ~D!Has(i, q)
        BY <2>2, <3>1, <4>2 DEF D!OneReading
      <4>4. QED
        BY <2>2, <2>8, <4>1, <4>3, SameFacts
    <3>4. QED
      BY <3>2, <3>3 DEF D!OneReading, D!Has
  <2>18. Held'
    <3>1. ASSUME NEW s \in seen' PROVE D!Has(s[2], s[1])' /\ (s[2] # "fits" => reader'[<<s[2], s[1]>>].digest[s[3]] = s[4])
      <4>1. s[1] \in Paths /\ s[2] \in D!Kinds /\ (s \in seen \/ (s \in G /\ s[1] = p /\ s[2] = k))
        BY <2>14
      <4>2. /\ D!Has(s[2], s[1])' <=> D!Has(s[2], s[1])
            /\ reader'[<<s[2], s[1]>>].digest = reader[<<s[2], s[1]>>].digest
        BY <2>2, <2>8, <4>1, SameFacts
      <4>3. CASE s \in seen
        BY <4>2, <4>3 DEF ReadersInv, Held
      <4>4. CASE s \in G /\ s[1] = p /\ s[2] = k
        <5>1. reader[<<s[2], s[1]>>] = r
          BY <4>4 DEF r, x
        <5>2. D!Has(s[2], s[1])
          BY <1>3, <4>4
        <5>3. QED
          BY <2>13, <4>2, <4>4, <5>1, <5>2
      <4>5. QED
        BY <4>1, <4>3, <4>4
    <3>2. QED
      BY <3>1 DEF Held, D!Has
  <2>19. Copied'
    <3>1. \A y \in Inputs : evidence'[y] = None
      BY <2>2 DEF ReadersInv, Typed
    <3>2. outcome' # "PASS"
      BY <2>2
    <3>3. QED
      BY <2>2, <3>1, <3>2 DEF Copied
  <2>20. FitsData'
    <3>1. "fits" \in D!Kinds /\ edits' = edits
      BY <2>2 DEF D!Kinds
    <3>2. ASSUME NEW q \in Paths, D!Has("fits", q)', Now(q)' # Data(q)' PROVE edits' >= 1
      <4>1. D!Has("fits", q) /\ Now(q) # Data(q)
        BY <2>2, <2>8, <3>1, <3>2, SameFacts
      <4>2. QED
        BY <3>1, <4>1 DEF ReadersInv, FitsData
    <3>3. ASSUME NEW s \in DataSeen', s[4] # Data(s[1])'
          PROVE edits' >= 1 /\ (Now(s[1])' = Data(s[1])' => edits' >= 2)
      <4>1. s \in seen' /\ s[2] = "fits" /\ s[3] = 2
        BY DEF DataSeen
      <4>2. s[1] \in Paths /\ (s \in seen \/ (s \in G /\ s[1] = p /\ s[2] = k))
        BY <2>14, <4>1
      <4>3. Now(s[1])' = Now(s[1]) /\ Data(s[1])' = Data(s[1])
        BY <2>2, <2>8, <3>1, <4>2, SameFacts
      <4>4. CASE s \in seen
        <5>1. s \in DataSeen
          BY <4>1, <4>4 DEF DataSeen
        <5>2. QED
          BY <3>1, <3>3, <4>3, <5>1 DEF ReadersInv, FitsData
      <4>5. CASE s \in G /\ s[1] = p /\ s[2] = k
        <5>1. k = "fits" /\ s[4] = bytes[r.inode]
          BY <2>13, <4>1, <4>5
        <5>2. r = reader[<<"fits", s[1]>>]
          BY <4>5, <5>1 DEF r, x
        <5>3. s[4] = Now(s[1])
          BY <5>1, <5>2 DEF Now
        <5>4. D!Has("fits", s[1]) /\ Now(s[1]) # Data(s[1])
          BY <1>3, <3>3, <4>3, <4>5, <5>1, <5>3
        <5>5. edits >= 1
          BY <4>2, <5>4 DEF ReadersInv, FitsData
        <5>6. QED
          BY <3>1, <4>3, <5>4, <5>5
      <4>6. QED
        BY <4>2, <4>4, <4>5
    <3>4. \A q \in Paths : evidence'[<<"fits", q>>] = None
      BY <2>2, <3>1 DEF ReadersInv, Typed, Inputs
    <3>5. \A q \in Paths : D!Has("fits", q)' /\ Now(q)' # Data(q)' => edits' >= 1
      BY <3>2
    <3>6. \A s \in DataSeen' : s[4] # Data(s[1])' => edits' >= 1 /\ (Now(s[1])' = Data(s[1])' => edits' >= 2)
      BY <3>3
    <3>7. QED
      BY <2>2, <3>4, <3>5, <3>6 DEF FitsData, D!Has
  <2>21. Snapshots'
    <3>1. ASSUME NEW q \in Paths, D!Has("batch", q)', reader'[<<"batch", q>>].digest[1] # reader'[<<"batch", q>>].digest[2]
          PROVE  edits' >= 3
      <4>1. "batch" \in D!Kinds
        BY DEF D!Kinds
      <4>2. D!Has("batch", q) /\ reader'[<<"batch", q>>].digest = reader[<<"batch", q>>].digest
        BY <2>2, <2>8, <3>1, <4>1, SameFacts
      <4>3. QED
        BY <2>2, <3>1, <4>2 DEF ReadersInv, Snapshots
    <3>2. QED
      BY <2>2, <3>1 DEF Snapshots, D!Has
  <2>22. QED
    BY <2>15, <2>16, <2>17, <2>18, <2>19, <2>20, <2>21 DEF ReadersInv
<1>7. QED
  BY <1>5, <1>6

LEMMA TwoBlocks ==
  ASSUME NEW d \in Versions \X Versions
  PROVE  d \in Seq(Versions) /\ Len(d) = 2 /\ d[1] \in Versions /\ d[2] \in Versions
PROOF
<1>1. PICK v \in Versions, w \in Versions : d = <<v, w>>
  OBVIOUS
<1>2. QED
  BY <1>1

LEMMA EndStep ==
  ASSUME ReadersInv, D!End
  PROVE  ReadersInv'
PROOF
<1>1. /\ UNCHANGED <<file, bytes, edits, reader, seen, evidence>> /\ call' = call
      /\ outcome \in {"running", "error"}
      /\ outcome' = IF outcome = "error" THEN "FAIL" ELSE IF D!Imports = {} THEN "PASS" ELSE "preserving"
  BY DEF D!End, D!Idle, D!world
<1>2. call = None
  <2>1. CASE outcome = "error"
    BY <2>1 DEF ReadersInv, Typed, Reading, Preserving
  <2>2. CASE outcome # "error"
    BY <2>2 DEF D!End, D!Idle
  <2>3. QED
    BY <2>1, <2>2
<1>3. \A y \in Inputs : evidence[y] = None
  BY <1>1 DEF ReadersInv, Typed
<1>4. ~Reading' /\ ~Preserving' /\ outcome' \in {"FAIL", "PASS", "preserving"}
  BY <1>1, <1>2 DEF Reading, Preserving
<1>5. Typed'
  BY <1>1, <1>2, <1>4 DEF ReadersInv, Typed
<1>6. Apart' /\ Allowed'
  BY <1>1, <1>4 DEF ReadersInv, Apart, Allowed
<1>7. D!OneReading'
  BY <1>1 DEF ReadersInv, D!OneReading, D!Has
<1>8. Held'
  BY <1>1 DEF ReadersInv, Held, D!Has
<1>9. Copied'
  <2>1. D!Imports' = D!Imports
    BY <1>1 DEF D!Imports, D!Has
  <2>2. outcome' = "PASS" => D!Imports = {}
    BY <1>1
  <2>3. QED
    BY <1>1, <1>3, <1>4, <2>1, <2>2 DEF Copied
<1>10. FitsData'
  BY <1>1, <1>3, <1>4 DEF ReadersInv, FitsData, Undone, Data, Now, DataSeen, D!Has, Inputs, D!Kinds
<1>11. Snapshots'
  BY <1>1, <1>4 DEF ReadersInv, Snapshots, D!Has
<1>12. QED
  BY <1>5, <1>6, <1>7, <1>8, <1>9, <1>10, <1>11 DEF ReadersInv

(* A copy decides: it is in the evidence, and the run fails if it differs. *)
LEMMA SealStep ==
  ASSUME ReadersInv, outcome = "preserving", NEW x \in D!Imports, NEW copy \in Seq(Versions),
         NEW from \in (D!Kinds \union {"store"}) \X Paths, D!Sealed(x, copy, from),
         call' = None, UNCHANGED <<file, bytes, edits, reader, seen>>,
         x[1] = "fits" /\ from = x /\ copy = reader[x].digest => Undone(x[2])
  PROVE  ReadersInv'
PROOF
<1> DEFINE e == [blocks |-> copy, from |-> from]
<1>1. evidence' = [evidence EXCEPT ![x] = e]
  BY DEF D!Sealed
<1>2. outcome' = IF copy # reader[x].digest THEN "FAIL"
                 ELSE IF \A y \in D!Imports \ {x} : evidence[y] # None THEN "PASS" ELSE outcome
  BY DEF D!Sealed
<1>3. outcome' \in {"FAIL", "PASS", "preserving"} /\ ~Reading' /\ ~Preserving'
  BY <1>2 DEF Reading, Preserving
<1>4. x \in Inputs /\ \A y \in D!Imports : y \in Inputs
  BY DEF D!Imports, Inputs
<1>5. e \in D!Copies /\ e # None /\ e.blocks = copy /\ e.from = from
  <2>1. e \in D!Copies /\ e.blocks = copy /\ e.from = from
    BY DEF D!Copies
  <2>2. QED
    BY <2>1, Constants
<1> HIDE DEF e
<1>6. evidence \in [Inputs -> D!Copies \union {None}]
  BY DEF ReadersInv, Typed
<1>7. /\ evidence' \in [Inputs -> D!Copies \union {None}] /\ evidence'[x] = e
      /\ \A y \in Inputs : y # x => evidence'[y] = evidence[y]
  BY <1>1, <1>4, <1>5, <1>6
<1>8. Typed'
  BY <1>3, <1>7 DEF ReadersInv, Typed
<1>9. Apart' /\ Allowed'
  BY <1>3 DEF ReadersInv, Apart, Allowed
<1>10. D!OneReading'
  BY DEF ReadersInv, D!OneReading, D!Has
<1>11. Held'
  BY DEF ReadersInv, Held, D!Has
<1>12. Copied'
  <2>1. D!Imports' = D!Imports
    BY DEF D!Imports, D!Has
  <2>2. ASSUME NEW y \in Inputs, evidence'[y] # None, outcome' # "FAIL" PROVE evidence'[y].blocks = reader[y].digest
    <3>1. CASE y = x
      BY <1>2, <1>5, <1>7, <2>2, <3>1
    <3>2. CASE y # x
      BY <1>7, <2>2, <3>2 DEF ReadersInv, Copied
    <3>3. QED
      BY <3>1, <3>2
  <2>3. ASSUME outcome' = "PASS", NEW y \in D!Imports PROVE evidence'[y] # None
    <3>1. CASE y = x
      BY <1>5, <1>7, <3>1
    <3>2. CASE y # x
      BY <1>2, <1>4, <1>7, <2>3, <3>2
    <3>3. QED
      BY <3>1, <3>2
  <2>4. QED
    BY <1>3, <2>1, <2>2, <2>3 DEF Copied
<1>13. FitsData'
  <2>1. ASSUME NEW p \in Paths, evidence'[<<"fits", p>>] # None, evidence'[<<"fits", p>>].from = <<"fits", p>>, outcome' # "FAIL"
        PROVE  Undone(p)
    <3>1. <<"fits", p>> \in Inputs
      BY DEF Inputs, D!Kinds
    <3>2. CASE <<"fits", p>> = x
      <4>1. x[1] = "fits" /\ x[2] = p /\ from = x /\ copy = reader[x].digest
        BY <1>2, <1>5, <1>7, <2>1, <3>2
      <4>2. QED
        BY <4>1
    <3>3. CASE <<"fits", p>> # x
      BY <1>7, <2>1, <3>1, <3>3 DEF ReadersInv, FitsData
    <3>4. QED
      BY <3>2, <3>3
  <2>2. \A p \in Paths : Undone(p)' <=> Undone(p)
    BY DEF Undone, DataSeen, Data
  <2>3. \A p \in Paths : evidence'[<<"fits", p>>] # None /\ evidence'[<<"fits", p>>].from = <<"fits", p>> /\ outcome' # "FAIL"
                           => Undone(p)'
    BY <2>1, <2>2
  <2>4. QED
    BY <1>3, <2>3 DEF ReadersInv, FitsData, Data, Now, DataSeen, D!Has
<1>14. Snapshots'
  BY <1>3 DEF ReadersInv, Snapshots, D!Has
<1>15. QED
  BY <1>8, <1>9, <1>10, <1>11, <1>12, <1>13, <1>14 DEF ReadersInv

LEMMA LinkStep ==
  ASSUME ReadersInv, NEW x \in D!Imports, D!Link(x)
  PROVE  ReadersInv'
PROOF
<1>1. /\ outcome = "preserving" /\ call' = None /\ D!Sealed(x, reader[x].digest, <<"store", x[2]>>)
      /\ UNCHANGED <<file, bytes, edits, reader, seen>>
  BY DEF D!Link, D!world, D!Sealed
<1>2. x[1] \in D!Kinds /\ x[2] \in Paths /\ x = <<x[1], x[2]>> /\ D!Has(x[1], x[2])
  BY DEF D!Imports
<1>3. reader[x] \in Readers(Len(bytes))
  <2>1. reader[<<x[1], x[2]>>] \in Readers(Len(bytes))
    BY <1>2, ReaderFacts DEF ReadersInv
  <2>2. QED
    BY <1>2, <2>1
<1>4. reader[x].digest \in Seq(Versions)
  <2>1. reader[x].digest \in Versions \X Versions
    BY <1>3 DEF Readers
  <2>2. QED
    BY <2>1, TwoBlocks
<1>5. <<"store", x[2]>> \in (D!Kinds \union {"store"}) \X Paths /\ (x[1] = "fits" => <<"store", x[2]>> # x)
  BY <1>2
<1>6. QED
  BY <1>1, <1>4, <1>5, SealStep

(* The readers that are asked for a digest: one holds it, so the first in  *)
(* the order that does is there.                                           *)
LEMMA SourceFacts ==
  ASSUME NEW x \in D!Imports, NEW s \in D!Source(reader[x].digest)
  PROVE  s[1] \in D!Kinds /\ s[2] \in Paths /\ s = <<s[1], s[2]>> /\ D!Has(s[1], s[2])
PROOF
<1> DEFINE digest == reader[x].digest
           holds(k) == {p \in Paths : D!Has(k, p) /\ reader[<<k, p>>].digest = digest}
           First(j) == j \in DOMAIN D!Order /\ holds(D!Order[j]) # {} /\ \A h \in 1..j-1 : holds(D!Order[h]) = {}
           i == CHOOSE j \in DOMAIN D!Order : holds(D!Order[j]) # {} /\ \A h \in 1..j-1 : holds(D!Order[h]) = {}
<1>1. /\ DOMAIN D!Order = 1..5
      /\ D!Order[1] = "scientific" /\ D!Order[2] = "batch" /\ D!Order[3] = "scan" /\ D!Order[4] = "table" /\ D!Order[5] = "fits"
  BY DEF D!Order
<1>2. x[1] \in D!Kinds /\ x[2] \in Paths /\ x = <<x[1], x[2]>> /\ D!Has(x[1], x[2])
  BY DEF D!Imports
<1>3. holds(x[1]) # {}
  <2>1. x[2] \in holds(x[1])
    BY <1>2
  <2>2. QED
    BY <2>1
<1> HIDE DEF holds
<1>4. \E j \in 1..5 : holds(D!Order[j]) # {}
  <2>1. x[1] \in {D!Order[1], D!Order[2], D!Order[3], D!Order[4], D!Order[5]}
    BY <1>1, <1>2 DEF D!Kinds
  <2>2. QED
    BY <1>3, <2>1
<1>5. \E j \in 1..5 : holds(D!Order[j]) # {} /\ \A h \in 1..j-1 : holds(D!Order[h]) = {}
  <2> DEFINE H(j) == holds(D!Order[j]) # {}
  <2>1. \E j \in 1..5 : H(j)
    BY <1>4
  <2> HIDE DEF H
  <2>2. \E j \in 1..5 : H(j) /\ \A h \in 1..j-1 : ~H(h)
    <3>1. CASE H(1)
      BY <3>1
    <3>2. CASE ~H(1) /\ H(2)
      BY <3>2
    <3>3. CASE ~H(1) /\ ~H(2) /\ H(3)
      BY <3>3
    <3>4. CASE ~H(1) /\ ~H(2) /\ ~H(3) /\ H(4)
      BY <3>4
    <3>5. CASE ~H(1) /\ ~H(2) /\ ~H(3) /\ ~H(4) /\ H(5)
      BY <3>5
    <3>6. QED
      BY <2>1, <3>1, <3>2, <3>3, <3>4, <3>5
  <2>3. QED
    BY <2>2 DEF H
<1>6. i \in 1..5
  BY <1>1, <1>5
<1>7. s \in {<<D!Order[i], p>> : p \in holds(D!Order[i])}
  <2>1. D!Source(digest) = {<<D!Order[i], p>> : p \in holds(D!Order[i])}
    BY DEF D!Source, holds
  <2>2. QED
    BY <2>1
<1> HIDE DEF i
<1>8. PICK p \in holds(D!Order[i]) : s = <<D!Order[i], p>>
  BY <1>7
<1>9. p \in Paths /\ D!Has(D!Order[i], p)
  BY DEF holds
<1>10. D!Order[i] \in D!Kinds
  BY <1>1, <1>6 DEF D!Kinds
<1>11. QED
  BY <1>8, <1>9, <1>10

(* Another input is being copied; files and readers stay what they are.    *)
LEMMA CopiesOn ==
  ASSUME ReadersInv, outcome = "preserving", outcome' = "preserving",
         UNCHANGED <<file, bytes, edits, reader, seen, evidence>>,
         call' \in Copying(Len(bytes)), call'.for \in D!Imports, D!Has(call'.kind, call'.path),
         call'.inode = reader[<<call'.kind, call'.path>>].inode,
         call'.kind = "fits" /\ call'.for = <<"fits", call'.path>> /\ Len(call'.blocks) = 2
           => (call'.blocks[2] = Data(call'.path) => Undone(call'.path))
  PROVE  ReadersInv'
PROOF
<1>1. ~Reading'
  BY DEF Reading
<1>2. Typed'
  BY <1>1 DEF ReadersInv, Typed, Reading, Preserving
<1>3. Apart' /\ Allowed'
  BY <1>1 DEF ReadersInv, Apart, Allowed
<1>4. D!OneReading'
  BY DEF ReadersInv, D!OneReading, D!Has
<1>5. Held'
  BY DEF ReadersInv, Held, D!Has
<1>6. Copied'
  <2>1. D!Imports' = D!Imports
    BY DEF D!Imports, D!Has
  <2>2. D!Has(call.kind, call.path)'
    BY DEF D!Has
  <2>3. QED
    BY <2>1, <2>2 DEF ReadersInv, Copied
<1>7. FitsData'
  <2>1. Undone(call.path)' <=> Undone(call'.path)
    BY DEF Undone, DataSeen, Data
  <2>2. Data(call.path)' = Data(call'.path)
    BY DEF Data
  <2>3. call'.kind = "fits" /\ call'.for = <<"fits", call'.path>> /\ Len(call'.blocks) = 2
          => (call'.blocks[2] = Data(call.path)' => Undone(call.path)')
    BY <2>1, <2>2
  <2>4. \A p \in Paths : Undone(p)' <=> Undone(p)
    BY DEF Undone, DataSeen, Data
  <2>5. \A p \in Paths : evidence[<<"fits", p>>] # None /\ evidence[<<"fits", p>>].from = <<"fits", p>> /\ outcome # "FAIL" => Undone(p)
    BY DEF ReadersInv, FitsData
  <2>6. \A p \in Paths : evidence'[<<"fits", p>>] # None /\ evidence'[<<"fits", p>>].from = <<"fits", p>> /\ outcome' # "FAIL" => Undone(p)'
    BY <2>4, <2>5
  <2>7. \A p \in Paths : (D!Has("fits", p)' <=> D!Has("fits", p)) /\ Now(p)' = Now(p) /\ Data(p)' = Data(p)
    BY DEF D!Has, Now, Data
  <2>8. \A p \in Paths : D!Has("fits", p)' /\ Now(p)' # Data(p)' => edits' >= 1
    BY <2>7 DEF ReadersInv, FitsData
  <2>9. \A s \in DataSeen' : s[4] # Data(s[1])' => edits' >= 1 /\ (Now(s[1])' = Data(s[1])' => edits' >= 2)
    <3>1. DataSeen' = DataSeen /\ \A s \in DataSeen : s[1] \in Paths
      BY DEF ReadersInv, Typed, DataSeen
    <3>2. \A s \in DataSeen : s[4] # Data(s[1]) => edits >= 1 /\ (Now(s[1]) = Data(s[1]) => edits >= 2)
      BY DEF ReadersInv, FitsData
    <3>3. QED
      BY <2>7, <3>1, <3>2
  <2>10. QED
    BY <1>1, <2>3, <2>6, <2>8, <2>9 DEF FitsData
<1>8. Snapshots'
  BY <1>1 DEF ReadersInv, Snapshots, D!Has
<1>9. QED
  BY <1>2, <1>3, <1>4, <1>5, <1>6, <1>7, <1>8 DEF ReadersInv

LEMMA PreserveStep ==
  ASSUME ReadersInv, NEW x \in D!Imports, D!Preserve(x)
  PROVE  ReadersInv'
PROOF
<1>1. outcome = "preserving" /\ outcome' = "preserving" /\ UNCHANGED <<file, bytes, edits, reader, seen, evidence>>
  BY DEF D!Preserve, D!world
<1>2. PICK s \in D!Source(reader[x].digest) :
        call' = [kind |-> s[1], mode |-> reader[s].mode, path |-> s[2], inode |-> reader[s].inode,
                 blocks |-> << >>, cached |-> FALSE, for |-> x]
  BY DEF D!Preserve
<1>3. s[1] \in D!Kinds /\ s[2] \in Paths /\ s = <<s[1], s[2]>> /\ D!Has(s[1], s[2])
  BY SourceFacts
<1>4. reader[s] \in Readers(Len(bytes))
  <2>1. reader[<<s[1], s[2]>>] \in Readers(Len(bytes))
    BY <1>3, ReaderFacts DEF ReadersInv
  <2>2. QED
    BY <1>3, <2>1
<1> DEFINE N == Len(bytes)
<1>5. reader[s].mode \in D!Modes /\ reader[s].inode \in 1..N
  BY <1>4 DEF Readers
<1>6. x \in D!Kinds \X Paths /\ << >> \in Seq(Versions)
  BY DEF D!Imports
<1>7. call' \in Copying(N)
  <2> DEFINE m == reader[s].mode
             i == reader[s].inode
  <2>1. m \in D!Modes /\ i \in 1..N
    BY <1>5
  <2>2. call' = [kind |-> s[1], mode |-> m, path |-> s[2], inode |-> i, blocks |-> << >>, cached |-> FALSE, for |-> x]
    BY <1>2
  <2> HIDE DEF m, i, N
  <2>3. QED
    BY <1>3, <1>6, <2>1, <2>2 DEF Copying
<1>8. /\ call'.for = x /\ call'.kind = s[1] /\ call'.path = s[2] /\ call'.inode = reader[s].inode /\ call'.blocks = << >>
  BY <1>2
<1>9. D!Has(call'.kind, call'.path)
  BY <1>3, <1>8
<1>10. call'.inode = reader[<<call'.kind, call'.path>>].inode
  BY <1>3, <1>8
<1>11. Len(call'.blocks) # 2
  BY <1>8
<1>12. QED
  BY <1>1, <1>7, <1>8, <1>9, <1>10, <1>11, CopiesOn

LEMMA CopyStep ==
  ASSUME ReadersInv, D!Copy
  PROVE  ReadersInv'
PROOF
<1> DEFINE N == Len(bytes)
           b == call.blocks
           n == Len(b) + 1
           r == reader[<<call.kind, call.path>>]
           v == IF call.kind \in {"scan", "fits"} THEN bytes[call.inode] ELSE r.digest[n]
           w == Append(b, v)
<1>1. /\ outcome = "preserving" /\ outcome' = "preserving" /\ UNCHANGED <<file, bytes, edits, reader, seen, evidence>>
      /\ call # None /\ Len(b) < 2 /\ call' = [call EXCEPT !.blocks = Append(@, v)]
  BY DEF D!Copy, D!world
<1>2. call \in Copying(N)
  BY <1>1 DEF ReadersInv, Typed, Preserving
<1>3. /\ b \in Seq(Versions) /\ call.kind \in D!Kinds /\ call.path \in Paths /\ call.inode \in 1..N
      /\ call.mode \in D!Modes /\ call.for \in D!Kinds \X Paths /\ call.cached \in {FALSE}
  BY <1>2 DEF Copying
<1>4. call.for \in D!Imports /\ D!Has(call.kind, call.path) /\ call.inode = r.inode
  BY <1>1 DEF ReadersInv, Copied, Preserving
<1>5. r \in Readers(N)
  BY <1>3, <1>4, ReaderFacts DEF ReadersInv
<1>6. n \in {1, 2}
  BY <1>1, <1>3
<1>7. v \in Versions
  <2>1. r.digest[1] \in Versions /\ r.digest[2] \in Versions
    <3>1. r.digest \in Versions \X Versions
      BY <1>5 DEF Readers
    <3>2. QED
      BY <3>1, TwoBlocks
  <2>2. bytes[call.inode] \in Versions
    BY <1>3 DEF ReadersInv, Typed
  <2> HIDE DEF n, r, N, b
  <2>3. QED
    BY <1>6, <2>1, <2>2
<1>8. w \in Seq(Versions) /\ Len(w) = n /\ w[n] = v
  <2> HIDE DEF v
  <2>1. QED
    BY <1>3, <1>7
<1>9. /\ call'.kind = call.kind /\ call'.path = call.path /\ call'.inode = call.inode /\ call'.for = call.for
      /\ call'.blocks = w
  <2> HIDE DEF v
  <2>1. QED
    BY <1>1, <1>2 DEF Copying
<1>10. call' \in Copying(N)
  <2> HIDE DEF v, N
  <2>1. QED
    BY <1>1, <1>2, <1>3, <1>8 DEF Copying
<1>11. ASSUME call.kind = "fits", Len(w) = 2, w[2] = Data(call.path) PROVE Undone(call.path)
  <2>1. w[2] = bytes[call.inode]
    BY <1>8, <1>11
  <2>2. Now(call.path) = Data(call.path)
    BY <1>4, <1>11, <2>1 DEF Now
  <2>3. QED
    BY <2>2 DEF ReadersInv, FitsData, Undone
<1> HIDE DEF w, r
<1>12. call'.kind = "fits" /\ call'.for = <<"fits", call'.path>> /\ Len(call'.blocks) = 2
           => (call'.blocks[2] = Data(call'.path) => Undone(call'.path))
  BY <1>9, <1>11
<1>13. call'.for \in D!Imports /\ D!Has(call'.kind, call'.path) /\ call'.inode = reader[<<call'.kind, call'.path>>].inode
  BY <1>4, <1>9 DEF r
<1>14. QED
  BY <1>1, <1>10, <1>12, <1>13, CopiesOn

LEMMA CompareStep ==
  ASSUME ReadersInv, D!Compare
  PROVE  ReadersInv'
PROOF
<1> DEFINE x == call.for
           copy == call.blocks
           from == <<call.kind, call.path>>
<1>1. /\ outcome = "preserving" /\ call # None /\ Len(copy) = 2 /\ D!Sealed(x, copy, from) /\ call' = None
      /\ UNCHANGED <<file, bytes, edits, reader, seen>>
  BY DEF D!Compare
<1>2. Preserving /\ call \in Copying(Len(bytes))
  BY <1>1 DEF ReadersInv, Typed, Preserving
<1>3. x \in D!Imports
  BY <1>2 DEF ReadersInv, Copied
<1>4. copy \in Seq(Versions) /\ from \in (D!Kinds \union {"store"}) \X Paths
  BY <1>2 DEF Copying
<1>5. ASSUME x[1] = "fits", from = x, copy = reader[x].digest PROVE Undone(x[2])
  <2>1. call.kind = "fits" /\ call.path = x[2] /\ x = <<"fits", call.path>>
    BY <1>5
  <2>2. copy[2] = Data(call.path)
    BY <1>5, <2>1 DEF Data
  <2>3. QED
    BY <1>1, <1>2, <2>1, <2>2 DEF ReadersInv, FitsData
<1> HIDE DEF x, copy, from
<1>6. QED
  BY <1>1, <1>3, <1>4, <1>5, SealStep

(* Another program changed a file: an inode has another version now, or a  *)
(* path another inode.                                                     *)
InPlace(p, v) == bytes' = [bytes EXCEPT ![file[p]] = v] /\ UNCHANGED file
Replaced(p, v) == bytes' = Append(bytes, v) /\ file' = [file EXCEPT ![p] = Len(bytes')]

LEMMA EditStep ==
  ASSUME ReadersInv, NEW p \in Paths, D!Edit(p)
  PROVE  ReadersInv'
PROOF
<1> DEFINE N == Len(bytes)
           M == Len(bytes')
<1>1. /\ edits' = edits + 1 /\ UNCHANGED <<reader, call, seen, evidence, outcome>>
  BY DEF D!Edit
<1>2. PICK v \in Versions \ {bytes[file[p]]} : InPlace(p, v) \/ Replaced(p, v)
  BY DEF D!Edit, InPlace, Replaced
<1>3. /\ bytes \in Seq(Versions) /\ file \in [Paths -> 1..N] /\ edits \in Nat /\ N \in Nat /\ file[p] \in 1..N
  BY DEF ReadersInv, Typed
<1>4. /\ bytes' \in Seq(Versions) /\ M \in Nat /\ N <= M /\ file' \in [Paths -> 1..M]
      /\ \A q \in Paths \ {p} : file'[q] = file[q]
      /\ \A i \in 1..N : i # file[p] => bytes'[i] = bytes[i]
  <2>1. CASE InPlace(p, v)
    <3>1. bytes' = [bytes EXCEPT ![file[p]] = v] /\ file' = file /\ v \in Versions
      BY <2>1 DEF InPlace
    <3>2. bytes' \in Seq(Versions) /\ M = N /\ \A i \in 1..N : i # file[p] => bytes'[i] = bytes[i]
      BY <1>3, <3>1
    <3> HIDE DEF M, N
    <3>3. QED
      BY <1>3, <3>1, <3>2
  <2>2. CASE Replaced(p, v)
    <3>1. bytes' = Append(bytes, v) /\ file' = [file EXCEPT ![p] = M] /\ v \in Versions
      BY <2>2 DEF Replaced
    <3>2. bytes' \in Seq(Versions) /\ M = N + 1 /\ \A i \in 1..N : bytes'[i] = bytes[i]
      BY <1>3, <3>1
    <3> HIDE DEF M, N
    <3>3. M \in Nat /\ N <= M /\ M \in 1..M /\ \A i \in 1..N : i \in 1..M
      BY <1>3, <3>2
    <3>4. file' \in [Paths -> 1..M] /\ \A q \in Paths \ {p} : file'[q] = file[q]
      BY <1>3, <3>1, <3>3
    <3>5. QED
      BY <3>2, <3>3, <3>4
  <2>3. QED
    BY <1>2, <2>1, <2>2
<1>5. edits' \in Nat /\ edits' >= 1 /\ \A n \in Nat : edits >= n => edits' >= n + 1
  BY <1>1, <1>3
<1>6. (Reading' <=> Reading) /\ (Preserving' <=> Preserving)
  BY <1>1 DEF Reading, Preserving
<1>7. Typed'
  <2> HIDE DEF N, M
  <2>1. \A i \in 1..N : i \in 1..M
    BY <1>3, <1>4
  <2>2. Readers(N) \subseteq Readers(M) /\ Reads(N) \subseteq Reads(M) /\ Copying(N) \subseteq Copying(M)
    <3>1. 1..N \subseteq 1..M
      BY <2>1
    <3>2. Readers(N) \subseteq Readers(M)
      BY <3>1 DEF Readers
    <3>3. Reads(N) \subseteq Reads(M)
      BY <3>1 DEF Reads
    <3>4. Copying(N) \subseteq Copying(M)
      BY <3>1 DEF Copying
    <3>5. QED
      BY <3>2, <3>3, <3>4
  <2>3. reader' \in [Inputs -> Readers(M) \union {None}]
    <3>1. reader \in [Inputs -> Readers(N) \union {None}]
      BY DEF ReadersInv, Typed, N
    <3>2. QED
      BY <1>1, <2>2, <3>1
  <2>4. (Reading => call' \in Reads(M)) /\ (Preserving => call' \in Copying(M))
    <3>1. (Reading => call \in Reads(N)) /\ (Preserving => call \in Copying(N))
      BY DEF ReadersInv, Typed, N
    <3>2. QED
      BY <1>1, <2>2, <3>1
  <2>5. /\ evidence' \in [Inputs -> D!Copies \union {None}]
        /\ \A s \in seen' : s[1] \in Paths /\ s[2] \in D!Kinds
        /\ outcome' \in {"running", "error", "preserving", "PASS", "FAIL"}
        /\ call' # None => Reading \/ Preserving
        /\ outcome' \in {"running", "error"} => \A x \in Inputs : evidence'[x] = None
    BY <1>1 DEF ReadersInv, Typed
  <2>6. QED
    BY <1>4, <1>5, <1>6, <2>3, <2>4, <2>5 DEF Typed, M
<1>8. Apart'
  <2>1. CASE InPlace(p, v)
    BY <2>1 DEF ReadersInv, Apart, InPlace
  <2>2. CASE Replaced(p, v)
    <3>1. file' = [file EXCEPT ![p] = N + 1]
      BY <1>3, <2>2 DEF Replaced
    <3> HIDE DEF N
    <3>2. file'[p] = N + 1 /\ \A q \in Paths \ {p} : file'[q] = file[q] /\ file[q] # N + 1
      BY <1>3, <3>1
    <3>3. QED
      BY <3>2 DEF ReadersInv, Apart
  <2>3. QED
    BY <1>2, <2>1, <2>2
<1>9. Allowed'
  BY <1>1, <1>6 DEF ReadersInv, Allowed, Free, D!Has
<1>10. D!OneReading'
  BY <1>1 DEF ReadersInv, D!OneReading, D!Has
<1>11. Held'
  BY <1>1 DEF ReadersInv, Held, D!Has
<1>12. Copied'
  <2>1. D!Imports' = D!Imports
    BY <1>1 DEF D!Imports, D!Has
  <2>2. QED
    BY <1>1, <1>6, <2>1 DEF ReadersInv, Copied, D!Has
<1>13. FitsData'
  <2>1. DataSeen' = DataSeen /\ \A q \in Paths : Data(q)' = Data(q)
    BY <1>1 DEF DataSeen, Data
  <2>2. \A s \in DataSeen : s[1] \in Paths
    BY DEF ReadersInv, Typed, DataSeen
  <2>3. \A q \in Paths : Undone(q) => Undone(q)'
    <3>1. ASSUME NEW q \in Paths, Undone(q), NEW s \in DataSeen, s[1] = q, s[4] # Data(q) PROVE edits' >= 2
      <4>1. edits >= 2
        BY <3>1 DEF Undone
      <4>2. QED
        BY <1>1, <1>3, <4>1
    <3>2. QED
      BY <2>1, <3>1 DEF Undone
  <2>4. \A s \in DataSeen' : s[4] # Data(s[1])' => edits' >= 2
    <3>1. ASSUME NEW s \in DataSeen, s[4] # Data(s[1]) PROVE edits' >= 2
      <4>1. edits >= 1
        BY <3>1 DEF ReadersInv, FitsData
      <4>2. QED
        BY <1>1, <1>3, <4>1
    <3>2. QED
      BY <2>1, <2>2, <3>1
  <2>5. \A s \in DataSeen' : s[4] # Data(s[1])' => edits' >= 1 /\ (Now(s[1])' = Data(s[1])' => edits' >= 2)
    BY <1>5, <2>4
  <2>6. Preserving' /\ call'.kind = "fits" /\ call'.for = <<"fits", call'.path>> /\ Len(call'.blocks) = 2
          => (call'.blocks[2] = Data(call.path)' => Undone(call.path)')
    <3>1. ASSUME Preserving, call.kind = "fits", call.for = <<"fits", call.path>>, Len(call.blocks) = 2,
                 call.blocks[2] = Data(call.path)
          PROVE  Undone(call.path)'
      <4>1. Undone(call.path)
        BY <3>1 DEF ReadersInv, FitsData
      <4>2. call.path \in Paths /\ call.path = call'.path
        BY <1>1, <3>1 DEF ReadersInv, Typed, Copying
      <4>3. PICK q \in Paths : q = call.path
        BY <4>2
      <4>4. Undone(q)'
        BY <2>3, <4>1, <4>3
      <4>5. q = call'.path
        BY <4>2, <4>3
      <4>6. QED
        BY <4>4, <4>5 DEF Undone
    <3>2. Data(call.path)' = Data(call.path)
      BY <1>1 DEF Data
    <3>3. QED
      BY <1>1, <1>6, <3>1, <3>2
  <2>7. \A q \in Paths : evidence'[<<"fits", q>>] # None /\ evidence'[<<"fits", q>>].from = <<"fits", q>> /\ outcome' # "FAIL"
                           => Undone(q)'
    BY <1>1, <2>3 DEF ReadersInv, FitsData
  <2>8. QED
    BY <1>5, <2>5, <2>6, <2>7 DEF FitsData
<1>14. Snapshots'
  <2>1. ASSUME Reading, call.kind = "batch" PROVE BatchRead(call)'
    <3> DEFINE b == call.blocks
               L == Len(b)
               i == call.inode
               q == call.path
               own == bytes[i]
               current == bytes[file[q]]
               own2 == bytes'[i]
               current2 == bytes'[file'[q]]
    <3>1. BatchRead(call)
      BY <2>1 DEF ReadersInv, Snapshots
    <3>2. i \in 1..N /\ q \in Paths /\ L \in Nat
      BY <2>1 DEF ReadersInv, Typed, Reads
    <3>3. /\ L <= 4
          /\ L = 0 \/ L = 1 => i = file[q] \/ \A c \in Paths : file[c] # i
          /\ L = 1 /\ own # b[1] => edits >= 1 /\ (current = b[1] => edits >= 2)
          /\ L = 2 /\ b[2] # b[1] => edits >= 1 /\ (current = b[1] => edits >= 2)
          /\ L = 3 /\ b[2] # b[1] /\ b[3] = b[1] => edits >= 2 /\ (own # b[3] => edits >= 3)
          /\ L = 4 /\ b[2] # b[1] /\ b[3] = b[1] /\ b[4] = b[2] => edits >= 3
      BY <3>1 DEF BatchRead
    <3>4. \A c, d \in Paths : file[c] = file[d] => c = d
      BY DEF ReadersInv, Apart
    <3> HIDE DEF N, M, L, b, i, q
    <3>5. i = file[q] \/ (\A c \in Paths : file[c] # i) => i = file'[q] \/ \A c \in Paths : file'[c] # i
      <4>1. CASE InPlace(p, v)
        BY <4>1 DEF InPlace
      <4>2. CASE Replaced(p, v)
        <5>1. file' = [file EXCEPT ![p] = N + 1]
          BY <1>3, <4>2 DEF Replaced, N
        <5>2. file'[p] = N + 1 /\ N + 1 # i
          BY <1>3, <3>2, <5>1
        <5>3. QED
          BY <1>4, <3>2, <3>4, <5>2
      <4>3. QED
        BY <1>2, <4>1, <4>2
    <3>6. L = 1 /\ own2 # b[1] => edits' >= 1 /\ (current2 = b[1] => edits' >= 2)
      <4>1. CASE own # b[1]
        BY <1>1, <1>3, <3>3, <4>1
      <4>2. CASE own = b[1] /\ own2 # b[1] /\ L = 1
        <5>1. i = file[p]
          BY <1>4, <3>2, <4>2
        <5>2. q = p
          BY <3>2, <3>3, <3>4, <4>2, <5>1
        <5>3. CASE InPlace(p, v)
          <6>1. current2 = own2
            BY <5>1, <5>2, <5>3 DEF InPlace
          <6>2. QED
            BY <1>5, <4>2, <6>1
        <5>4. CASE Replaced(p, v)
          <6>1. own2 = own
            BY <1>3, <3>2, <5>4 DEF Replaced, N
          <6>2. QED
            BY <4>2, <6>1
        <5>5. QED
          BY <1>2, <5>3, <5>4
      <4>3. QED
        BY <4>1, <4>2
    <3>7. L = 2 /\ b[2] # b[1] => edits' >= 1 /\ (current2 = b[1] => edits' >= 2)
      BY <1>1, <1>3, <3>3
    <3>8. L = 3 /\ b[2] # b[1] /\ b[3] = b[1] => edits' >= 2 /\ (own2 # b[3] => edits' >= 3)
      BY <1>1, <1>3, <3>3
    <3>9. L = 4 /\ b[2] # b[1] /\ b[3] = b[1] /\ b[4] = b[2] => edits' >= 3
      BY <1>1, <1>3, <3>3
    <3>10. QED
      BY <1>1, <3>3, <3>5, <3>6, <3>7, <3>8, <3>9 DEF BatchRead, L, b, i, q
  <2>2. ASSUME NEW q \in Paths, D!Has("batch", q), reader[<<"batch", q>>].digest[1] # reader[<<"batch", q>>].digest[2]
        PROVE  edits' >= 3
    <3>1. edits >= 3
      BY <2>2 DEF ReadersInv, Snapshots
    <3>2. QED
      BY <1>1, <1>3, <3>1
  <2>3. QED
    BY <1>1, <1>6, <2>1, <2>2 DEF Snapshots, D!Has
<1>15. QED
  BY <1>7, <1>8, <1>9, <1>10, <1>11, <1>12, <1>13, <1>14 DEF ReadersInv

LEMMA ReadersStep ==
  ASSUME ReadersInv, D!Next
  PROVE  ReadersInv'
PROOF
<1>1. CASE \E f \in D!Functions, p \in Paths : D!Call(f[1], f[2], p)
  BY <1>1, CallStep
<1>2. CASE outcome = "running" /\ D!Read
  BY <1>2, ReadStep
<1>3. CASE D!Open
  BY <1>3, OpenStep
<1>4. CASE D!Reuse
  BY <1>4, ReuseStep
<1>5. CASE D!ReadError
  BY <1>5, ReadErrorStep
<1>6. CASE (\E name \in {"table", "figure.plot.json"} : D!AddOutput(name)) \/ D!Plot \/ D!OpenStream("table")
  BY <1>6, NameStep
<1>7. CASE D!End
  BY <1>7, EndStep
<1>8. CASE \E x \in D!Imports : D!Link(x) \/ D!Preserve(x)
  BY <1>8, LinkStep, PreserveStep
<1>9. CASE D!Copy
  BY <1>9, CopyStep
<1>10. CASE D!Compare
  BY <1>10, CompareStep
<1>11. CASE \E p \in Paths : D!Edit(p)
  BY <1>11, EditStep
<1>12. QED
  BY <1>1, <1>2, <1>3, <1>4, <1>5, <1>6, <1>7, <1>8, <1>9, <1>10, <1>11 DEF D!Next

LEMMA ReadersStutter ==
  ASSUME ReadersInv, UNCHANGED access
  PROVE  ReadersInv'
PROOF
<1>1. UNCHANGED <<file, bytes, edits, reader, call, seen, evidence, outcome>>
  BY DEF access
<1>2. Typed' /\ Apart'
  BY <1>1 DEF ReadersInv, Typed, Apart, Reading, Preserving
<1>3. Allowed' /\ D!OneReading' /\ Held' /\ Snapshots'
  <2>1. Allowed'
    BY <1>1 DEF ReadersInv, Allowed, Reading, Free, D!Has
  <2>2. D!OneReading' /\ Held'
    BY <1>1 DEF ReadersInv, D!OneReading, Held, D!Has
  <2>3. Snapshots'
    BY <1>1 DEF ReadersInv, Snapshots, Reading, BatchRead, D!Has
  <2>4. QED
    BY <2>1, <2>2, <2>3
<1>4. Copied'
  BY <1>1 DEF ReadersInv, Copied, Preserving, D!Imports, D!Has
<1>5. FitsData'
  BY <1>1 DEF ReadersInv, FitsData, Reading, Preserving, Undone, Data, Now, DataSeen, D!Has
<1>6. QED
  BY <1>2, <1>3, <1>4, <1>5 DEF ReadersInv

LEMMA ReadersInit ==
  ASSUME D!Init
  PROVE  ReadersInv
PROOF
<1> DEFINE n == D!Cardinality(Paths)
<1>1. n \in Nat
  BY Constants
<1>2. PICK v \in Versions : bytes = [i \in 1..n |-> v]
  BY DEF D!Init
<1> HIDE DEF n
<1>3. bytes \in Seq(Versions) /\ Len(bytes) = n
  BY <1>1, <1>2
<1>4. /\ file \in [Paths -> 1..n] /\ (\A p, q \in Paths : file[p] = file[q] => p = q)
      /\ edits = 0 /\ call = None /\ seen = {} /\ outcome = "running"
      /\ reader = [x \in D!Kinds \X Paths |-> None] /\ evidence = [x \in D!Kinds \X Paths |-> None]
  BY DEF D!Init, n
<1>5. ~Reading /\ ~Preserving /\ \A k \in D!Kinds, p \in Paths : ~D!Has(k, p) /\ evidence[<<k, p>>] = None
  BY <1>4 DEF Reading, Preserving, D!Has
<1>6. Typed
  <2>1. reader \in [Inputs -> Readers(Len(bytes)) \union {None}] /\ evidence \in [Inputs -> D!Copies \union {None}]
    BY <1>4 DEF Inputs
  <2>2. \A x \in Inputs : evidence[x] = None
    BY <1>4 DEF Inputs
  <2>3. QED
    BY <1>3, <1>4, <1>5, <2>1, <2>2 DEF Typed
<1>7. Apart /\ Allowed /\ Held
  BY <1>4, <1>5 DEF Apart, Allowed, Held
<1>8. {"table", "scan", "batch", "scientific", "fits"} \subseteq D!Kinds
  BY DEF D!Kinds
<1>9. D!OneReading
  BY <1>5, <1>8 DEF D!OneReading
<1>10. Copied
  BY <1>4, <1>5 DEF Copied, Inputs
<1>11. FitsData
  BY <1>4, <1>5, <1>8 DEF FitsData, DataSeen
<1>12. Snapshots
  BY <1>4, <1>5, <1>8 DEF Snapshots
<1>13. QED
  BY <1>6, <1>7, <1>9, <1>10, <1>11, <1>12 DEF ReadersInv

(* The invariant of the readers, in every behaviour of the module.         *)
LEMMA ReadersAlways == MCSpec => [](what = "readers" => ReadersInv)
PROOF
<1> DEFINE I == what = "readers" => ReadersInv
<1>1. MCInit => I
  BY ReadersInit DEF MCInit
<1>2. I /\ [MCNext]_all => I'
  <2>1. ASSUME I, MCNext PROVE I'
    BY <2>1, ReadersStep DEF MCNext
  <2>2. ASSUME I, UNCHANGED all PROVE I'
    BY <2>2, ReadersStutter DEF all
  <2>3. QED
    BY <2>1, <2>2
<1>3. QED
  BY <1>1, <1>2, PTL DEF MCSpec

-----------------------------------------------------------------------------
LEMMA EvidenceOfReads ==
  ASSUME ReadersInv
  PROVE  D!ReadsAreEvidence /\ D!FitsDataIsEvidence
PROOF
<1>1. ASSUME outcome = "PASS", NEW s \in seen, D!Kept(s[2], s[1]) # None => D!Kept(s[2], s[1]).blocks[s[3]] = s[4]
      PROVE  D!InEvidence(s)
  <2> DEFINE k == s[2]
             p == s[1]
  <2>1. k \in D!Kinds /\ p \in Paths /\ D!Has(k, p)
    BY DEF ReadersInv, Typed, Held
  <2>2. CASE k = "table" /\ D!Has("scan", p)
    <3>1. <<"scan", p>> \in D!Imports
      BY <2>1, <2>2 DEF D!Imports, D!Kinds
    <3>2. D!Kept(k, p) # None
      BY <1>1, <2>2, <3>1 DEF ReadersInv, Copied, D!Kept
    <3>3. QED
      BY <1>1, <3>2 DEF D!InEvidence
  <2>3. CASE ~(k = "table" /\ D!Has("scan", p))
    <3>1. <<k, p>> \in D!Imports
      BY <2>1, <2>3 DEF D!Imports
    <3>2. D!Kept(k, p) # None
      <4>1. D!Kept(k, p) = evidence[<<k, p>>]
        BY <2>3 DEF D!Kept
      <4>2. QED
        BY <1>1, <3>1, <4>1 DEF ReadersInv, Copied
    <3>3. QED
      BY <1>1, <3>2 DEF D!InEvidence
  <2>4. QED
    BY <2>2, <2>3
<1>2. ASSUME outcome = "PASS", NEW s \in seen, s[2] # "fits" PROVE D!InEvidence(s)
  <2> DEFINE k == s[2]
             p == s[1]
  <2>1. k \in D!Kinds /\ p \in Paths /\ D!Has(k, p) /\ reader[<<k, p>>].digest[s[3]] = s[4]
    BY <1>2 DEF ReadersInv, Typed, Held
  <2>2. CASE k = "table" /\ D!Has("scan", p) /\ evidence[<<"scan", p>>] # None
    <3>1. reader[<<"table", p>>].digest = reader[<<"scan", p>>].digest
      BY <1>2, <2>1, <2>2 DEF ReadersInv, D!OneReading
    <3>2. evidence[<<"scan", p>>].blocks = reader[<<"scan", p>>].digest
      BY <1>2, <2>1, <2>2 DEF ReadersInv, Copied, Inputs, D!Kinds
    <3>3. D!Kept(k, p) = evidence[<<"scan", p>>]
      BY <2>2 DEF D!Kept
    <3>4. D!Kept(k, p).blocks[s[3]] = s[4]
      BY <2>1, <2>2, <3>1, <3>2, <3>3
    <3>5. QED
      BY <1>1, <1>2, <3>4
  <2>3. CASE ~(k = "table" /\ D!Has("scan", p)) /\ evidence[<<k, p>>] # None
    <3>1. evidence[<<k, p>>].blocks = reader[<<k, p>>].digest
      BY <1>2, <2>1, <2>3 DEF ReadersInv, Copied, Inputs
    <3>2. D!Kept(k, p) = evidence[<<k, p>>]
      BY <2>3 DEF D!Kept
    <3>3. D!Kept(k, p).blocks[s[3]] = s[4]
      BY <2>1, <3>1, <3>2
    <3>4. QED
      BY <1>1, <1>2, <3>3
  <2>4. CASE D!Kept(k, p) = None
    BY <1>1, <1>2, <2>4
  <2>5. QED
    BY <2>2, <2>3, <2>4 DEF D!Kept
<1>3. ASSUME outcome = "PASS", edits <= 1, NEW s \in seen, s[2] = "fits", s[3] = 2, D!Kept("fits", s[1]).from = <<"fits", s[1]>>
      PROVE  D!InEvidence(s)
  <2> DEFINE p == s[1]
  <2>1. p \in Paths /\ <<"fits", p>> \in Inputs /\ D!Kept("fits", p) = evidence[<<"fits", p>>]
    BY DEF ReadersInv, Typed, Inputs, D!Kinds, D!Kept
  <2>2. CASE evidence[<<"fits", p>>] # None
    <3>1. evidence[<<"fits", p>>].blocks[2] = Data(p)
      BY <1>3, <2>1, <2>2 DEF ReadersInv, Copied, Data
    <3>2. Undone(p)
      BY <1>3, <2>1, <2>2 DEF ReadersInv, FitsData
    <3>3. s \in DataSeen /\ edits \in Nat
      BY <1>3 DEF DataSeen, ReadersInv, Typed
    <3>4. s[4] = Data(p)
      BY <1>3, <3>2, <3>3 DEF Undone
    <3>5. QED
      BY <1>1, <1>3, <2>1, <3>1, <3>4
  <2>3. CASE evidence[<<"fits", p>>] = None
    BY <1>1, <1>3, <2>1, <2>3
  <2>4. QED
    BY <2>2, <2>3
<1>4. QED
  BY <1>2, <1>3 DEF D!ReadsAreEvidence, D!FitsDataIsEvidence

(* In a run that passes, what the program was given of its inputs is in    *)
(* the evidence: by the readers that keep what they read always, of the    *)
(* data of a FITS file if its copy was made from the file that was open    *)
(* and no change was undone (copy_data_evidence, Order and Compare).       *)
THEOREM SpecReadsAreEvidence == MCSpec => []ReadsAreEvidence
PROOF
<1>1. (what = "readers" => ReadersInv) => ReadsAreEvidence
  BY EvidenceOfReads DEF ReadsAreEvidence
<1>2. QED
  BY <1>1, ReadersAlways, PTL

(* While a run goes on all that reads a path has one reading of it, and a  *)
(* batch snapshot is a state of the file unless it was changed three times *)
(* while it was made (eval_streaming_call, load_table, Inputs::call).      *)
THEOREM SpecOneReading == MCSpec => []OneReading
PROOF
<1>1. ReadersInv => D!SnapshotsAreWhole
  <2>1. ASSUME ReadersInv, edits <= 2, NEW p \in Paths, D!Has("batch", p),
               reader[<<"batch", p>>].digest[1] # reader[<<"batch", p>>].digest[2]
        PROVE  FALSE
    <3>1. edits >= 3 /\ edits \in Nat
      BY <2>1 DEF ReadersInv, Snapshots, Typed
    <3>2. QED
      BY <2>1, <3>1
  <2>2. QED
    BY <2>1 DEF D!SnapshotsAreWhole
<1>2. (what = "readers" => ReadersInv) => OneReading
  BY <1>1 DEF OneReading, ReadersInv
<1>3. QED
  BY <1>2, ReadersAlways, PTL

-----------------------------------------------------------------------------
(* The libraries of a program.  Sequences and functions of whatever values. *)
IsSeq(s) == s \in Seq(Lib!ToSet(s))
IsFun(f) == f = [x \in DOMAIN f |-> f[x]]
Extends(f, g) == DOMAIN f \subseteq DOMAIN g /\ \A p \in DOMAIN f : g[p] = f[p]

(* The calls of visit: the source, and under it libraries that are being   *)
(* expanded, each at the import that names the next.                       *)
Calls ==
  /\ IsSeq(stack) /\ Len(stack) >= 1
  /\ \A i \in 1..Len(stack) :
       /\ stack[i] = [of |-> stack[i].of, text |-> stack[i].text, next |-> stack[i].next]
       /\ Lib!IsProgram(stack[i].text) /\ stack[i].next \in 1..(Len(stack[i].text) + 1)
       /\ i > 1 => stack[i].of \in visited /\ stack[i].text = read[stack[i].of]
  /\ stack[1].of = Lib!Root /\ stack[1].text = main
  /\ \A i, j \in 1..Len(stack) : stack[i].of = stack[j].of => i = j
  /\ \A i \in 1..Len(stack) : i < Len(stack) =>
       /\ stack[i].next > 1 /\ stack[i].text[stack[i].next - 1].k = "import"
       /\ Lib!Beside(stack[i].of, stack[i].text[stack[i].next - 1]) = stack[i + 1].of
ReadSoFar ==
  /\ DOMAIN read = visited /\ Lib!IsProject(read) /\ IsFun(read) /\ Cardinality(visited) <= MaxModules
  /\ \A p \in visited : Lib!Library(read[p])
Finished == visited \ Lib!Active

(* What is met is reached: from the source, and a call from all above it.  *)
MetIsReached ==
  /\ visited \subseteq Lib!Reached(Lib!Targets(main, Lib!Root), read)
  /\ \A i, j \in 1..Len(stack) : i < j => stack[j].of \in Lib!Reached(Lib!Targets(stack[i].text, stack[i].of), read)
(* What is behind is finished, and what a finished library reaches too,    *)
(* without itself.                                                         *)
BehindIsFinished ==
  \A i \in 1..Len(stack) : \A m \in 1..Len(stack[i].text) :
    m < stack[i].next /\ stack[i].text[m].k = "import" =>
      Lib!Beside(stack[i].of, stack[i].text[m]) \in Finished \/ (i < Len(stack) /\ m = stack[i].next - 1)
FinishedIsClosed == \A p \in Finished : Lib!Targets(read[p], p) \subseteq Finished
FinishedIsAcyclic ==
  \A p \in Finished : \E X \in SUBSET Finished : Lib!Closed(X, read) /\ Lib!Targets(read[p], p) \subseteq X /\ p \notin X
(* The statements behind, and no others, are in the program, once.         *)
Behind(of, at, frames, libraries, finished) ==
  \/ of \in finished /\ at \in DOMAIN libraries[of] /\ libraries[of][at].k # "import"
  \/ \E i \in 1..Len(frames) :
       of = frames[i].of /\ at \in DOMAIN frames[i].text /\ at < frames[i].next /\ frames[i].text[at].k # "import"
Expanded ==
  /\ IsSeq(out) /\ \A m, n \in 1..Len(out) : out[m] = out[n] => m = n
  /\ \A n \in 1..Len(out) : out[n] = [of |-> out[n].of, at |-> out[n].at] /\ Behind(out[n].of, out[n].at, stack, read, Finished)
  /\ \A of, at : Behind(of, at, stack, read, Finished) => \E n \in 1..Len(out) : out[n] = [of |-> of, at |-> at]
Walk == Calls /\ ReadSoFar /\ MetIsReached /\ BehindIsFinished /\ FinishedIsClosed /\ FinishedIsAcyclic /\ Expanded

(* The order of a program.  What visit does next is determined by its      *)
(* calls and the libraries it reads from.                                  *)
Here == [calls |-> stack, met |-> visited, out |-> out]
Beginning(program) == [calls |-> <<Lib!Call(Lib!Root, program)>>, met |-> {}, out |-> << >>]
Innermost(c) == c.calls[Len(c.calls)]
Ended(c) == Len(c.calls) = 1 /\ ~(Innermost(c).next <= Len(Innermost(c).text))
Ahead(c) == [c.calls EXCEPT ![Len(c.calls)].next = @ + 1]
NextStatement(c) == Innermost(c).text[Innermost(c).next]
Named(c) == Lib!Beside(Innermost(c).of, NextStatement(c))
After(c, libraries) ==
  IF ~(Innermost(c).next <= Len(Innermost(c).text)) THEN [calls |-> Lib!Front(c.calls), met |-> c.met, out |-> c.out]
  ELSE IF NextStatement(c).k # "import" THEN [calls |-> Ahead(c), met |-> c.met, out |-> Append(c.out, [of |-> Innermost(c).of, at |-> Innermost(c).next])]
  ELSE IF Named(c) \in c.met THEN [calls |-> Ahead(c), met |-> c.met, out |-> c.out]
  ELSE [calls |-> Append(Ahead(c), Lib!Call(Named(c), libraries[Named(c)])), met |-> c.met \union {Named(c)}, out |-> c.out]
Goes(c, d, libraries) ==
  /\ ~Ended(c)
  /\ Innermost(c).next <= Len(Innermost(c).text) /\ NextStatement(c).k = "import" /\ Named(c) \notin c.met => Named(c) \in DOMAIN libraries
  /\ d = After(c, libraries)
Walks(T, n, program, libraries) ==
  n \in Nat /\ n >= 1 /\ T[1] = Beginning(program) /\ \A i \in 1..n : i < n => Goes(T[i], T[i + 1], libraries)
WalksTo(c, program, libraries) == \E T, n : Walks(T, n, program, libraries) /\ T[n] = c
Makes(T, n, program, resolved) ==
  Walks(T, n, program, resolved.imports) /\ Ended(T[n]) /\ T[n].out = resolved.out

(* The program and all there is to read are programs and projects.  What   *)
(* is refused cannot be resolved; what was resolved is what the program    *)
(* reaches; the evidence is walked through as the libraries were.          *)
Readable == Lib!IsProgram(main) /\ Lib!IsProject(disk) /\ Lib!IsProject(entries) /\ IsFun(entries)
Walking == Lib!Resolving => Walk
NotResolved == state = "refused" => ~Lib!Resolvable(main, read)
Orderly == state = "resolving" => WalksTo(Here, main, read)
Resolved ==
  state \in {"resolved", "kept", "verifying", "verified", "rejected"} =>
    /\ Lib!IsProject(first.imports) /\ IsFun(first.imports) /\ Lib!Exactly(main, first.imports)
    /\ Lib!EachOnce(first.out, Lib!Kept(main, first.imports)) /\ \E T, n : Makes(T, n, main, first)
Verifying ==
  state = "verifying" =>
    /\ Extends(read, entries) /\ Lib!ObjectsThere
    /\ entries = first.imports => \E T, n : Makes(T, n, main, first) /\ \E k \in 1..n : T[k] = Here
Verified ==
  state = "verified" =>
    /\ Lib!ObjectsThere /\ Lib!Exactly(main, entries) /\ Lib!EachOnce(out, Lib!Kept(main, entries))
    /\ entries = first.imports => out = first.out
Rejected == state = "rejected" => ~(Lib!ObjectsThere /\ Lib!Exactly(main, entries))
States == state \in {"resolving", "resolved", "refused", "kept", "verifying", "verified", "rejected"}
LibrariesInv == States /\ Readable /\ Walking /\ NotResolved /\ Orderly /\ Resolved /\ Verifying /\ Verified /\ Rejected

-----------------------------------------------------------------------------
LEMMA SequenceIs ==
  ASSUME NEW s, NEW S, s \in Seq(S)
  PROVE  IsSeq(s) /\ Len(s) \in Nat /\ DOMAIN s = 1..Len(s)
PROOF
<1>1. Len(s) \in Nat /\ DOMAIN s = 1..Len(s) /\ s \in [1..Len(s) -> S]
  OBVIOUS
<1>2. s \in [1..Len(s) -> Lib!ToSet(s)]
  BY <1>1 DEF Lib!ToSet
<1>3. QED
  BY <1>1, <1>2 DEF IsSeq

LEMMA SequenceOf ==
  ASSUME NEW s, IsSeq(s)
  PROVE  Len(s) \in Nat /\ DOMAIN s = 1..Len(s) /\ \A i \in 1..Len(s) : s[i] \in Lib!ToSet(s)
PROOF
<1>1. s \in Seq(Lib!ToSet(s))
  BY DEF IsSeq
<1> DEFINE S == Lib!ToSet(s)
<1>2. s \in Seq(S)
  BY <1>1
<1> HIDE DEF S
<1>3. Len(s) \in Nat /\ DOMAIN s = 1..Len(s) /\ \A i \in 1..Len(s) : s[i] \in S
  BY <1>2
<1>4. QED
  BY <1>3 DEF S

LEMMA SequenceAppend ==
  ASSUME NEW s, IsSeq(s), NEW x
  PROVE  /\ IsSeq(Append(s, x)) /\ Len(Append(s, x)) = Len(s) + 1
         /\ \A i \in 1..Len(s) : Append(s, x)[i] = s[i]
         /\ Append(s, x)[Len(s) + 1] = x
PROOF
<1> DEFINE S == Lib!ToSet(s) \union {x}
<1>1. s \in Seq(Lib!ToSet(s))
  BY DEF IsSeq
<1>2. s \in Seq(S)
  BY <1>1, SequenceOf
<1> HIDE DEF S
<1>3. x \in S
  BY DEF S
<1>4. Append(s, x) \in Seq(S) /\ Len(Append(s, x)) = Len(s) + 1 /\ \A i \in 1..Len(s) : Append(s, x)[i] = s[i]
  BY <1>2, <1>3
<1>5. Append(s, x)[Len(s) + 1] = x
  BY <1>2, <1>3
<1>6. QED
  BY <1>4, <1>5, SequenceIs

LEMMA Finite ==
  ASSUME NEW S
  PROVE  (Lib!IsFiniteSet(S) <=> IsFiniteSet(S)) /\ Lib!Cardinality(S) = Cardinality(S)
PROOF
<1>1. Lib!IsFiniteSet(S) <=> IsFiniteSet(S)
  BY DEF Lib!IsFiniteSet, IsFiniteSet
<1>2. Lib!Cardinality(S) = Cardinality(S)
  BY DEF Lib!Cardinality, Cardinality
<1>3. QED
  BY <1>1, <1>2

LEMMA SequenceFront ==
  ASSUME NEW s, IsSeq(s), Len(s) >= 1
  PROVE  /\ IsSeq(Lib!Front(s)) /\ Len(Lib!Front(s)) = Len(s) - 1
         /\ \A i \in 1..(Len(s) - 1) : Lib!Front(s)[i] = s[i]
PROOF
<1> DEFINE S == Lib!ToSet(s)
<1>1. s \in Seq(S)
  BY DEF IsSeq
<1> HIDE DEF S
<1>2. Len(s) \in Nat /\ Len(s) - 1 \in Nat
  BY <1>1
<1> DEFINE m == Len(s) - 1
<1>3. m \in 0..Len(s)
  BY <1>2
<1> HIDE DEF m
<1>4. SubSeq(s, 1, m) \in Seq(S) /\ Len(SubSeq(s, 1, m)) = m
  BY <1>1, <1>3
<1>5. \A i \in 1..m : SubSeq(s, 1, m)[i] = s[i]
  BY <1>1, <1>3
<1>6. Lib!Front(s) = SubSeq(s, 1, m)
  BY DEF Lib!Front, m
<1>7. IsSeq(Lib!Front(s)) /\ Len(Lib!Front(s)) = m
  BY <1>4, <1>6, SequenceIs
<1>8. QED
  BY <1>5, <1>6, <1>7 DEF m

LEMMA SequenceExcept ==
  ASSUME NEW s, IsSeq(s), NEW k \in 1..Len(s), NEW x
  PROVE  /\ IsSeq([s EXCEPT ![k] = x]) /\ Len([s EXCEPT ![k] = x]) = Len(s)
         /\ [s EXCEPT ![k] = x][k] = x
         /\ \A i \in 1..Len(s) : i # k => [s EXCEPT ![k] = x][i] = s[i]
PROOF
<1> DEFINE S == Lib!ToSet(s) \union {x}
           t == [s EXCEPT ![k] = x]
<1>1. s \in Seq(S) /\ Len(s) \in Nat /\ DOMAIN s = 1..Len(s) /\ \A i \in 1..Len(s) : s[i] \in S
  BY SequenceOf DEF IsSeq
<1>2. s \in [1..Len(s) -> S] /\ x \in S
  BY <1>1
<1>3. t \in [1..Len(s) -> S]
  BY <1>2
<1>4. t \in Seq(S) /\ Len(t) = Len(s)
  BY <1>1, <1>3
<1>5. t[k] = x /\ \A i \in 1..Len(s) : i # k => t[i] = s[i]
  BY <1>1
<1>6. IsSeq(t)
  BY <1>4, SequenceIs
<1>7. QED
  BY <1>4, <1>5, <1>6

LEMMA EmptySequence == IsSeq(<< >>) /\ Len(<< >>) = 0
PROOF
<1>1. << >> \in Seq({})
  OBVIOUS
<1>2. QED
  BY <1>1, SequenceIs

LEMMA SingleSequence == ASSUME NEW x PROVE IsSeq(<<x>>) /\ Len(<<x>>) = 1 /\ <<x>>[1] = x
PROOF
<1>1. <<x>> \in Seq({x})
  OBVIOUS
<1>2. QED
  BY <1>1, SequenceIs

LEMMA EmptyFunction == IsFun(<< >>) /\ DOMAIN << >> = {}
PROOF
  BY DEF IsFun

LEMMA SameFunction ==
  ASSUME NEW f, NEW g, IsFun(f), IsFun(g), DOMAIN f = DOMAIN g, \A x \in DOMAIN f : f[x] = g[x]
  PROVE  f = g
PROOF
<1>1. [x \in DOMAIN f |-> f[x]] = [x \in DOMAIN g |-> g[x]]
  OBVIOUS
<1>2. QED
  BY <1>1 DEF IsFun

LEMMA PutIs ==
  ASSUME NEW f, NEW p, NEW x
  PROVE  /\ IsFun(Lib!Put(f, p, x)) /\ DOMAIN Lib!Put(f, p, x) = DOMAIN f \union {p}
         /\ Lib!Put(f, p, x)[p] = x /\ \A q \in DOMAIN f : q # p => Lib!Put(f, p, x)[q] = f[q]
PROOF
  BY DEF Lib!Put, IsFun

LEMMA CutIs ==
  ASSUME NEW f, NEW p
  PROVE  /\ IsFun(Lib!Cut(f, p)) /\ DOMAIN Lib!Cut(f, p) = DOMAIN f \ {p}
         /\ \A q \in DOMAIN f : q # p => Lib!Cut(f, p)[q] = f[q]
PROOF
  BY DEF Lib!Cut, IsFun

(* A program is a sequence of statements.                                  *)
LEMMA ProgramIs ==
  ASSUME NEW t, Lib!IsProgram(t)
  PROVE  /\ IsSeq(t) /\ Len(t) \in Nat /\ DOMAIN t = 1..Len(t)
         /\ \A i \in 1..Len(t) : t[i].k \in {"import", "g_func", "statement"}
PROOF
<1>1. IsSeq(t) /\ \A i \in DOMAIN t : t[i].k \in {"import", "g_func", "statement"}
  BY DEF Lib!IsProgram, IsSeq
<1>2. QED
  BY <1>1, SequenceOf

LEMMA ProjectPut ==
  ASSUME NEW d, Lib!IsProject(d), NEW p \in Lib!LibraryPaths, NEW t, Lib!IsProgram(t)
  PROVE  Lib!IsProject(Lib!Put(d, p, t))
PROOF
<1>1. Lib!IsFiniteSet(DOMAIN d \union {p})
  BY Finite, FS_AddElement DEF Lib!IsProject
<1> DEFINE e == Lib!Put(d, p, t)
<1>2. DOMAIN e = DOMAIN d \union {p} /\ e[p] = t /\ \A q \in DOMAIN d : q # p => e[q] = d[q]
  BY DEF Lib!Put
<1> HIDE DEF e
<1>3. \A q \in DOMAIN e : Lib!IsProgram(e[q])
  BY <1>2 DEF Lib!IsProject
<1>4. DOMAIN e \subseteq Lib!LibraryPaths
  BY <1>2 DEF Lib!IsProject
<1>5. Lib!IsFiniteSet(DOMAIN e)
  BY <1>1, <1>2
<1>6. Lib!IsProject(e)
  BY <1>3, <1>4, <1>5 DEF Lib!IsProject
<1>7. QED
  BY <1>6 DEF e

LEMMA ProjectCut ==
  ASSUME NEW d, Lib!IsProject(d), NEW p
  PROVE  Lib!IsProject(Lib!Cut(d, p))
PROOF
<1>1. Lib!IsFiniteSet(DOMAIN d \ {p})
  BY Finite, FS_Subset DEF Lib!IsProject
<1> DEFINE e == Lib!Cut(d, p)
<1>2. DOMAIN e = DOMAIN d \ {p} /\ \A q \in DOMAIN d : q # p => e[q] = d[q]
  BY CutIs
<1> HIDE DEF e
<1>3. \A q \in DOMAIN e : Lib!IsProgram(e[q])
  BY <1>2 DEF Lib!IsProject
<1>4. DOMAIN e \subseteq Lib!LibraryPaths
  BY <1>2 DEF Lib!IsProject
<1>5. Lib!IsFiniteSet(DOMAIN e)
  BY <1>1, <1>2
<1>6. Lib!IsProject(e)
  BY <1>3, <1>4, <1>5 DEF Lib!IsProject
<1>7. QED
  BY <1>6 DEF e

-----------------------------------------------------------------------------
(* What is reached: the least closed set that has the imports.             *)
LEMMA ReachedHas ==
  ASSUME NEW from, NEW f
  PROVE  from \subseteq Lib!Reached(from, f) /\ Lib!Closed(Lib!Reached(from, f), f)
PROOF
<1> DEFINE every == from \union UNION {Lib!Targets(f[p], p) : p \in DOMAIN f}
<1>1. Lib!Reached(from, f) = {p \in every : \A X \in SUBSET every : from \subseteq X /\ Lib!Closed(X, f) => p \in X}
  BY DEF Lib!Reached
<1>2. from \subseteq Lib!Reached(from, f)
  BY <1>1
<1>3. ASSUME NEW p \in Lib!Reached(from, f) \intersect DOMAIN f, NEW q \in Lib!Targets(f[p], p)
      PROVE  q \in Lib!Reached(from, f)
  <2>1. q \in every
    OBVIOUS
  <2>2. ASSUME NEW X \in SUBSET every, from \subseteq X, Lib!Closed(X, f)
        PROVE  q \in X
    <3>1. p \in X
      BY <1>1, <2>2
    <3>2. QED
      BY <3>1, <2>2 DEF Lib!Closed
  <2>3. QED
    BY <1>1, <2>1, <2>2
<1>4. QED
  BY <1>2, <1>3 DEF Lib!Closed

LEMMA ReachedLeast ==
  ASSUME NEW from, NEW f, NEW X, from \subseteq X, Lib!Closed(X, f)
  PROVE  Lib!Reached(from, f) \subseteq X
PROOF
<1> DEFINE every == from \union UNION {Lib!Targets(f[p], p) : p \in DOMAIN f}
<1>1. Lib!Reached(from, f) = {p \in every : \A Y \in SUBSET every : from \subseteq Y /\ Lib!Closed(Y, f) => p \in Y}
  BY DEF Lib!Reached
<1>2. Lib!Closed(X \intersect every, f)
  <2>1. ASSUME NEW p \in X \intersect every \intersect DOMAIN f PROVE Lib!Targets(f[p], p) \subseteq X \intersect every
    BY DEF Lib!Closed
  <2>2. QED
    BY <2>1 DEF Lib!Closed
<1>3. from \subseteq X \intersect every /\ X \intersect every \in SUBSET every
  OBVIOUS
<1>4. QED
  BY <1>1, <1>2, <1>3

LEMMA ReachedGrows ==
  ASSUME NEW from, NEW f, NEW g, Extends(f, g)
  PROVE  Lib!Reached(from, f) \subseteq Lib!Reached(from, g)
PROOF
<1>1. from \subseteq Lib!Reached(from, g) /\ Lib!Closed(Lib!Reached(from, g), g)
  BY ReachedHas
<1>2. Lib!Closed(Lib!Reached(from, g), f)
  BY <1>1 DEF Lib!Closed, Extends
<1>3. QED
  BY <1>1, <1>2, ReachedLeast

(* What is reached goes by the libraries that are reached, no others.      *)
LEMMA ReachedSame ==
  ASSUME NEW from, NEW f, NEW g, Lib!Reached(from, f) \subseteq DOMAIN f,
         \A p \in Lib!Reached(from, f) : p \in DOMAIN g /\ g[p] = f[p]
  PROVE  Lib!Reached(from, g) = Lib!Reached(from, f)
PROOF
<1> DEFINE F == Lib!Reached(from, f)
           G == Lib!Reached(from, g)
<1>1. from \subseteq F /\ Lib!Closed(F, f)
  BY ReachedHas
<1>2. from \subseteq G /\ Lib!Closed(G, g)
  BY ReachedHas
<1>3. Lib!Closed(F, g)
  BY <1>1 DEF Lib!Closed
<1>4. G \subseteq F
  BY <1>1, <1>3, ReachedLeast
<1>5. Lib!Closed(G, f)
  BY <1>2, <1>4 DEF Lib!Closed
<1>6. F \subseteq G
  BY <1>2, <1>5, ReachedLeast
<1>7. QED
  BY <1>4, <1>6

(* What is reached from what is reached is reached.                        *)
LEMMA ReachedOn ==
  ASSUME NEW from, NEW f, NEW p \in Lib!Reached(from, f), p \in DOMAIN f
  PROVE  /\ Lib!Targets(f[p], p) \subseteq Lib!Reached(from, f)
         /\ Lib!Reached(Lib!Targets(f[p], p), f) \subseteq Lib!Reached(from, f)
PROOF
<1>1. Lib!Closed(Lib!Reached(from, f), f)
  BY ReachedHas
<1>2. Lib!Targets(f[p], p) \subseteq Lib!Reached(from, f)
  BY <1>1 DEF Lib!Closed
<1>3. QED
  BY <1>1, <1>2, ReachedLeast

(* A program that can be resolved can be resolved from whatever agrees on  *)
(* what it reaches, and is the same program.                               *)
LEMMA ResolvableSame ==
  ASSUME NEW f, NEW g, Lib!Resolvable(main, f), \A p \in Lib!ReachedFrom(main, f) : p \in DOMAIN g /\ g[p] = f[p]
  PROVE  Lib!Resolvable(main, g) /\ Lib!ReachedFrom(main, g) = Lib!ReachedFrom(main, f) /\ Lib!Kept(main, g) = Lib!Kept(main, f)
PROOF
<1> DEFINE R == Lib!ReachedFrom(main, f)
<1>1. R \subseteq DOMAIN f /\ Lib!ReachedFrom(main, g) = R
  BY ReachedSame DEF Lib!ReachedFrom, Lib!Resolvable
<1>2. ASSUME NEW p \in R
      PROVE  Lib!Library(g[p]) /\ p \notin Lib!Reached(Lib!Targets(g[p], p), g)
  <2>1. Lib!Library(f[p]) /\ p \notin Lib!Reached(Lib!Targets(f[p], p), f) /\ g[p] = f[p]
    BY DEF Lib!Resolvable
  <2>2. Lib!Reached(Lib!Targets(f[p], p), f) \subseteq R
    BY <1>1, ReachedOn DEF Lib!ReachedFrom
  <2>3. Lib!Reached(Lib!Targets(f[p], p), g) = Lib!Reached(Lib!Targets(f[p], p), f)
    BY <1>1, <2>2, ReachedSame
  <2>4. QED
    BY <2>1, <2>3
<1>3. \A p \in R \union {Lib!Root} : Lib!TextOf(main, p, g) = Lib!TextOf(main, p, f)
  BY DEF Lib!TextOf
<1>4. Lib!Kept(main, g) = Lib!Kept(main, f)
  <2>1. Lib!Places(main, R \union {Lib!Root}, g) = Lib!Places(main, R \union {Lib!Root}, f)
    BY <1>3 DEF Lib!Places
  <2>2. \A x \in Lib!Places(main, R \union {Lib!Root}, f) : x.of \in R \union {Lib!Root}
    BY DEF Lib!Places
  <2>3. QED
    BY <1>1, <1>3, <2>1, <2>2 DEF Lib!Kept
<1>5. \A x \in Lib!Kept(main, f) : Lib!TextOf(main, x.of, g) = Lib!TextOf(main, x.of, f)
  BY <1>3 DEF Lib!Kept, Lib!Places
<1>6. Lib!DefinedOnce(main, g)
  <2>1. Lib!DefinedOnce(main, f)
    BY DEF Lib!Resolvable
  <2>2. QED
    BY <1>4, <1>5, <2>1 DEF Lib!DefinedOnce
<1>7. Lib!Cardinality(R) <= MaxModules
  BY DEF Lib!Resolvable
<1>8. QED
  BY <1>1, <1>2, <1>4, <1>6, <1>7 DEF Lib!Resolvable

-----------------------------------------------------------------------------
(* The source is no library.                                               *)
LEMMA RootApart == ASSUME NEW d, Lib!IsProject(d) PROVE Lib!Root \notin DOMAIN d
PROOF
  BY DEF Lib!IsProject, Lib!LibraryPaths, Lib!Root

LEMMA TopIs ==
  ASSUME Calls
  PROVE  /\ Len(stack) \in Nat /\ Len(stack) \in 1..Len(stack) /\ 1 \in 1..Len(stack)
         /\ Lib!Top = [of |-> Lib!Top.of, text |-> Lib!Top.text, next |-> Lib!Top.next]
         /\ Lib!IsProgram(Lib!Top.text) /\ Lib!Top.next \in 1..(Len(Lib!Top.text) + 1)
         /\ IsSeq(Lib!Top.text) /\ Len(Lib!Top.text) \in Nat /\ DOMAIN Lib!Top.text = 1..Len(Lib!Top.text)
         /\ Len(stack) = 1 => Lib!Top.of = Lib!Root /\ Lib!Top.text = main
         /\ Len(stack) > 1 => Lib!Top.of \in visited /\ Lib!Top.text = read[Lib!Top.of]
         /\ Lib!More => Lib!Top.next \in DOMAIN Lib!Top.text
         /\ ~Lib!More => Lib!Top.next = Len(Lib!Top.text) + 1
PROOF
<1>1. Len(stack) \in Nat /\ Len(stack) \in 1..Len(stack) /\ 1 \in 1..Len(stack)
  BY SequenceOf DEF Calls
<1> DEFINE n == Len(stack)
<1>2. n \in 1..Len(stack) /\ Lib!Top = stack[n]
  BY <1>1 DEF Lib!Top
<1> HIDE DEF n
<1>3. /\ Lib!Top = [of |-> Lib!Top.of, text |-> Lib!Top.text, next |-> Lib!Top.next]
      /\ Lib!IsProgram(Lib!Top.text) /\ Lib!Top.next \in 1..(Len(Lib!Top.text) + 1)
      /\ n > 1 => Lib!Top.of \in visited /\ Lib!Top.text = read[Lib!Top.of]
  BY <1>2 DEF Calls
<1>4. n = 1 => Lib!Top.of = Lib!Root /\ Lib!Top.text = main
  BY <1>2 DEF Calls
<1>5. IsSeq(Lib!Top.text) /\ Len(Lib!Top.text) \in Nat /\ DOMAIN Lib!Top.text = 1..Len(Lib!Top.text)
  BY <1>3, ProgramIs
<1>6. Lib!More => Lib!Top.next \in DOMAIN Lib!Top.text
  BY <1>3, <1>5 DEF Lib!More
<1>7. ~Lib!More => Lib!Top.next = Len(Lib!Top.text) + 1
  BY <1>3, <1>5 DEF Lib!More
<1>8. QED
  BY <1>1, <1>3, <1>4, <1>5, <1>6, <1>7 DEF n

LEMMA ActiveIs ==
  ASSUME Calls
  PROVE  Lib!Active \subseteq visited /\ \A p : p \in Lib!Active <=> \E i \in 1..Len(stack) : i > 1 /\ stack[i].of = p
PROOF
<1>1. Len(stack) \in Nat
  BY TopIs
<1>2. \A p : p \in Lib!Active <=> \E i \in 1..Len(stack) : i > 1 /\ stack[i].of = p
  BY <1>1 DEF Lib!Active
<1>3. ASSUME NEW p \in Lib!Active PROVE p \in visited
  <2>1. PICK i \in 1..Len(stack) : i > 1 /\ stack[i].of = p
    BY <1>2
  <2>2. QED
    BY <2>1 DEF Calls
<1>4. QED
  BY <1>2, <1>3

LEMMA TargetIs ==
  ASSUME NEW text, NEW of, NEW i \in DOMAIN text, text[i].k = "import"
  PROVE  Lib!Beside(of, text[i]) \in Lib!Targets(text, of)
PROOF
  BY DEF Lib!Targets

(* At the end: everything that was met is finished, so it is what the      *)
(* program reaches, and the program has its statements.                    *)
LEMMA WalkEnds ==
  ASSUME Walk, Len(stack) = 1, ~Lib!More
  PROVE  /\ Lib!ReachedFrom(main, read) = DOMAIN read /\ Lib!EachOnce(out, Lib!Kept(main, read))
         /\ Lib!NamedOnce <=> Lib!Exactly(main, read)
PROOF
<1>1. Lib!Active = {} /\ Finished = visited
  BY ActiveIs DEF Finished, Walk
<1>2. Lib!Closed(visited, read)
  BY <1>1 DEF Walk, FinishedIsClosed, ReadSoFar, Lib!Closed
<1>3. Lib!Top = stack[1] /\ Lib!Top.of = Lib!Root /\ Lib!Top.text = main /\ Lib!Top.next = Len(main) + 1 /\ DOMAIN main = 1..Len(main) /\ Len(main) \in Nat
  BY TopIs DEF Walk, Lib!Top
<1>4. Lib!Targets(main, Lib!Root) \subseteq visited
  <2>1. ASSUME NEW i \in DOMAIN main, main[i].k = "import"
        PROVE  Lib!Beside(Lib!Root, main[i]) \in visited
    <3>1. 1 \in 1..Len(stack) /\ stack[1].text = main /\ stack[1].of = Lib!Root /\ i \in 1..Len(stack[1].text) /\ i < stack[1].next /\ ~(1 < Len(stack))
      BY <1>3
    <3>2. QED
      BY <1>1, <3>1, <2>1 DEF Walk, BehindIsFinished
  <2>2. QED
    BY <2>1 DEF Lib!Targets
<1>5. Lib!ReachedFrom(main, read) \subseteq visited
  BY <1>2, <1>4, ReachedLeast DEF Lib!ReachedFrom
<1>6. DOMAIN read = visited /\ Lib!ReachedFrom(main, read) = visited
  BY <1>5 DEF Walk, ReadSoFar, MetIsReached, Lib!ReachedFrom
<1>7. ASSUME NEW p \in visited PROVE Lib!Library(read[p]) /\ p \notin Lib!Reached(Lib!Targets(read[p], p), read)
  <2>1. PICK X \in SUBSET Finished : Lib!Closed(X, read) /\ Lib!Targets(read[p], p) \subseteq X /\ p \notin X
    BY <1>1 DEF Walk, FinishedIsAcyclic
  <2>2. Lib!Reached(Lib!Targets(read[p], p), read) \subseteq X
    BY <2>1, ReachedLeast
  <2>3. QED
    BY <2>1, <2>2 DEF Walk, ReadSoFar
<1>8. Lib!Root \notin visited /\ Lib!IsProject(read)
  BY RootApart DEF Walk, ReadSoFar
<1>9. \A p \in visited : Lib!TextOf(main, p, read) = read[p]
  BY <1>8 DEF Lib!TextOf
<1>10. Lib!TextOf(main, Lib!Root, read) = main
  BY DEF Lib!TextOf
<1>11. ASSUME NEW of, NEW at
       PROVE  Behind(of, at, stack, read, Finished) <=> of \in visited \union {Lib!Root} /\ at \in DOMAIN Lib!TextOf(main, of, read) /\ Lib!TextOf(main, of, read)[at].k # "import"
  <2>1. \A i \in 1..Len(stack) : i = 1
    OBVIOUS
  <2>2. (\E i \in 1..Len(stack) : of = stack[i].of /\ at \in DOMAIN stack[i].text /\ at < stack[i].next /\ stack[i].text[at].k # "import")
          <=> of = Lib!Root /\ at \in DOMAIN main /\ main[at].k # "import"
    BY <1>3, <2>1
  <2>3. CASE of \in visited
    BY <1>1, <1>8, <1>9, <2>2, <2>3 DEF Behind
  <2>4. CASE of = Lib!Root
    BY <1>1, <1>8, <1>10, <2>2, <2>4 DEF Behind
  <2>5. CASE of \notin visited /\ of # Lib!Root
    BY <1>1, <2>2, <2>5 DEF Behind
  <2>6. QED
    BY <2>3, <2>4, <2>5
<1>12. DOMAIN out = 1..Len(out)
  BY SequenceOf DEF Walk, Expanded
<1>13. ASSUME NEW n \in 1..Len(out) PROVE out[n] \in Lib!Kept(main, read)
  <2> DEFINE of == out[n].of
             at == out[n].at
  <2>1. out[n] = [of |-> of, at |-> at] /\ Behind(of, at, stack, read, Finished)
    BY DEF Walk, Expanded
  <2>2. of \in visited \union {Lib!Root} /\ at \in DOMAIN Lib!TextOf(main, of, read) /\ Lib!TextOf(main, of, read)[at].k # "import"
    BY <1>11, <2>1
  <2>3. [of |-> of, at |-> at] \in Lib!Places(main, visited \union {Lib!Root}, read)
    BY <2>2 DEF Lib!Places
  <2>4. QED
    BY <1>6, <2>1, <2>2, <2>3 DEF Lib!Kept
<1>14. ASSUME NEW x \in Lib!Kept(main, read) PROVE \E n \in 1..Len(out) : out[n] = x
  <2>1. PICK of \in visited \union {Lib!Root}, at \in UNION {DOMAIN Lib!TextOf(main, q, read) : q \in visited \union {Lib!Root}} : x = [of |-> of, at |-> at]
    BY <1>6 DEF Lib!Kept, Lib!Places
  <2>2. at \in DOMAIN Lib!TextOf(main, of, read) /\ Lib!TextOf(main, of, read)[at].k # "import"
    BY <2>1 DEF Lib!Kept
  <2>3. Behind(of, at, stack, read, Finished)
    BY <1>11, <2>2
  <2>4. QED
    BY <2>1, <2>3 DEF Walk, Expanded
<1>15. Lib!EachOnce(out, Lib!Kept(main, read))
  <2>1. Lib!ToSet(out) = Lib!Kept(main, read)
    BY <1>12, <1>13, <1>14 DEF Lib!ToSet
  <2>2. \A m, n \in DOMAIN out : out[m] = out[n] => m = n
    BY <1>12 DEF Walk, Expanded
  <2>3. QED
    BY <2>1, <2>2 DEF Lib!EachOnce
<1>16. Lib!NamedOnce <=> Lib!DefinedOnce(main, read)
  <2> DEFINE F(x) == Lib!TextOf(main, x.of, read)[x.at]
             Alike(x, y) == F(x).k = "g_func" /\ F(y).k = "g_func" /\ F(x).f = F(y).f
  <2>1. Lib!DefinedOnce(main, read) <=> \A x, y \in Lib!Kept(main, read) : Alike(x, y) => x = y
    BY DEF Lib!DefinedOnce
  <2>2. Lib!NamedOnce <=> \A m, n \in 1..Len(out) : Alike(out[m], out[n]) => m = n
    BY <1>12 DEF Lib!NamedOnce, Lib!FunctionAt
  <2> HIDE DEF Alike
  <2>3. ASSUME \A x, y \in Lib!Kept(main, read) : Alike(x, y) => x = y, NEW m \in 1..Len(out), NEW n \in 1..Len(out), Alike(out[m], out[n])
        PROVE  m = n
    <3>1. out[m] = out[n]
      BY <2>3, <1>13
    <3>2. QED
      BY <3>1 DEF Walk, Expanded
  <2>4. ASSUME \A m, n \in 1..Len(out) : Alike(out[m], out[n]) => m = n, NEW x \in Lib!Kept(main, read), NEW y \in Lib!Kept(main, read), Alike(x, y)
        PROVE  x = y
    <3>1. PICK m \in 1..Len(out) : out[m] = x
      BY <1>14
    <3>2. PICK n \in 1..Len(out) : out[n] = y
      BY <1>14
    <3>3. QED
      BY <2>4, <3>1, <3>2
  <2>5. QED
    BY <2>1, <2>2, <2>3, <2>4
<1>17. Lib!Cardinality(visited) <= MaxModules
  BY Finite DEF Walk, ReadSoFar
<1>18. Lib!NamedOnce <=> Lib!Exactly(main, read)
  BY <1>6, <1>7, <1>16, <1>17 DEF Lib!Exactly, Lib!Resolvable
<1>19. QED
  BY <1>6, <1>15, <1>18

-----------------------------------------------------------------------------
(* What the program is refused for: whatever else there is to read.        *)
LEMMA PathReached ==
  ASSUME Walk, Lib!More, Lib!Stmt.k = "import", NEW g, Extends(read, g)
  PROVE  /\ Lib!Path \in Lib!Targets(Lib!Top.text, Lib!Top.of) /\ Lib!Path \in Lib!ReachedFrom(main, g)
         /\ visited \subseteq Lib!ReachedFrom(main, g)
PROOF
<1>1. Calls /\ DOMAIN read = visited
  BY DEF Walk, ReadSoFar
<1>2. Lib!Path \in Lib!Targets(Lib!Top.text, Lib!Top.of)
  BY <1>1, TopIs, TargetIs DEF Lib!Stmt, Lib!Path
<1>3. visited \subseteq Lib!ReachedFrom(main, g)
  BY ReachedGrows DEF Walk, MetIsReached, Lib!ReachedFrom
<1>4. CASE Len(stack) = 1
  <2>1. Lib!Targets(main, Lib!Root) \subseteq Lib!ReachedFrom(main, g)
    BY ReachedHas DEF Lib!ReachedFrom
  <2>2. QED
    BY <1>1, <1>2, <1>3, <1>4, <2>1, TopIs
<1>5. CASE Len(stack) > 1
  <2>1. Lib!Top.of \in visited /\ Lib!Top.text = read[Lib!Top.of]
    BY <1>1, <1>5, TopIs
  <2>2. Lib!Top.of \in DOMAIN g /\ g[Lib!Top.of] = Lib!Top.text
    BY <1>1, <2>1 DEF Extends
  <2>3. Lib!Targets(Lib!Top.text, Lib!Top.of) \subseteq Lib!ReachedFrom(main, g)
    BY <1>3, <2>1, <2>2, ReachedOn DEF Lib!ReachedFrom
  <2>4. QED
    BY <1>2, <1>3, <2>3
<1>6. Len(stack) = 1 \/ Len(stack) > 1
  <2> DEFINE n == Len(stack)
  <2>1. n \in Nat /\ n >= 1
    BY <1>1, TopIs DEF Calls
  <2> HIDE DEF n
  <2>2. n = 1 \/ n > 1
    BY <2>1
  <2>3. QED
    BY <2>2 DEF n
<1>7. QED
  BY <1>4, <1>5, <1>6

LEMMA CycleRefused ==
  ASSUME Walk, Lib!More, Lib!Stmt.k = "import", NEW g, Extends(read, g), Lib!Path \in Lib!Active
  PROVE  ~Lib!Resolvable(main, g)
PROOF
<1>1. Calls /\ DOMAIN read = visited
  BY DEF Walk, ReadSoFar
<1>2. Len(stack) \in Nat /\ Len(stack) \in 1..Len(stack) /\ Lib!Top = stack[Len(stack)]
  BY <1>1, TopIs DEF Lib!Top
<1>3. PICK j \in 1..Len(stack) : j > 1 /\ stack[j].of = Lib!Path
  BY <1>1, ActiveIs
<1> DEFINE p == Lib!Path
<1>4. p \in visited /\ stack[j].text = read[p] /\ p \in DOMAIN g /\ g[p] = read[p]
  BY <1>1, <1>3 DEF Calls, Extends
<1>5. p \in Lib!Targets(Lib!Top.text, Lib!Top.of) /\ p \in Lib!ReachedFrom(main, g)
  BY PathReached
<1> DEFINE R == Lib!Reached(Lib!Targets(g[p], p), g)
<1>6. Lib!Targets(g[p], p) \subseteq R
  BY ReachedHas
<1>7. CASE j = Len(stack)
  BY <1>2, <1>3, <1>4, <1>5, <1>6, <1>7 DEF Lib!Resolvable
<1>8. CASE j < Len(stack)
  <2>1. Lib!Top.of \in Lib!Reached(Lib!Targets(stack[j].text, stack[j].of), read)
    BY <1>2, <1>8 DEF Walk, MetIsReached
  <2>2. Lib!Top.of \in R
    BY <1>3, <1>4, <2>1, ReachedGrows
  <2>3. Lib!Top.of \in visited /\ Lib!Top.text = read[Lib!Top.of]
    BY <1>1, <1>8, TopIs
  <2>4. Lib!Top.of \in DOMAIN g /\ g[Lib!Top.of] = Lib!Top.text
    BY <1>1, <2>3 DEF Extends
  <2>5. p \in R
    BY <1>5, <2>2, <2>4, ReachedOn
  <2>6. QED
    BY <1>5, <2>5 DEF Lib!Resolvable
<1>9. QED
  BY <1>2, <1>7, <1>8

LEMMA FullRefused ==
  ASSUME Walk, Lib!More, Lib!Stmt.k = "import", NEW g, Extends(read, g), Lib!IsProject(g),
         Lib!Path \notin visited, Cardinality(visited) >= MaxModules
  PROVE  ~Lib!Resolvable(main, g)
PROOF
<1> DEFINE R == Lib!ReachedFrom(main, g)
           V == visited \union {Lib!Path}
<1>1. V \subseteq R
  BY PathReached
<1>2. IsFiniteSet(DOMAIN g) /\ IsFiniteSet(visited)
  BY Finite DEF Lib!IsProject, Walk, ReadSoFar
<1>3. Cardinality(V) = Cardinality(visited) + 1 /\ Cardinality(visited) \in Nat
  BY <1>2, FS_AddElement, FS_CardinalityType
<1>4. MaxModules \in Nat
  BY ProjectConstants DEF Lib!LibraryConstants
<1>5. ASSUME R \subseteq DOMAIN g PROVE Cardinality(V) <= Cardinality(R) /\ Cardinality(R) \in Nat /\ Cardinality(V) \in Nat
  BY <1>1, <1>2, <1>3, <1>5, FS_Subset, FS_CardinalityType
<1>6. ASSUME R \subseteq DOMAIN g PROVE ~(Lib!Cardinality(R) <= MaxModules)
  BY <1>3, <1>4, <1>5, <1>6, Finite
<1>7. QED
  BY <1>6 DEF Lib!Resolvable

LEMMA UnreadableRefused ==
  ASSUME Walk, Lib!More, Lib!Stmt.k = "import", NEW g, Extends(read, g),
         Lib!Path \notin DOMAIN g \/ ~Lib!Library(g[Lib!Path])
  PROVE  ~Lib!Resolvable(main, g)
PROOF
  BY PathReached DEF Lib!Resolvable

-----------------------------------------------------------------------------
(* visit, step by step.                                                    *)
LEMMA AdvancedIs ==
  ASSUME Calls
  PROVE  /\ IsSeq(Lib!Advanced) /\ Len(Lib!Advanced) = Len(stack)
         /\ \A i \in 1..Len(stack) : i # Len(stack) => Lib!Advanced[i] = stack[i]
         /\ Lib!Advanced[Len(stack)] = [of |-> Lib!Top.of, text |-> Lib!Top.text, next |-> Lib!Top.next + 1]
PROOF
<1> DEFINE n == Len(stack)
           x == [stack[n] EXCEPT !.next = @ + 1]
<1>1. n \in 1..Len(stack) /\ IsSeq(stack) /\ Lib!Top = stack[n]
  BY TopIs DEF Calls, Lib!Top
<1>2. Lib!Top = [of |-> Lib!Top.of, text |-> Lib!Top.text, next |-> Lib!Top.next]
  BY TopIs
<1>3. x = [of |-> Lib!Top.of, text |-> Lib!Top.text, next |-> Lib!Top.next + 1]
  BY <1>1, <1>2
<1>4. Lib!Advanced = [stack EXCEPT ![n] = x]
  BY DEF Lib!Advanced
<1> HIDE DEF n, x
<1> DEFINE A == [stack EXCEPT ![n] = x]
<1>5. IsSeq(A) /\ Len(A) = Len(stack) /\ A[n] = x /\ \A i \in 1..Len(stack) : i # n => A[i] = stack[i]
  BY <1>1, SequenceExcept
<1> HIDE DEF A
<1>6. Lib!Advanced = A
  BY <1>4 DEF A
<1>7. QED
  BY <1>3, <1>5, <1>6 DEF n

(* A statement further.                                                    *)
LEMMA Advance ==
  ASSUME Calls, Lib!More, stack' = Lib!Advanced
  PROVE  /\ Len(stack') = Len(stack) /\ IsSeq(stack') /\ Len(stack) \in Nat /\ Len(stack) >= 1
         /\ \A i \in 1..Len(stack) : /\ stack'[i] = [of |-> stack'[i].of, text |-> stack'[i].text, next |-> stack'[i].next]
                                     /\ stack'[i].of = stack[i].of /\ stack'[i].text = stack[i].text
                                     /\ i # Len(stack) => stack'[i].next = stack[i].next
         /\ stack'[Len(stack)].next = Lib!Top.next + 1 /\ stack[Len(stack)] = Lib!Top
         /\ Lib!Top.next \in 1..Len(Lib!Top.text)
PROOF
<1> DEFINE n == Len(stack)
           A == Lib!Advanced
<1>1. /\ IsSeq(A) /\ Len(A) = n /\ \A i \in 1..n : i # n => A[i] = stack[i]
      /\ A[n] = [of |-> Lib!Top.of, text |-> Lib!Top.text, next |-> Lib!Top.next + 1]
  BY AdvancedIs
<1>2. n \in Nat /\ n >= 1 /\ stack[n] = Lib!Top /\ Lib!Top.next \in 1..Len(Lib!Top.text)
  BY TopIs DEF Calls, Lib!Top
<1>3. \A i \in 1..n : stack[i] = [of |-> stack[i].of, text |-> stack[i].text, next |-> stack[i].next]
  BY DEF Calls
<1> HIDE DEF n, A
<1>4. ASSUME NEW i \in 1..n
      PROVE  /\ A[i] = [of |-> A[i].of, text |-> A[i].text, next |-> A[i].next]
             /\ A[i].of = stack[i].of /\ A[i].text = stack[i].text /\ i # n => A[i].next = stack[i].next
  <2>1. CASE i = n
    BY <1>1, <1>2, <2>1
  <2>2. CASE i # n
    BY <1>1, <1>3, <2>2
  <2>3. QED
    BY <2>1, <2>2
<1>5. A[n].next = Lib!Top.next + 1
  BY <1>1
<1>6. stack' = A
  BY DEF A
<1>7. QED
  BY <1>1, <1>2, <1>4, <1>5, <1>6 DEF n

LEMMA CallsAdvance ==
  ASSUME Calls, Lib!More, stack' = Lib!Advanced, UNCHANGED <<main, visited, read>>
  PROVE  Calls' /\ Lib!Active' = Lib!Active /\ Finished' = Finished
PROOF
<1> DEFINE n == Len(stack)
<1>1. /\ Len(stack') = n /\ IsSeq(stack') /\ n \in Nat /\ n >= 1
      /\ \A i \in 1..n : /\ stack'[i] = [of |-> stack'[i].of, text |-> stack'[i].text, next |-> stack'[i].next]
                         /\ stack'[i].of = stack[i].of /\ stack'[i].text = stack[i].text
                         /\ i # n => stack'[i].next = stack[i].next
      /\ stack'[n].next = Lib!Top.next + 1 /\ stack[n] = Lib!Top /\ Lib!Top.next \in 1..Len(Lib!Top.text)
  BY Advance
<1> HIDE DEF n
<1>2. \A i \in 1..n :
        /\ Lib!IsProgram(stack[i].text) /\ Len(stack[i].text) \in Nat /\ stack[i].next \in 1..(Len(stack[i].text) + 1)
        /\ i > 1 => stack[i].of \in visited /\ stack[i].text = read[stack[i].of]
  BY ProgramIs DEF Calls, n
<1>3. ASSUME NEW i \in 1..n
      PROVE  /\ Lib!IsProgram(stack'[i].text) /\ stack'[i].next \in 1..(Len(stack'[i].text) + 1)
             /\ i > 1 => stack'[i].of \in visited' /\ stack'[i].text = read'[stack'[i].of]
  <2>1. Lib!IsProgram(stack'[i].text) /\ (i > 1 => stack'[i].of \in visited' /\ stack'[i].text = read'[stack'[i].of])
    BY <1>1, <1>2
  <2>2. stack'[i].next \in 1..(Len(stack'[i].text) + 1)
    <3>1. CASE i = n
      BY <1>1, <1>2, <3>1
    <3>2. CASE i # n
      BY <1>1, <1>2, <3>2
    <3>3. QED
      BY <3>1, <3>2
  <2>3. QED
    BY <2>1, <2>2
<1>4. \A i, j \in 1..n : stack'[i].of = stack'[j].of => i = j
  BY <1>1 DEF Calls, n
<1>5. stack'[1].of = Lib!Root /\ stack'[1].text = main'
  <2>1. 1 \in 1..n
    BY <1>1
  <2>2. stack[1].of = Lib!Root /\ stack[1].text = main
    BY DEF Calls
  <2>3. QED
    BY <1>1, <2>1, <2>2
<1>6. ASSUME NEW i \in 1..n, i < n
      PROVE  /\ stack'[i].next > 1 /\ stack'[i].text[stack'[i].next - 1].k = "import"
             /\ Lib!Beside(stack'[i].of, stack'[i].text[stack'[i].next - 1]) = stack'[i + 1].of
  <2>1. i # n /\ i + 1 \in 1..n
    BY <1>1, <1>6
  <2>2. stack'[i].of = stack[i].of /\ stack'[i].text = stack[i].text /\ stack'[i].next = stack[i].next /\ stack'[i + 1].of = stack[i + 1].of
    BY <1>1, <2>1
  <2>3. QED
    BY <1>6, <2>2 DEF Calls, n
<1>7. Calls'
  BY <1>1, <1>3, <1>4, <1>5, <1>6 DEF Calls
<1>8. Lib!Active' = Lib!Active
  <2>1. \A p : p \in Lib!Active <=> \E i \in 1..n : i > 1 /\ stack[i].of = p
    BY ActiveIs DEF n
  <2>2. Lib!Active' = {stack'[i].of : i \in 2..n}
    BY <1>1 DEF Lib!Active
  <2>3. \A p : p \in Lib!Active' <=> \E i \in 1..n : i > 1 /\ stack'[i].of = p
    BY <1>1, <2>2
  <2>4. \A p : (\E i \in 1..n : i > 1 /\ stack'[i].of = p) <=> \E i \in 1..n : i > 1 /\ stack[i].of = p
    BY <1>1
  <2>5. \A p : p \in Lib!Active' <=> p \in Lib!Active
    BY <2>1, <2>3, <2>4
  <2>6. QED
    BY <2>5
<1>9. QED
  BY <1>7, <1>8 DEF Finished

(* What does not depend on the calls.                                      *)
LEMMA FinishedSame ==
  ASSUME FinishedIsClosed, FinishedIsAcyclic, Finished' = Finished, DOMAIN read = visited, Extends(read, read'),
         DOMAIN read' \intersect Finished \subseteq visited
  PROVE  FinishedIsClosed' /\ FinishedIsAcyclic'
PROOF
<1>1. \A p \in Finished : p \in DOMAIN read /\ read'[p] = read[p]
  BY DEF Finished, Extends
<1>2. FinishedIsClosed'
  BY <1>1 DEF FinishedIsClosed
<1>3. ASSUME NEW p \in Finished
      PROVE  \E X \in SUBSET Finished : Lib!Closed(X, read') /\ Lib!Targets(read'[p], p) \subseteq X /\ p \notin X
  <2>1. PICK X \in SUBSET Finished : Lib!Closed(X, read) /\ Lib!Targets(read[p], p) \subseteq X /\ p \notin X
    BY DEF FinishedIsAcyclic
  <2>2. Lib!Closed(X, read')
    BY <1>1, <2>1 DEF Lib!Closed
  <2>3. QED
    BY <1>1, <2>1, <2>2
<1>4. FinishedIsAcyclic'
  BY <1>3 DEF FinishedIsAcyclic
<1>5. QED
  BY <1>2, <1>4

LEMMA ExpandedSame ==
  ASSUME Expanded, out' = out, \A of, at : Behind(of, at, stack', read', Finished') <=> Behind(of, at, stack, read, Finished)
  PROVE  Expanded'
PROOF
  BY DEF Expanded

LEMMA WalkAdvances ==
  ASSUME Walk, Lib!More, stack' = Lib!Advanced, UNCHANGED <<main, visited, read>>,
         Lib!Stmt.k = "import" => Lib!Path \in Finished
  PROVE  /\ Calls' /\ ReadSoFar' /\ MetIsReached' /\ BehindIsFinished' /\ FinishedIsClosed' /\ FinishedIsAcyclic'
         /\ \A of, at : Behind(of, at, stack', read', Finished') <=> Behind(of, at, stack, read, Finished) \/ (of = Lib!Top.of /\ at = Lib!Top.next /\ Lib!Stmt.k # "import")
PROOF
<1> DEFINE n == Len(stack)
<1>1. Calls /\ Calls' /\ Finished' = Finished
  BY CallsAdvance DEF Walk
<1>2. /\ Len(stack') = n /\ IsSeq(stack') /\ n \in Nat /\ n >= 1
      /\ \A i \in 1..n : /\ stack'[i].of = stack[i].of /\ stack'[i].text = stack[i].text
                         /\ i # n => stack'[i].next = stack[i].next
      /\ stack'[n].next = Lib!Top.next + 1 /\ stack[n] = Lib!Top /\ Lib!Top.next \in 1..Len(Lib!Top.text)
  BY <1>1, Advance
<1> HIDE DEF n
<1>3. ReadSoFar'
  BY DEF Walk, ReadSoFar
<1>4. MetIsReached'
  <2>1. visited \subseteq Lib!Reached(Lib!Targets(main, Lib!Root), read)
    BY DEF Walk, MetIsReached
  <2>2. ASSUME NEW i \in 1..n, NEW j \in 1..n, i < j
        PROVE  stack'[j].of \in Lib!Reached(Lib!Targets(stack'[i].text, stack'[i].of), read')
    BY <1>2, <2>2 DEF Walk, MetIsReached, n
  <2>3. QED
    BY <1>2, <2>1, <2>2 DEF MetIsReached
<1>5. BehindIsFinished'
  <2>1. ASSUME NEW i \in 1..n, NEW m \in 1..Len(stack'[i].text), m < stack'[i].next, stack'[i].text[m].k = "import"
        PROVE  Lib!Beside(stack'[i].of, stack'[i].text[m]) \in Finished \/ (i < n /\ m = stack'[i].next - 1)
    <3>1. m \in 1..Len(stack[i].text) /\ stack[i].text[m].k = "import"
      BY <1>2, <2>1
    <3>2. CASE i = n /\ m = Lib!Top.next
      BY <1>2, <2>1, <3>2 DEF Lib!Stmt, Lib!Path
    <3>3. CASE i = n /\ m # Lib!Top.next
      <4>1. m < stack[i].next
        BY <1>2, <2>1, <3>1, <3>3
      <4>2. QED
        BY <1>2, <3>1, <3>3, <4>1 DEF Walk, BehindIsFinished, n
    <3>4. CASE i # n
      BY <1>2, <2>1, <3>1, <3>4 DEF Walk, BehindIsFinished, n
    <3>5. QED
      BY <3>2, <3>3, <3>4
  <2>2. QED
    BY <1>1, <1>2, <2>1 DEF BehindIsFinished
<1>6. FinishedIsClosed' /\ FinishedIsAcyclic'
  <2>1. Extends(read, read') /\ DOMAIN read = visited /\ DOMAIN read' \intersect Finished \subseteq visited
    BY DEF Walk, ReadSoFar, Extends
  <2>2. QED
    BY <1>1, <2>1, FinishedSame DEF Walk
<1>7. ASSUME NEW of, NEW at
      PROVE  Behind(of, at, stack', read', Finished') <=> Behind(of, at, stack, read, Finished) \/ (of = Lib!Top.of /\ at = Lib!Top.next /\ Lib!Stmt.k # "import")
  <2> DEFINE Is(i) == of = stack[i].of /\ at \in DOMAIN stack[i].text /\ at < stack[i].next /\ stack[i].text[at].k # "import"
             Is1(i) == of = stack'[i].of /\ at \in DOMAIN stack'[i].text /\ at < stack'[i].next /\ stack'[i].text[at].k # "import"
             New == of = Lib!Top.of /\ at = Lib!Top.next /\ Lib!Stmt.k # "import"
  <2>1. \A i \in 1..n : i # n => (Is1(i) <=> Is(i))
    BY <1>2
  <2>2. Is1(n) <=> Is(n) \/ New
    <3>1. Lib!Top.next \in DOMAIN Lib!Top.text /\ DOMAIN Lib!Top.text = 1..Len(Lib!Top.text) /\ Lib!Top.next \in Nat
      BY <1>1, TopIs
    <3>2. n \in 1..n
      BY <1>2
    <3>3. ASSUME at \in DOMAIN Lib!Top.text PROVE at < Lib!Top.next + 1 <=> at < Lib!Top.next \/ at = Lib!Top.next
      BY <3>1, <3>3
    <3>4. Lib!Stmt = Lib!Top.text[Lib!Top.next]
      BY DEF Lib!Stmt
    <3>5. Is1(n) <=> of = Lib!Top.of /\ at \in DOMAIN Lib!Top.text /\ at < Lib!Top.next + 1 /\ Lib!Top.text[at].k # "import"
      BY <1>2, <3>2
    <3>6. Is(n) <=> of = Lib!Top.of /\ at \in DOMAIN Lib!Top.text /\ at < Lib!Top.next /\ Lib!Top.text[at].k # "import"
      BY <1>2
    <3>7. QED
      BY <3>1, <3>3, <3>4, <3>5, <3>6
  <2>3. Behind(of, at, stack, read, Finished) <=> (of \in Finished /\ at \in DOMAIN read[of] /\ read[of][at].k # "import") \/ \E i \in 1..n : Is(i)
    BY DEF Behind, n
  <2>4. Behind(of, at, stack', read', Finished') <=> (of \in Finished /\ at \in DOMAIN read[of] /\ read[of][at].k # "import") \/ \E i \in 1..n : Is1(i)
    BY <1>1, <1>2 DEF Behind
  <2> HIDE DEF Is, Is1, New
  <2>5. n \in 1..n
    BY <1>2
  <2>6. (\E i \in 1..n : Is1(i)) <=> (\E i \in 1..n : Is(i)) \/ New
    BY <2>1, <2>2, <2>5
  <2>7. QED
    BY <2>3, <2>4, <2>6 DEF New
<1>8. QED
  BY <1>1, <1>3, <1>4, <1>5, <1>6, <1>7

LEMMA WalkKeeps ==
  ASSUME Walk, Lib!More, Lib!Stmt.k # "import", stack' = Lib!Advanced, UNCHANGED <<main, visited, read>>,
         out' = Append(out, [of |-> Lib!Top.of, at |-> Lib!Top.next])
  PROVE  Walk'
PROOF
<1> DEFINE n == Len(stack)
           x == [of |-> Lib!Top.of, at |-> Lib!Top.next]
<1>1. /\ Calls' /\ ReadSoFar' /\ MetIsReached' /\ BehindIsFinished' /\ FinishedIsClosed' /\ FinishedIsAcyclic'
      /\ \A of, at : Behind(of, at, stack', read', Finished') <=> Behind(of, at, stack, read, Finished) \/ (of = Lib!Top.of /\ at = Lib!Top.next)
  BY WalkAdvances
<1>2. Calls /\ Expanded /\ n \in Nat /\ n \in 1..n /\ stack[n] = Lib!Top /\ Lib!Top.next \in Nat
  BY TopIs DEF Walk, Lib!Top
<1>3. Lib!Top.of \notin Finished
  <2>1. CASE n > 1
    <3>1. Lib!Top.of \in Lib!Active
      BY <1>2, <2>1, ActiveIs
    <3>2. QED
      BY <3>1 DEF Finished
  <2>2. CASE n = 1
    BY <1>2, <2>2, TopIs, RootApart DEF Finished, Walk, ReadSoFar
  <2> HIDE DEF n
  <2>3. QED
    BY <1>2, <2>1, <2>2
<1>4. ~Behind(Lib!Top.of, Lib!Top.next, stack, read, Finished)
  <2>1. ASSUME NEW i \in 1..n, Lib!Top.of = stack[i].of, Lib!Top.next < stack[i].next
        PROVE  FALSE
    <3>1. i = n
      BY <1>2, <2>1 DEF Calls
    <3>2. QED
      BY <1>2, <2>1, <3>1
  <2>2. QED
    BY <1>3, <2>1 DEF Behind
<1>5. /\ IsSeq(out') /\ Len(out') = Len(out) + 1 /\ \A i \in 1..Len(out) : out'[i] = out[i]
      /\ out'[Len(out) + 1] = x /\ Len(out) \in Nat
  <2>1. IsSeq(out)
    BY <1>2 DEF Expanded
  <2>2. QED
    BY <2>1, SequenceAppend, SequenceOf
<1> DEFINE l == Len(out)
<1> HIDE DEF n, l
<1>6. \A i \in 1..l : out[i] = [of |-> out[i].of, at |-> out[i].at] /\ Behind(out[i].of, out[i].at, stack, read, Finished)
  BY <1>2 DEF Expanded, l
<1>7. \A i \in 1..l : out[i] # x
  <2>1. x.of = Lib!Top.of /\ x.at = Lib!Top.next
    OBVIOUS
  <2> HIDE DEF x
  <2>2. QED
    BY <1>4, <1>6, <2>1
<1>8. \A i, j \in 1..l : out[i] = out[j] => i = j
  BY <1>2 DEF Expanded, l
<1>9. Len(out') = l + 1 /\ l \in Nat /\ out'[l + 1] = x /\ \A i \in 1..l : out'[i] = out[i]
  BY <1>5 DEF l
<1>10. \A i, j \in 1..Len(out') : out'[i] = out'[j] => i = j
  <2> HIDE DEF x
  <2>1. ASSUME NEW i \in 1..(l + 1), NEW j \in 1..(l + 1), out'[i] = out'[j]
        PROVE  i = j
    <3>1. CASE i \in 1..l /\ j \in 1..l
      BY <1>8, <1>9, <2>1, <3>1
    <3>2. CASE i \in 1..l /\ j = l + 1
      BY <1>7, <1>9, <2>1, <3>2
    <3>3. CASE i = l + 1 /\ j \in 1..l
      BY <1>7, <1>9, <2>1, <3>3
    <3>4. CASE i = l + 1 /\ j = l + 1
      BY <3>4
    <3>5. QED
      BY <1>9, <3>1, <3>2, <3>3, <3>4
  <2>2. QED
    BY <1>9, <2>1
<1>11. ASSUME NEW i \in 1..Len(out')
       PROVE  out'[i] = [of |-> out'[i].of, at |-> out'[i].at] /\ Behind(out'[i].of, out'[i].at, stack', read', Finished')
  <2>1. CASE i \in 1..l
    <3>1. out'[i] = out[i] /\ out[i] = [of |-> out[i].of, at |-> out[i].at] /\ Behind(out[i].of, out[i].at, stack, read, Finished)
      BY <1>6, <1>9, <2>1
    <3> DEFINE a == out[i].of
               b == out[i].at
    <3>2. Behind(a, b, stack, read, Finished)
      BY <3>1
    <3>3. Behind(out'[i].of, out'[i].at, stack', read', Finished')
      BY <1>1, <3>1, <3>2
    <3>4. QED
      BY <3>1, <3>3
  <2>2. CASE i = l + 1
    <3>1. out'[i] = x /\ out'[i].of = Lib!Top.of /\ out'[i].at = Lib!Top.next
      BY <1>9, <2>2
    <3>2. Behind(out'[i].of, out'[i].at, stack', read', Finished')
      BY <1>1, <3>1
    <3>3. QED
      BY <3>1, <3>2
  <2>3. QED
    BY <1>9, <2>1, <2>2
<1>12. ASSUME NEW of, NEW at, Behind(of, at, stack', read', Finished')
       PROVE  \E i \in 1..Len(out') : out'[i] = [of |-> of, at |-> at]
  <2>1. CASE Behind(of, at, stack, read, Finished)
    <3>1. PICK i \in 1..l : out[i] = [of |-> of, at |-> at]
      BY <1>2, <2>1 DEF Expanded, l
    <3>2. i \in 1..Len(out') /\ out'[i] = [of |-> of, at |-> at]
      BY <1>9, <3>1
    <3>3. QED
      BY <3>2
  <2>2. CASE of = Lib!Top.of /\ at = Lib!Top.next
    <3>1. l + 1 \in 1..Len(out') /\ out'[l + 1] = [of |-> of, at |-> at]
      BY <1>9, <2>2
    <3>2. QED
      BY <3>1
  <2>3. QED
    BY <1>1, <1>12, <2>1, <2>2
<1>13. Expanded'
  BY <1>5, <1>10, <1>11, <1>12 DEF Expanded
<1>14. QED
  BY <1>1, <1>13 DEF Walk

LEMMA WalkAgain ==
  ASSUME Walk, Lib!More, Lib!Stmt.k = "import", Lib!Path \in Finished, stack' = Lib!Advanced, UNCHANGED <<main, visited, read, out>>
  PROVE  Walk'
PROOF
<1>1. /\ Calls' /\ ReadSoFar' /\ MetIsReached' /\ BehindIsFinished' /\ FinishedIsClosed' /\ FinishedIsAcyclic'
      /\ \A of, at : Behind(of, at, stack', read', Finished') <=> Behind(of, at, stack, read, Finished)
  BY WalkAdvances
<1>2. Expanded'
  BY <1>1, ExpandedSame DEF Walk
<1>3. QED
  BY <1>1, <1>2 DEF Walk

(* A library is entered.                                                   *)
Entering(t) ==
  /\ Lib!More /\ Lib!Stmt.k = "import" /\ Lib!Path \notin visited /\ Cardinality(visited) < MaxModules
  /\ Lib!Path \in Lib!LibraryPaths /\ Lib!IsProgram(t) /\ Lib!Library(t)
  /\ stack' = Append(Lib!Advanced, Lib!Call(Lib!Path, t)) /\ visited' = visited \union {Lib!Path}
  /\ read' = Lib!Put(read, Lib!Path, t) /\ UNCHANGED <<main, out>>

(* The calls then: those there were, the last a statement further, and one. *)
LEMMA EnteringCalls ==
  ASSUME Calls, NEW t, Entering(t), NEW n, n = Len(stack)
  PROVE  /\ n \in Nat /\ n >= 1 /\ IsSeq(stack') /\ Len(stack') = n + 1
         /\ \A i \in 1..n :
              /\ stack'[i] = [of |-> stack'[i].of, text |-> stack'[i].text, next |-> stack'[i].next]
              /\ stack'[i].of = stack[i].of /\ stack'[i].text = stack[i].text
              /\ i # n => stack'[i].next = stack[i].next
         /\ stack'[n].next = stack[n].next + 1 /\ stack[n] = Lib!Top
         /\ stack'[n + 1] = [of |-> Lib!Path, text |-> t, next |-> 1]
         /\ stack[n].next \in 1..Len(stack[n].text) /\ Len(stack[n].text) \in Nat /\ DOMAIN stack[n].text = 1..Len(stack[n].text)
         /\ stack[n].text[stack[n].next].k = "import" /\ Lib!Beside(stack[n].of, stack[n].text[stack[n].next]) = Lib!Path
PROOF
<1> DEFINE A == Lib!Advanced
           p == Lib!Path
           top == Lib!Top
<1>1. n \in Nat /\ n >= 1 /\ n \in 1..n /\ stack[n] = top
  BY TopIs DEF Calls, Lib!Top
<1>2. top.next \in 1..Len(top.text) /\ Len(top.text) \in Nat /\ DOMAIN top.text = 1..Len(top.text)
  BY TopIs DEF Entering
<1>3. IsSeq(A) /\ Len(A) = n /\ \A i \in 1..n : i # n => A[i] = stack[i]
  BY AdvancedIs
<1>4. A[n] = [of |-> top.of, text |-> top.text, next |-> top.next + 1]
  BY AdvancedIs
<1>5. top.text[top.next].k = "import" /\ Lib!Beside(top.of, top.text[top.next]) = p
  BY DEF Entering, Lib!Stmt, Lib!Path
<1>6. stack' = Append(A, [of |-> p, text |-> t, next |-> 1])
  BY DEF Entering, Lib!Call
<1>7. \A i \in 1..n : stack[i] = [of |-> stack[i].of, text |-> stack[i].text, next |-> stack[i].next]
  BY DEF Calls
<1> HIDE DEF A, p, top
<1>8. IsSeq(stack') /\ Len(stack') = n + 1 /\ stack'[n + 1] = [of |-> p, text |-> t, next |-> 1] /\ \A i \in 1..n : stack'[i] = A[i]
  BY <1>3, <1>6, SequenceAppend
<1>9. /\ stack'[n].of = stack[n].of /\ stack'[n].text = stack[n].text /\ stack'[n].next = stack[n].next + 1
      /\ stack'[n] = [of |-> stack'[n].of, text |-> stack'[n].text, next |-> stack'[n].next]
  BY <1>1, <1>4, <1>8
<1>10. ASSUME NEW i \in 1..n
       PROVE  /\ stack'[i] = [of |-> stack'[i].of, text |-> stack'[i].text, next |-> stack'[i].next]
              /\ stack'[i].of = stack[i].of /\ stack'[i].text = stack[i].text
              /\ i # n => stack'[i].next = stack[i].next
  <2>1. CASE i = n
    BY <1>9, <2>1
  <2>2. CASE i # n
    <3>1. stack'[i] = stack[i] /\ stack[i] = [of |-> stack[i].of, text |-> stack[i].text, next |-> stack[i].next]
      BY <1>3, <1>7, <1>8, <2>2
    <3>2. QED
      BY <2>2, <3>1
  <2>3. QED
    BY <2>1, <2>2
<1>11. n \in Nat /\ n >= 1 /\ IsSeq(stack') /\ Len(stack') = n + 1
  BY <1>1, <1>8
<1>12. stack[n].next \in 1..Len(stack[n].text) /\ Len(stack[n].text) \in Nat /\ DOMAIN stack[n].text = 1..Len(stack[n].text)
  BY <1>1, <1>2
<1>13. stack[n].text[stack[n].next].k = "import" /\ Lib!Beside(stack[n].of, stack[n].text[stack[n].next]) = Lib!Path
  BY <1>1, <1>5 DEF p
<1>14. stack'[n + 1] = [of |-> Lib!Path, text |-> t, next |-> 1] /\ stack[n] = Lib!Top
  BY <1>1, <1>8 DEF p, top
<1>15. QED
  BY <1>9, <1>10, <1>11, <1>12, <1>13, <1>14

(* The libraries then: those there were, and one.                          *)
LEMMA EnteringRead ==
  ASSUME Walk, NEW t, Entering(t)
  PROVE  /\ visited' = visited \union {Lib!Path} /\ Lib!Path \notin visited /\ DOMAIN read = visited
         /\ DOMAIN read' = visited' /\ read'[Lib!Path] = t /\ (\A q \in visited : read'[q] = read[q])
         /\ Extends(read, read') /\ ReadSoFar' /\ Lib!IsProject(read')
PROOF
<1> DEFINE p == Lib!Path
<1>1. visited' = visited \union {p} /\ p \notin visited /\ DOMAIN read = visited /\ read' = Lib!Put(read, p, t)
  BY DEF Entering, Walk, ReadSoFar
<1>2. DOMAIN read' = visited' /\ read'[p] = t /\ IsFun(read')
  <2>1. DOMAIN Lib!Put(read, p, t) = DOMAIN read \union {p} /\ Lib!Put(read, p, t)[p] = t /\ IsFun(Lib!Put(read, p, t))
    BY DEF Lib!Put, IsFun
  <2>2. QED
    BY <1>1, <2>1 DEF IsFun
<1>3. \A q \in visited : read'[q] = read[q]
  <2>1. \A q \in DOMAIN read : q # p => Lib!Put(read, p, t)[q] = read[q]
    BY DEF Lib!Put
  <2>2. QED
    BY <1>1, <2>1
<1>4. Lib!IsProject(read')
  BY <1>1, ProjectPut DEF Walk, ReadSoFar, Entering
<1>5. Cardinality(visited') <= MaxModules
  <2>1. IsFiniteSet(visited) /\ Cardinality(visited) < MaxModules
    BY Finite DEF Walk, ReadSoFar, Lib!IsProject, Entering
  <2>2. Cardinality(visited') = Cardinality(visited) + 1 /\ Cardinality(visited) \in Nat
    BY <1>1, <2>1, FS_AddElement, FS_CardinalityType
  <2>3. MaxModules \in Nat
    BY ProjectConstants DEF Lib!LibraryConstants
  <2>4. QED
    BY <2>1, <2>2, <2>3
<1>6. \A q \in visited' : Lib!Library(read'[q])
  BY <1>1, <1>2, <1>3 DEF Walk, ReadSoFar, Entering
<1>7. ReadSoFar'
  BY <1>2, <1>4, <1>5, <1>6 DEF ReadSoFar
<1>8. Extends(read, read')
  BY <1>1, <1>2, <1>3 DEF Extends
<1>9. QED
  BY <1>1, <1>2, <1>3, <1>4, <1>7, <1>8

LEMMA WalkEnters ==
  ASSUME Walk, NEW t, Entering(t)
  PROVE  Walk'
PROOF
<1> DEFINE n == Len(stack)
           p == Lib!Path
<1>n. n \in Nat /\ n >= 1
  BY EnteringCalls DEF Walk
<1>m. n \in 1..n /\ n + 1 \in 1..(n + 1) /\ 1 \in 1..n /\ \A i \in 1..(n + 1) : i # n + 1 => i \in 1..n
  BY <1>n
<1>1. /\ IsSeq(stack') /\ Len(stack') = n + 1
      /\ \A i \in 1..n :
           /\ stack'[i] = [of |-> stack'[i].of, text |-> stack'[i].text, next |-> stack'[i].next]
           /\ stack'[i].of = stack[i].of /\ stack'[i].text = stack[i].text
           /\ i # n => stack'[i].next = stack[i].next
  BY EnteringCalls DEF Walk
<1>2. stack'[n].next = stack[n].next + 1 /\ stack[n] = Lib!Top
  BY EnteringCalls DEF Walk
<1>3. /\ stack'[n + 1].of = p /\ stack'[n + 1].text = t /\ stack'[n + 1].next = 1
      /\ stack'[n + 1] = [of |-> stack'[n + 1].of, text |-> stack'[n + 1].text, next |-> stack'[n + 1].next]
  <2>1. stack'[n + 1] = [of |-> p, text |-> t, next |-> 1]
    BY EnteringCalls DEF Walk
  <2>2. QED
    BY <2>1
<1>4. stack[n].next \in 1..Len(stack[n].text) /\ Len(stack[n].text) \in Nat /\ DOMAIN stack[n].text = 1..Len(stack[n].text)
  BY EnteringCalls DEF Walk
<1>5. stack[n].text[stack[n].next].k = "import" /\ Lib!Beside(stack[n].of, stack[n].text[stack[n].next]) = p
  BY EnteringCalls DEF Walk
<1>6. /\ visited' = visited \union {p} /\ p \notin visited /\ DOMAIN read = visited
      /\ DOMAIN read' = visited' /\ read'[p] = t /\ \A q \in visited : read'[q] = read[q]
  BY EnteringRead
<1>7. Extends(read, read') /\ ReadSoFar' /\ Lib!IsProject(read')
  BY EnteringRead
<1>8. Lib!IsProgram(t) /\ Len(t) \in Nat /\ DOMAIN t = 1..Len(t) /\ main' = main /\ out' = out
  BY ProgramIs DEF Entering
<1>9. stack[1].of = Lib!Root /\ stack[1].text = main
  BY DEF Walk, Calls
<1>10. \A i \in 1..n :
         /\ Lib!IsProgram(stack[i].text) /\ stack[i].next \in 1..(Len(stack[i].text) + 1)
         /\ i > 1 => stack[i].of \in visited /\ stack[i].text = read[stack[i].of]
  BY DEF Walk, Calls
<1>11. \A i, j \in 1..n : stack[i].of = stack[j].of => i = j
  BY DEF Walk, Calls
<1>12. \A i \in 1..n : i < n =>
         /\ stack[i].next > 1 /\ stack[i].text[stack[i].next - 1].k = "import"
         /\ Lib!Beside(stack[i].of, stack[i].text[stack[i].next - 1]) = stack[i + 1].of
  BY DEF Walk, Calls
<1>13. \A i, j \in 1..n : i < j => stack[j].of \in Lib!Reached(Lib!Targets(stack[i].text, stack[i].of), read)
  BY DEF Walk, MetIsReached
<1>14. \A i \in 1..n : \A m \in 1..Len(stack[i].text) :
         m < stack[i].next /\ stack[i].text[m].k = "import" =>
           Lib!Beside(stack[i].of, stack[i].text[m]) \in Finished \/ (i < n /\ m = stack[i].next - 1)
  BY DEF Walk, BehindIsFinished
<1> DEFINE Is(i, of, at) == of = stack[i].of /\ at \in DOMAIN stack[i].text /\ at < stack[i].next /\ stack[i].text[at].k # "import"
           Is1(i, of, at) == of = stack'[i].of /\ at \in DOMAIN stack'[i].text /\ at < stack'[i].next /\ stack'[i].text[at].k # "import"
           In(of, at) == of \in Finished /\ at \in DOMAIN read[of] /\ read[of][at].k # "import"
           In1(of, at) == of \in Finished' /\ at \in DOMAIN read'[of] /\ read'[of][at].k # "import"
<1>15. \A of, at : Behind(of, at, stack, read, Finished) <=> In(of, at) \/ \E i \in 1..n : Is(i, of, at)
  BY DEF Behind
<1>16. \A of, at : Behind(of, at, stack', read', Finished') <=> In1(of, at) \/ \E i \in 1..(n + 1) : Is1(i, of, at)
  BY <1>1 DEF Behind
<1>17. Lib!Active' = {stack'[i].of : i \in 2..(n + 1)} /\ \A q : q \in Lib!Active <=> \E i \in 1..n : i > 1 /\ stack[i].of = q
  BY <1>1, ActiveIs DEF Lib!Active, Walk
<1> HIDE DEF n, p, Is, Is1, In, In1
<1>18. \A i \in 1..n : stack[i].of # p
  <2>1. Lib!Root \notin visited' /\ p \in visited'
    BY <1>6, <1>7, RootApart
  <2>2. ASSUME NEW i \in 1..n PROVE stack[i].of # p
    <3>1. CASE i = 1
      BY <1>9, <2>1, <3>1
    <3>2. CASE i > 1
      BY <1>6, <1>10, <3>2
    <3>3. i = 1 \/ i > 1
      BY <1>n
    <3>4. QED
      BY <3>1, <3>2, <3>3
  <2>3. QED
    BY <2>2
<1>19. Calls'
  <2>1. ASSUME NEW i \in 1..(n + 1)
        PROVE  /\ stack'[i] = [of |-> stack'[i].of, text |-> stack'[i].text, next |-> stack'[i].next]
               /\ Lib!IsProgram(stack'[i].text) /\ stack'[i].next \in 1..(Len(stack'[i].text) + 1)
               /\ i > 1 => stack'[i].of \in visited' /\ stack'[i].text = read'[stack'[i].of]
    <3>1. CASE i = n + 1
      <4>1. p \in visited' /\ read'[p] = t /\ 1 \in 1..(Len(t) + 1)
        BY <1>6, <1>8
      <4>2. QED
        BY <1>3, <1>8, <3>1, <4>1
    <3>2. CASE i = n
      <4>1. stack[n].next + 1 \in 1..(Len(stack[n].text) + 1)
        BY <1>4
      <4>2. stack'[n].next = stack[n].next + 1 /\ stack'[n].text = stack[n].text
        BY <1>1, <1>2, <1>m
      <4>3. stack'[i].next \in 1..(Len(stack'[i].text) + 1)
        BY <3>2, <4>1, <4>2
      <4>4. i \in 1..n
        BY <1>m, <3>2
      <4>5. Lib!IsProgram(stack'[i].text) /\ (i > 1 => stack'[i].of \in visited' /\ stack'[i].text = read'[stack'[i].of])
        <5>1. stack'[i].text = stack[i].text /\ stack'[i].of = stack[i].of
          BY <1>1, <4>4
        <5>2. Lib!IsProgram(stack[i].text) /\ (i > 1 => stack[i].of \in visited /\ stack[i].text = read[stack[i].of])
          BY <1>10, <4>4
        <5>3. QED
          BY <1>6, <5>1, <5>2
      <4>6. QED
        BY <1>1, <4>3, <4>4, <4>5
    <3>3. CASE i \in 1..n /\ i # n
      <4>1. stack'[i].next = stack[i].next /\ stack'[i].text = stack[i].text /\ stack'[i].of = stack[i].of
        BY <1>1, <3>3
      <4>2. stack'[i].next \in 1..(Len(stack'[i].text) + 1) /\ Lib!IsProgram(stack'[i].text)
        BY <1>10, <3>3, <4>1
      <4>3. i > 1 => stack'[i].of \in visited' /\ stack'[i].text = read'[stack'[i].of]
        BY <1>6, <1>10, <3>3, <4>1
      <4>4. QED
        BY <1>1, <3>3, <4>2, <4>3
    <3>4. QED
      BY <1>m, <3>1, <3>2, <3>3
  <2>2. stack'[1].of = Lib!Root /\ stack'[1].text = main'
    BY <1>1, <1>8, <1>9, <1>m
  <2>3. ASSUME NEW i \in 1..(n + 1), NEW j \in 1..(n + 1), stack'[i].of = stack'[j].of
        PROVE  i = j
    <3>1. CASE i \in 1..n /\ j \in 1..n
      BY <1>1, <1>11, <2>3, <3>1
    <3>2. CASE i = n + 1 /\ j \in 1..n
      BY <1>1, <1>3, <1>18, <2>3, <3>2
    <3>3. CASE i \in 1..n /\ j = n + 1
      BY <1>1, <1>3, <1>18, <2>3, <3>3
    <3>4. CASE i = n + 1 /\ j = n + 1
      BY <3>4
    <3>5. QED
      BY <1>m, <3>1, <3>2, <3>3, <3>4
  <2>4. ASSUME NEW i \in 1..(n + 1), i < n + 1
        PROVE  /\ stack'[i].next > 1 /\ stack'[i].text[stack'[i].next - 1].k = "import"
               /\ Lib!Beside(stack'[i].of, stack'[i].text[stack'[i].next - 1]) = stack'[i + 1].of
    <3>1. CASE i = n
      <4>1. stack'[n].next > 1 /\ stack'[n].next - 1 = stack[n].next
        BY <1>2, <1>4
      <4>2. stack'[n].text = stack[n].text /\ stack'[n].of = stack[n].of
        BY <1>1, <1>m
      <4>3. QED
        BY <1>3, <1>5, <3>1, <4>1, <4>2
    <3>2. CASE i < n
      <4>1. i \in 1..n /\ i + 1 \in 1..n /\ i # n
        BY <1>n, <3>2
      <4>2. stack'[i].next = stack[i].next /\ stack'[i].text = stack[i].text /\ stack'[i].of = stack[i].of /\ stack'[i + 1].of = stack[i + 1].of
        BY <1>1, <4>1
      <4>3. QED
        BY <1>12, <3>2, <4>1, <4>2
    <3>3. i = n \/ i < n
      BY <1>n, <2>4
    <3>4. QED
      BY <3>1, <3>2, <3>3
  <2>5. Len(stack') >= 1
    BY <1>n, <1>1
  <2>6. IsSeq(stack') /\ Len(stack') = n + 1
    BY <1>1
  <2>7. QED
    BY <2>1, <2>2, <2>3, <2>4, <2>5, <2>6 DEF Calls
<1>20. Finished' = Finished
  <2>1. ASSUME NEW q \in visited PROVE q \in Lib!Active' <=> q \in Lib!Active
    <3>1. q # p
      BY <1>6
    <3>2. ASSUME q \in Lib!Active' PROVE q \in Lib!Active
      <4>1. PICK i \in 2..(n + 1) : stack'[i].of = q
        BY <1>17, <3>2
      <4>2. i # n + 1
        BY <1>3, <3>1, <4>1
      <4>3. i \in 1..n /\ i > 1
        BY <1>n, <4>2
      <4>4. QED
        BY <1>1, <1>17, <4>1, <4>3
    <3>3. ASSUME q \in Lib!Active PROVE q \in Lib!Active'
      <4>1. PICK i \in 1..n : i > 1 /\ stack[i].of = q
        BY <1>17, <3>3
      <4>2. i \in 2..(n + 1)
        BY <1>n, <4>1
      <4>3. stack'[i].of = q
        BY <1>1, <4>1
      <4>4. QED
        BY <1>17, <4>2, <4>3
    <3>4. QED
      BY <3>2, <3>3
  <2>2. p \in Lib!Active'
    <3>1. n + 1 \in 2..(n + 1)
      BY <1>n
    <3>2. QED
      BY <1>3, <1>17, <3>1
  <2>3. QED
    BY <1>6, <2>1, <2>2 DEF Finished
<1>21. MetIsReached'
  <2> DEFINE R0 == Lib!Reached(Lib!Targets(main, Lib!Root), read')
             R(k) == Lib!Reached(Lib!Targets(stack[k].text, stack[k].of), read)
             R1(k) == Lib!Reached(Lib!Targets(stack[k].text, stack[k].of), read')
  <2>1. visited' \subseteq R0
    <3>1. p \in R0 /\ visited \subseteq R0
      BY <1>7, PathReached DEF Lib!ReachedFrom, Entering, p
    <3>2. QED
      BY <1>6, <3>1
  <2>2. \A k : R(k) \subseteq R1(k)
    BY <1>7, ReachedGrows
  <2>3. Lib!Targets(stack[n].text, stack[n].of) \subseteq R1(n)
    BY ReachedHas
  <2>4. p \in Lib!Targets(stack[n].text, stack[n].of)
    BY <1>4, <1>5, TargetIs
  <2>5. ASSUME NEW i \in 1..(n + 1), NEW j \in 1..(n + 1), i < j
        PROVE  stack'[j].of \in Lib!Reached(Lib!Targets(stack'[i].text, stack'[i].of), read')
    <3>1. i \in 1..n
      BY <1>n, <2>5
    <3>2. stack'[i].text = stack[i].text /\ stack'[i].of = stack[i].of
      BY <1>1, <3>1
    <3>3. CASE j \in 1..n
      <4>1. stack'[j].of = stack[j].of /\ stack[j].of \in R(i)
        BY <1>1, <1>13, <2>5, <3>1, <3>3
      <4>2. QED
        BY <2>2, <3>2, <4>1
    <3>4. CASE j = n + 1 /\ i = n
      BY <1>3, <2>3, <2>4, <3>2, <3>4
    <3>5. CASE j = n + 1 /\ i # n
      <4>1. i < n /\ n > 1 /\ n \in 1..n
        BY <1>n, <3>1, <3>5
      <4>2. stack[n].of \in R1(i)
        BY <1>13, <2>2, <3>1, <4>1
      <4>3. stack[n].of \in DOMAIN read' /\ read'[stack[n].of] = stack[n].text
        BY <1>6, <1>10, <4>1
      <4>4. p \in R1(i)
        BY <2>4, <4>2, <4>3, ReachedOn
      <4>5. QED
        BY <1>3, <3>2, <3>5, <4>4
    <3>6. QED
      BY <1>m, <3>3, <3>4, <3>5
  <2> HIDE DEF R0, R, R1
  <2>6. visited' \subseteq Lib!Reached(Lib!Targets(main', Lib!Root), read')
    BY <1>8, <2>1 DEF R0
  <2>7. QED
    BY <1>1, <2>5, <2>6 DEF MetIsReached
<1>22. BehindIsFinished'
  <2>1. ASSUME NEW i \in 1..(n + 1), NEW m \in 1..Len(stack'[i].text), m < stack'[i].next, stack'[i].text[m].k = "import"
        PROVE  Lib!Beside(stack'[i].of, stack'[i].text[m]) \in Finished \/ (i < n + 1 /\ m = stack'[i].next - 1)
    <3>1. CASE i = n + 1
      <4>1. Len(t) \in Nat /\ m \in 1..Len(t) /\ m < 1
        BY <1>3, <1>8, <2>1, <3>1
      <4>2. QED
        BY <4>1
    <3>2. CASE i = n /\ m # stack[n].next
      <4>1. stack'[i].of = stack[i].of /\ stack'[i].text = stack[i].text /\ stack'[i].next = stack[n].next + 1 /\ m \in 1..Len(stack[n].text)
        BY <1>1, <1>2, <1>m, <3>2
      <4>2. m < stack[n].next
        BY <1>4, <2>1, <3>2, <4>1
      <4>3. Lib!Beside(stack[n].of, stack[n].text[m]) \in Finished
        BY <1>14, <1>n, <1>m, <2>1, <3>2, <4>1, <4>2
      <4>4. QED
        BY <3>2, <4>1, <4>3
    <3>3. CASE i = n /\ m = stack[n].next
      BY <1>2, <1>4, <1>n, <3>3
    <3>4. CASE i \in 1..n /\ i # n
      <4>1. stack'[i].of = stack[i].of /\ stack'[i].text = stack[i].text /\ stack'[i].next = stack[i].next
        BY <1>1, <3>4
      <4>2. m \in 1..Len(stack[i].text) /\ m < stack[i].next /\ stack[i].text[m].k = "import"
        BY <2>1, <4>1
      <4>3. i < n + 1
        BY <1>n, <3>4
      <4>4. Lib!Beside(stack[i].of, stack[i].text[m]) \in Finished \/ (i < n /\ m = stack[i].next - 1)
        BY <1>14, <3>4, <4>2
      <4>5. QED
        BY <4>1, <4>3, <4>4
    <3>5. QED
      BY <1>m, <3>1, <3>2, <3>3, <3>4
  <2>2. Len(stack') = n + 1
    BY <1>1
  <2>3. QED
    BY <1>20, <2>1, <2>2 DEF BehindIsFinished
<1>23. FinishedIsClosed' /\ FinishedIsAcyclic'
  <2>1. DOMAIN read' \intersect Finished \subseteq visited
    BY DEF Finished
  <2>2. QED
    BY <1>6, <1>7, <1>20, <2>1, FinishedSame DEF Walk
<1>24. ASSUME NEW of, NEW at PROVE Behind(of, at, stack', read', Finished') <=> Behind(of, at, stack, read, Finished)
  <2>1. In1(of, at) <=> In(of, at)
    BY <1>6, <1>20 DEF Finished, In, In1
  <2>2. \A i \in 1..n : i # n => (Is1(i, of, at) <=> Is(i, of, at))
    BY <1>1 DEF Is, Is1
  <2>3. ~Is1(n + 1, of, at)
    BY <1>3, <1>8 DEF Is1
  <2>4. Is1(n, of, at) <=> Is(n, of, at)
    <3>1. ASSUME at \in DOMAIN stack[n].text, stack[n].text[at].k # "import" PROVE at < stack[n].next + 1 <=> at < stack[n].next
      BY <1>4, <1>5, <3>1
    <3>2. stack'[n].of = stack[n].of /\ stack'[n].text = stack[n].text /\ stack'[n].next = stack[n].next + 1
      BY <1>1, <1>2, <1>m
    <3>3. QED
      BY <3>1, <3>2 DEF Is, Is1
  <2>5. (\E i \in 1..(n + 1) : Is1(i, of, at)) <=> \E i \in 1..n : Is(i, of, at)
    <3>1. ASSUME NEW i \in 1..(n + 1), Is1(i, of, at) PROVE i \in 1..n /\ Is(i, of, at)
      BY <1>m, <2>2, <2>3, <2>4, <3>1
    <3>2. ASSUME NEW i \in 1..n, Is(i, of, at) PROVE i \in 1..(n + 1) /\ Is1(i, of, at)
      <4>1. i \in 1..(n + 1)
        BY <1>n
      <4>2. QED
        BY <2>2, <2>4, <3>2, <4>1
    <3>3. QED
      BY <3>1, <3>2
  <2>6. QED
    BY <1>15, <1>16, <2>1, <2>5
<1>25. Expanded'
  BY <1>8, <1>24, ExpandedSame DEF Walk
<1>26. QED
  BY <1>7, <1>19, <1>21, <1>22, <1>23, <1>25 DEF Walk

(* A library is left: it is finished.                                      *)
LEMMA WalkLeaves ==
  ASSUME Walk, ~Lib!More, Len(stack) > 1, stack' = Lib!Front(stack), UNCHANGED <<main, visited, read, out>>
  PROVE  Walk'
PROOF
<1> DEFINE n == Len(stack)
           p == stack[n].of
<1>n. n \in Nat /\ n > 1
  BY TopIs DEF Walk
<1>m. n \in 1..n /\ 1 \in 1..(n - 1) /\ (\A i \in 1..(n - 1) : i \in 1..n /\ i # n) /\ \A i \in 1..n : i # n => i \in 1..(n - 1)
  BY <1>n
<1>1. IsSeq(stack') /\ Len(stack') = n - 1 /\ \A i \in 1..(n - 1) : stack'[i] = stack[i]
  <2>1. IsSeq(stack) /\ Len(stack) >= 1
    BY DEF Walk, Calls
  <2>2. QED
    BY <2>1, SequenceFront
<1>2. stack[n] = Lib!Top /\ stack[n].next = Len(stack[n].text) + 1 /\ Len(stack[n].text) \in Nat /\ DOMAIN stack[n].text = 1..Len(stack[n].text)
  BY TopIs DEF Walk, Lib!Top
<1>3. p \in visited /\ read[p] = stack[n].text /\ DOMAIN read = visited
  BY <1>n, <1>m DEF Walk, Calls, ReadSoFar
<1>4. stack[1].of = Lib!Root /\ stack[1].text = main
  BY DEF Walk, Calls
<1>5. \A i \in 1..n :
        /\ stack[i] = [of |-> stack[i].of, text |-> stack[i].text, next |-> stack[i].next]
        /\ Lib!IsProgram(stack[i].text) /\ stack[i].next \in 1..(Len(stack[i].text) + 1)
        /\ i > 1 => stack[i].of \in visited /\ stack[i].text = read[stack[i].of]
  BY DEF Walk, Calls
<1>6. \A i, j \in 1..n : stack[i].of = stack[j].of => i = j
  BY DEF Walk, Calls
<1>7. \A i \in 1..n : i < n =>
        /\ stack[i].next > 1 /\ stack[i].text[stack[i].next - 1].k = "import"
        /\ Lib!Beside(stack[i].of, stack[i].text[stack[i].next - 1]) = stack[i + 1].of
  BY DEF Walk, Calls
<1>8. \A i, j \in 1..n : i < j => stack[j].of \in Lib!Reached(Lib!Targets(stack[i].text, stack[i].of), read)
  BY DEF Walk, MetIsReached
<1>9. \A i \in 1..n : \A m \in 1..Len(stack[i].text) :
        m < stack[i].next /\ stack[i].text[m].k = "import" =>
          Lib!Beside(stack[i].of, stack[i].text[m]) \in Finished \/ (i < n /\ m = stack[i].next - 1)
  BY DEF Walk, BehindIsFinished
<1> DEFINE Is(i, of, at) == of = stack[i].of /\ at \in DOMAIN stack[i].text /\ at < stack[i].next /\ stack[i].text[at].k # "import"
           Is1(i, of, at) == of = stack'[i].of /\ at \in DOMAIN stack'[i].text /\ at < stack'[i].next /\ stack'[i].text[at].k # "import"
           In(of, at) == of \in Finished /\ at \in DOMAIN read[of] /\ read[of][at].k # "import"
           In1(of, at) == of \in Finished' /\ at \in DOMAIN read'[of] /\ read'[of][at].k # "import"
<1>10. \A of, at : Behind(of, at, stack, read, Finished) <=> In(of, at) \/ \E i \in 1..n : Is(i, of, at)
  BY DEF Behind
<1>11. \A of, at : Behind(of, at, stack', read', Finished') <=> In1(of, at) \/ \E i \in 1..(n - 1) : Is1(i, of, at)
  BY <1>1 DEF Behind
<1>12. Lib!Active' = {stack'[i].of : i \in 2..(n - 1)} /\ \A q : q \in Lib!Active <=> \E i \in 1..n : i > 1 /\ stack[i].of = q
  BY <1>1, ActiveIs DEF Lib!Active, Walk
<1> HIDE DEF n, p, Is, Is1, In, In1
<1>13. Finished' = Finished \union {p}
  <2>1. ASSUME NEW q, q # p PROVE q \in Lib!Active' <=> q \in Lib!Active
    <3>1. ASSUME q \in Lib!Active' PROVE q \in Lib!Active
      <4>1. PICK i \in 2..(n - 1) : stack'[i].of = q
        BY <1>12, <3>1
      <4>2. i \in 1..(n - 1) /\ i \in 1..n /\ i > 1
        BY <1>n
      <4>3. QED
        BY <1>1, <1>12, <4>1, <4>2
    <3>2. ASSUME q \in Lib!Active PROVE q \in Lib!Active'
      <4>1. PICK i \in 1..n : i > 1 /\ stack[i].of = q
        BY <1>12, <3>2
      <4>2. i # n
        BY <2>1, <4>1 DEF p
      <4>3. i \in 2..(n - 1) /\ i \in 1..(n - 1)
        BY <1>n, <4>1, <4>2
      <4>4. QED
        BY <1>1, <1>12, <4>1, <4>3
    <3>3. QED
      BY <3>1, <3>2
  <2>2. p \notin Lib!Active'
    <3>1. ASSUME NEW i \in 2..(n - 1), stack'[i].of = p PROVE FALSE
      <4>1. i \in 1..(n - 1) /\ i \in 1..n /\ i # n
        BY <1>n
      <4>2. stack[i].of = stack[n].of
        BY <1>1, <3>1, <4>1 DEF p
      <4>3. QED
        BY <1>m, <1>6, <4>1, <4>2
    <3>2. QED
      BY <1>12, <3>1
  <2>3. QED
    BY <1>3, <2>1, <2>2 DEF Finished
<1>14. p \notin Finished
  <2>1. p \in Lib!Active
    BY <1>n, <1>m, <1>12 DEF p
  <2>2. QED
    BY <2>1 DEF Finished
<1>15. Lib!Targets(read[p], p) \subseteq Finished
  <2>1. ASSUME NEW i \in DOMAIN stack[n].text, stack[n].text[i].k = "import"
        PROVE  Lib!Beside(p, stack[n].text[i]) \in Finished
    <3>1. i \in 1..Len(stack[n].text) /\ i < stack[n].next /\ ~(n < n)
      BY <1>n, <1>2
    <3>2. QED
      BY <1>m, <1>9, <2>1, <3>1 DEF p
  <2>2. QED
    BY <1>3, <2>1 DEF Lib!Targets
<1>16. Calls'
  <2>1. ASSUME NEW i \in 1..(n - 1)
        PROVE  /\ stack'[i] = [of |-> stack'[i].of, text |-> stack'[i].text, next |-> stack'[i].next]
               /\ Lib!IsProgram(stack'[i].text) /\ stack'[i].next \in 1..(Len(stack'[i].text) + 1)
               /\ i > 1 => stack'[i].of \in visited' /\ stack'[i].text = read'[stack'[i].of]
    <3>1. stack'[i] = stack[i] /\ i \in 1..n
      BY <1>1, <1>m
    <3>2. QED
      BY <1>5, <3>1
  <2>2. stack'[1].of = Lib!Root /\ stack'[1].text = main'
    BY <1>1, <1>4, <1>m
  <2>3. \A i, j \in 1..(n - 1) : stack'[i].of = stack'[j].of => i = j
    BY <1>1, <1>6, <1>m
  <2>4. ASSUME NEW i \in 1..(n - 1), i < n - 1
        PROVE  /\ stack'[i].next > 1 /\ stack'[i].text[stack'[i].next - 1].k = "import"
               /\ Lib!Beside(stack'[i].of, stack'[i].text[stack'[i].next - 1]) = stack'[i + 1].of
    <3>1. i \in 1..n /\ i < n /\ i + 1 \in 1..(n - 1)
      BY <1>n, <2>4
    <3>2. stack'[i] = stack[i] /\ stack'[i + 1] = stack[i + 1]
      BY <1>1, <3>1
    <3>3. QED
      BY <1>7, <3>1, <3>2
  <2>5. IsSeq(stack') /\ Len(stack') = n - 1 /\ Len(stack') >= 1
    BY <1>n, <1>1
  <2>6. QED
    BY <2>1, <2>2, <2>3, <2>4, <2>5 DEF Calls
<1>17. ReadSoFar'
  BY DEF Walk, ReadSoFar
<1>18. MetIsReached'
  <2>1. visited \subseteq Lib!Reached(Lib!Targets(main, Lib!Root), read)
    BY DEF Walk, MetIsReached
  <2>2. ASSUME NEW i \in 1..(n - 1), NEW j \in 1..(n - 1), i < j
        PROVE  stack'[j].of \in Lib!Reached(Lib!Targets(stack'[i].text, stack'[i].of), read')
    BY <1>1, <1>8, <1>m, <2>2
  <2>3. QED
    BY <1>1, <2>1, <2>2 DEF MetIsReached
<1>19. BehindIsFinished'
  <2>1. ASSUME NEW i \in 1..(n - 1), NEW m \in 1..Len(stack'[i].text), m < stack'[i].next, stack'[i].text[m].k = "import"
        PROVE  Lib!Beside(stack'[i].of, stack'[i].text[m]) \in Finished' \/ (i < n - 1 /\ m = stack'[i].next - 1)
    <3>1. stack'[i] = stack[i] /\ i \in 1..n /\ m \in 1..Len(stack[i].text) /\ m < stack[i].next /\ stack[i].text[m].k = "import"
      BY <1>1, <1>m, <2>1
    <3>2. CASE Lib!Beside(stack[i].of, stack[i].text[m]) \in Finished
      BY <1>13, <3>1, <3>2
    <3>3. CASE i < n /\ m = stack[i].next - 1 /\ i # n - 1
      <4>1. i < n - 1
        BY <1>n, <3>3
      <4>2. QED
        BY <3>1, <3>3, <4>1
    <3>4. CASE m = stack[i].next - 1 /\ i = n - 1
      <4>1. i < n /\ i + 1 = n
        BY <1>n, <3>4
      <4>2. Lib!Beside(stack[i].of, stack[i].text[m]) = p
        BY <1>7, <3>1, <3>4, <4>1 DEF p
      <4>3. QED
        BY <1>13, <3>1, <4>2
    <3>5. QED
      BY <1>9, <3>1, <3>2, <3>3, <3>4
  <2>2. QED
    BY <1>1, <2>1 DEF BehindIsFinished
<1>20. FinishedIsClosed'
  BY <1>13, <1>15 DEF FinishedIsClosed, Walk
<1>21. FinishedIsAcyclic'
  <2>1. Lib!Closed(Finished, read)
    BY DEF Walk, FinishedIsClosed, Lib!Closed
  <2>2. ASSUME NEW q \in Finished'
        PROVE  \E X \in SUBSET Finished' : Lib!Closed(X, read) /\ Lib!Targets(read[q], q) \subseteq X /\ q \notin X
    <3>1. CASE q = p
      BY <1>13, <1>14, <1>15, <2>1, <3>1
    <3>2. CASE q \in Finished
      <4>1. PICK X \in SUBSET Finished : Lib!Closed(X, read) /\ Lib!Targets(read[q], q) \subseteq X /\ q \notin X
        BY <3>2 DEF Walk, FinishedIsAcyclic
      <4>2. X \in SUBSET Finished'
        BY <1>13
      <4>3. QED
        BY <4>1, <4>2
    <3>3. QED
      BY <1>13, <3>1, <3>2
  <2>3. QED
    BY <2>2 DEF FinishedIsAcyclic
<1>22. ASSUME NEW of, NEW at PROVE Behind(of, at, stack', read', Finished') <=> Behind(of, at, stack, read, Finished)
  <2>1. \A i \in 1..(n - 1) : Is1(i, of, at) <=> Is(i, of, at)
    BY <1>1 DEF Is, Is1
  <2>2. Is(n, of, at) <=> of = p /\ at \in DOMAIN read[p] /\ read[p][at].k # "import"
    <3>1. at \in DOMAIN stack[n].text => at < stack[n].next
      BY <1>2
    <3>2. QED
      BY <1>3, <3>1 DEF Is, p
  <2>3. In1(of, at) <=> In(of, at) \/ Is(n, of, at)
    BY <1>13, <2>2 DEF In, In1
  <2>4. (\E i \in 1..n : Is(i, of, at)) <=> (\E i \in 1..(n - 1) : Is1(i, of, at)) \/ Is(n, of, at)
    BY <1>m, <2>1
  <2>5. QED
    BY <1>10, <1>11, <2>3, <2>4
<1>23. Expanded'
  BY <1>22, ExpandedSame DEF Walk
<1>24. QED
  BY <1>16, <1>17, <1>18, <1>19, <1>20, <1>21, <1>23 DEF Walk

(* The walk begins with the source, whenever it does.                      *)
AtBeginning == Lib!IsProgram(main) /\ stack = <<Lib!Call(Lib!Root, main)>> /\ visited = {} /\ read = << >> /\ out = << >>
LEMMA WalkBegins == AtBeginning => Walk
PROOF
<1> SUFFICES ASSUME AtBeginning PROVE Walk
  OBVIOUS
<1>0. Lib!IsProgram(main) /\ stack = <<Lib!Call(Lib!Root, main)>> /\ visited = {} /\ read = << >> /\ out = << >>
  BY DEF AtBeginning
<1> DEFINE c == [of |-> Lib!Root, text |-> main, next |-> 1]
<1>1. IsSeq(stack) /\ Len(stack) = 1 /\ stack[1] = c
  BY <1>0, SingleSequence DEF Lib!Call
<1>2. IsSeq(out) /\ Len(out) = 0 /\ IsFun(read) /\ DOMAIN read = {}
  BY <1>0, EmptySequence, EmptyFunction
<1>3. Len(main) \in Nat
  BY <1>0, ProgramIs
<1>4. \A i \in 1..Len(stack) : i = 1 /\ stack[i] = c
  BY <1>1
<1>5. c.of = Lib!Root /\ c.text = main /\ c.next = 1 /\ c.next \in 1..(Len(c.text) + 1) /\ c = [of |-> c.of, text |-> c.text, next |-> c.next]
  BY <1>3
<1> HIDE DEF c
<1>6. Calls
  BY <1>0, <1>1, <1>4, <1>5 DEF Calls
<1>7. Lib!IsFiniteSet({}) /\ Cardinality({}) = 0 /\ MaxModules \in Nat
  BY Finite, FS_EmptySet, ProjectConstants DEF Lib!LibraryConstants
<1>8. ReadSoFar
  BY <1>0, <1>2, <1>7 DEF ReadSoFar, Lib!IsProject
<1>9. MetIsReached
  BY <1>0, <1>4 DEF MetIsReached
<1>10. \A i \in 1..Len(stack) : \A m \in 1..Len(stack[i].text) : ~(m < stack[i].next)
  BY <1>3, <1>4, <1>5
<1>11. BehindIsFinished
  BY <1>10 DEF BehindIsFinished
<1>12. Finished = {}
  BY <1>0 DEF Finished
<1>13. FinishedIsClosed /\ FinishedIsAcyclic
  BY <1>0, <1>12 DEF FinishedIsClosed, FinishedIsAcyclic
<1>14. \A of, at : ~Behind(of, at, stack, read, Finished)
  <2>1. \A i \in 1..Len(stack) : DOMAIN stack[i].text = 1..Len(stack[i].text)
    BY <1>0, <1>4, <1>5, ProgramIs
  <2>2. QED
    BY <1>10, <1>12, <2>1 DEF Behind
<1>15. Expanded
  BY <1>0, <1>2, <1>14 DEF Expanded
<1>16. QED
  BY <1>6, <1>8, <1>9, <1>11, <1>13, <1>15 DEF Walk

LEMMA WalkAlwaysBegins == [](AtBeginning => Walk)
PROOF BY WalkBegins, PTL

-----------------------------------------------------------------------------
(* The order.  A walk goes on by what is read next, and by nothing else.   *)
LEMMA GoesFurther ==
  ASSUME NEW c, NEW d, NEW f, NEW g, Goes(c, d, f), Extends(f, g)
  PROVE  Goes(c, d, g)
PROOF
<1> DEFINE LibraryReads == Innermost(c).next <= Len(Innermost(c).text) /\ NextStatement(c).k = "import" /\ Named(c) \notin c.met
<1>1. ~Ended(c) /\ (LibraryReads => Named(c) \in DOMAIN f) /\ d = After(c, f)
  BY DEF Goes
<1>2. LibraryReads => Named(c) \in DOMAIN g /\ g[Named(c)] = f[Named(c)]
  BY <1>1 DEF Extends
<1>3. After(c, f) = After(c, g)
  <2>1. CASE LibraryReads
    BY <1>2, <2>1 DEF After
  <2>2. CASE ~LibraryReads
    BY <2>2 DEF After
  <2>3. QED
    BY <2>1, <2>2
<1>4. QED
  BY <1>1, <1>2, <1>3 DEF Goes

LEMMA WalksOn ==
  ASSUME NEW c, NEW d, NEW m, NEW f, NEW g, WalksTo(c, m, f), Extends(f, g), Goes(c, d, g)
  PROVE  WalksTo(d, m, g)
PROOF
<1>1. PICK T, n : Walks(T, n, m, f) /\ T[n] = c
  BY DEF WalksTo
<1> DEFINE U == [i \in 1..(n + 1) |-> IF i = n + 1 THEN d ELSE T[i]]
<1>2. n \in Nat /\ n >= 1 /\ T[1] = Beginning(m) /\ \A i \in 1..n : i < n => Goes(T[i], T[i + 1], f)
  BY <1>1 DEF Walks
<1>3. U[1] = T[1] /\ U[n + 1] = d /\ U[n] = c /\ \A i \in 1..n : U[i] = T[i]
  BY <1>1, <1>2
<1> HIDE DEF U
<1>4. ASSUME NEW i \in 1..(n + 1), i < n + 1 PROVE Goes(U[i], U[i + 1], g)
  <2>1. CASE i = n
    BY <1>3, <2>1
  <2>2. CASE i < n
    <3>1. i \in 1..n /\ i + 1 \in 1..n
      BY <1>2, <2>2
    <3>2. Goes(T[i], T[i + 1], g)
      BY <1>2, <2>2, <3>1, GoesFurther
    <3>3. QED
      BY <1>3, <3>1, <3>2
  <2>3. i = n \/ i < n
    BY <1>2, <1>4
  <2>4. QED
    BY <2>1, <2>2, <2>3
<1>5. n + 1 \in Nat /\ n + 1 >= 1
  BY <1>2
<1>6. Walks(U, n + 1, m, g)
  BY <1>2, <1>3, <1>4, <1>5 DEF Walks
<1>7. QED
  BY <1>3, <1>6 DEF WalksTo

LEMMA WalkFollows ==
  ASSUME NEW T, NEW n, NEW m, NEW r, Makes(T, n, m, r), NEW k \in 1..n, NEW d, Goes(T[k], d, r.imports)
  PROVE  k + 1 \in 1..n /\ T[k + 1] = d
PROOF
<1>1. n \in Nat /\ Ended(T[n]) /\ \A i \in 1..n : i < n => Goes(T[i], T[i + 1], r.imports)
  BY DEF Makes, Walks
<1>2. k # n
  BY <1>1 DEF Goes
<1>3. k < n /\ k + 1 \in 1..n
  BY <1>1, <1>2
<1>4. Goes(T[k], T[k + 1], r.imports)
  BY <1>1, <1>3
<1>5. QED
  BY <1>3, <1>4 DEF Goes

LEMMA WalkArrives ==
  ASSUME NEW T, NEW n, NEW m, NEW r, Makes(T, n, m, r), NEW k \in 1..n, Ended(T[k])
  PROVE  T[k].out = r.out
PROOF
<1>1. n \in Nat /\ T[n].out = r.out /\ \A i \in 1..n : i < n => Goes(T[i], T[i + 1], r.imports)
  BY DEF Makes, Walks
<1>2. ~(k < n)
  BY <1>1 DEF Goes
<1>3. k = n
  BY <1>1, <1>2
<1>4. QED
  BY <1>1, <1>3

(* What visit does, as a walk.                                             *)
LEMMA HereIs ==
  /\ Innermost(Here) = Lib!Top /\ Ahead(Here) = Lib!Advanced /\ NextStatement(Here) = Lib!Stmt /\ Named(Here) = Lib!Path
  /\ Ended(Here) <=> Len(stack) = 1 /\ ~Lib!More
  /\ Here.calls = stack /\ Here.met = visited /\ Here.out = out
PROOF
<1>1. Here.calls = stack /\ Here.met = visited /\ Here.out = out
  BY DEF Here
<1>2. Innermost(Here) = Lib!Top
  BY <1>1 DEF Innermost, Lib!Top
<1>3. Ahead(Here) = Lib!Advanced
  BY <1>1 DEF Ahead, Lib!Advanced
<1>4. NextStatement(Here) = Lib!Stmt
  BY <1>2 DEF NextStatement, Lib!Stmt
<1>5. Named(Here) = Lib!Path
  BY <1>2, <1>4 DEF Named, Lib!Path
<1>6. Ended(Here) <=> Len(stack) = 1 /\ ~Lib!More
  BY <1>1, <1>2 DEF Ended, Lib!More
<1>7. QED
  BY <1>1, <1>2, <1>3, <1>4, <1>5, <1>6

(* A step of visit that goes on.                                           *)
Visits(source) ==
  /\ main' = main
  /\ \/ Lib!More /\ Lib!Stmt.k # "import" /\ stack' = Lib!Advanced /\ UNCHANGED <<visited, read>>
          /\ out' = Append(out, [of |-> Lib!Top.of, at |-> Lib!Top.next])
     \/ Lib!More /\ Lib!Stmt.k = "import" /\ Lib!Path \in Finished /\ stack' = Lib!Advanced /\ UNCHANGED <<visited, read, out>>
     \/ Lib!Path \in DOMAIN source /\ Entering(source[Lib!Path])
     \/ ~Lib!More /\ Len(stack) > 1 /\ stack' = Lib!Front(stack) /\ UNCHANGED <<visited, read, out>>

LEMMA VisitsWalk ==
  ASSUME Walk, NEW source, Visits(source)
  PROVE  Walk' /\ Extends(read, read') /\ (Extends(read, source) => Extends(read', source))
PROOF
<1>1. ASSUME UNCHANGED read PROVE Extends(read, read') /\ (Extends(read, source) => Extends(read', source))
  BY <1>1 DEF Extends
<1>2. CASE Lib!More /\ Lib!Stmt.k # "import" /\ stack' = Lib!Advanced /\ UNCHANGED <<visited, read>>
          /\ out' = Append(out, [of |-> Lib!Top.of, at |-> Lib!Top.next])
  BY <1>1, <1>2, WalkKeeps DEF Visits
<1>3. CASE Lib!More /\ Lib!Stmt.k = "import" /\ Lib!Path \in Finished /\ stack' = Lib!Advanced /\ UNCHANGED <<visited, read, out>>
  BY <1>1, <1>3, WalkAgain DEF Visits
<1>4. CASE Lib!Path \in DOMAIN source /\ Entering(source[Lib!Path])
  <2> DEFINE t == source[Lib!Path]
             p == Lib!Path
  <2>1. Walk'
    BY <1>4, WalkEnters
  <2>2. /\ visited' = visited \union {p} /\ DOMAIN read = visited /\ DOMAIN read' = visited' /\ read'[p] = t
        /\ \A q \in visited : read'[q] = read[q]
    BY <1>4, EnteringRead
  <2>3. Extends(read, read')
    BY <1>4, EnteringRead
  <2>4. Extends(read, source) => Extends(read', source)
    BY <1>4, <2>2 DEF Extends
  <2>5. QED
    BY <2>1, <2>3, <2>4
<1>5. CASE ~Lib!More /\ Len(stack) > 1 /\ stack' = Lib!Front(stack) /\ UNCHANGED <<visited, read, out>>
  BY <1>1, <1>5, WalkLeaves DEF Visits
<1>6. QED
  BY <1>2, <1>3, <1>4, <1>5 DEF Visits

LEMMA VisitsGo ==
  ASSUME Walk, NEW source, Visits(source), NEW g, Extends(read', g)
  PROVE  Goes(Here, Here', g)
PROOF
<1>1. Here' = [calls |-> stack', met |-> visited', out |-> out']
  BY DEF Here
<1>2. Lib!More <=> Innermost(Here).next <= Len(Innermost(Here).text)
  BY HereIs DEF Lib!More
<1>3. CASE Lib!More /\ Lib!Stmt.k # "import" /\ stack' = Lib!Advanced /\ UNCHANGED <<visited, read>>
          /\ out' = Append(out, [of |-> Lib!Top.of, at |-> Lib!Top.next])
  BY <1>1, <1>2, <1>3, HereIs DEF Goes, After
<1>4. CASE Lib!More /\ Lib!Stmt.k = "import" /\ Lib!Path \in Finished /\ stack' = Lib!Advanced /\ UNCHANGED <<visited, read, out>>
  BY <1>1, <1>2, <1>4, HereIs DEF Goes, After, Finished
<1>5. CASE Lib!Path \in DOMAIN source /\ Entering(source[Lib!Path])
  <2> DEFINE t == source[Lib!Path]
             p == Lib!Path
  <2>1. visited' = visited \union {p} /\ p \notin visited /\ DOMAIN read' = visited' /\ read'[p] = t
    BY <1>5, EnteringRead
  <2>2. p \in DOMAIN g /\ g[p] = t
    BY <2>1 DEF Extends
  <2>3. stack' = Append(Lib!Advanced, Lib!Call(p, t)) /\ out' = out /\ Lib!More /\ Lib!Stmt.k = "import"
    BY <1>5 DEF Entering
  <2> HIDE DEF t, p
  <2>4. Named(Here) = p
    BY HereIs DEF p
  <2>5. After(Here, g) = [calls |-> Append(Lib!Advanced, Lib!Call(p, t)), met |-> visited \union {p}, out |-> out]
    BY <1>2, <2>1, <2>2, <2>3, <2>4, HereIs DEF After
  <2>6. ~Ended(Here)
    BY <2>3, HereIs
  <2>7. Here' = After(Here, g)
    BY <1>1, <2>1, <2>3, <2>5
  <2>8. QED
    BY <2>2, <2>4, <2>6, <2>7 DEF Goes
<1>6. CASE ~Lib!More /\ Len(stack) > 1 /\ stack' = Lib!Front(stack) /\ UNCHANGED <<visited, read, out>>
  <2> DEFINE n == Len(stack)
  <2>n. n \in Nat /\ n > 1
    BY <1>6, TopIs DEF Walk
  <2> HIDE DEF n
  <2>m. n # 1
    BY <2>n
  <2>1. Len(stack) # 1
    BY <2>m DEF n
  <2>2. QED
    BY <1>1, <1>2, <1>6, <2>1, HereIs DEF Goes, After
<1>7. QED
  BY <1>3, <1>4, <1>5, <1>6 DEF Visits

-----------------------------------------------------------------------------
(* The steps of the model are steps of the walk.                           *)
LEMMA SourceIs ==
  ASSUME LibrariesInv, Lib!Resolving
  PROVE  Lib!IsProject(Lib!Source) /\ Walk
PROOF
<1>1. Lib!IsProject(disk) /\ Lib!IsProject(entries)
  BY DEF LibrariesInv, Readable
<1>2. Lib!Source = disk \/ Lib!Source = entries
  BY DEF Lib!Source
<1>3. QED
  BY <1>1, <1>2 DEF LibrariesInv, Walking

LEMMA StepsVisit ==
  ASSUME LibrariesInv, Lib!Keep \/ Lib!Again \/ (Lib!Enter /\ state' = state) \/ Lib!Leave
  PROVE  Lib!Resolving /\ Visits(Lib!Source) /\ UNCHANGED <<state, main, disk, entries, objects, first>>
PROOF
<1>1. CASE Lib!Keep
  BY <1>1 DEF Lib!Keep, Lib!Outside, Visits
<1>2. CASE Lib!Again
  BY <1>2 DEF Lib!Again, Lib!Importing, Lib!Outside, Visits, Finished
<1>3. CASE Lib!Enter /\ state' = state
  <2> DEFINE p == Lib!Path
             t == Lib!Source[p]
  <2>1. Lib!Resolving /\ Lib!More /\ Lib!Stmt.k = "import" /\ p \notin visited /\ Lib!Cardinality(visited) < MaxModules /\ p \in DOMAIN Lib!Source
    BY <1>3 DEF Lib!Enter, Lib!New, Lib!Importing
  <2>2. Lib!IsProject(Lib!Source)
    BY <2>1, SourceIs
  <2>3. p \in Lib!LibraryPaths /\ Lib!IsProgram(t)
    BY <2>1, <2>2 DEF Lib!IsProject
  <2>4. Lib!Library(t) /\ stack' = Append(Lib!Advanced, Lib!Call(p, t))
    <3>1. Lib!Refuse => state' # state
      BY <2>1 DEF Lib!Refuse, Lib!Resolving
    <3>2. QED
      BY <1>3, <3>1 DEF Lib!Enter
  <2>5. visited' = visited \union {p} /\ read' = Lib!Put(read, p, t) /\ UNCHANGED <<out, main, disk, entries, objects, first>>
    BY <1>3 DEF Lib!Enter, Lib!Outside
  <2>6. Cardinality(visited) < MaxModules
    BY <2>1, Finite
  <2>7. Entering(t)
    BY <2>1, <2>3, <2>4, <2>5, <2>6 DEF Entering
  <2>8. QED
    BY <1>3, <2>1, <2>5, <2>7 DEF Visits
<1>4. CASE Lib!Leave
  BY <1>4 DEF Lib!Leave, Lib!Outside, Visits
<1>5. QED
  BY <1>1, <1>2, <1>3, <1>4

LEMMA VisitStep ==
  ASSUME LibrariesInv, Lib!Keep \/ Lib!Again \/ (Lib!Enter /\ state' = state) \/ Lib!Leave
  PROVE  LibrariesInv'
PROOF
<1> DEFINE source == Lib!Source
<1>1. Lib!Resolving /\ Visits(source) /\ UNCHANGED <<state, main, disk, entries, objects, first>>
  BY StepsVisit
<1>2. state \in {"resolving", "verifying"}
  BY <1>1 DEF Lib!Resolving
<1>3. Walk
  BY <1>1, SourceIs
<1>4. Walk' /\ Extends(read, read') /\ (Extends(read, source) => Extends(read', source))
  BY <1>1, <1>3, VisitsWalk
<1>5. \A g : Extends(read', g) => Goes(Here, Here', g)
  BY <1>1, <1>3, VisitsGo
<1>6. Orderly'
  <2>1. ASSUME state = "resolving" PROVE WalksTo(Here', main, read')
    <3>1. WalksTo(Here, main, read)
      BY <2>1 DEF LibrariesInv, Orderly
    <3>2. Extends(read', read')
      BY DEF Extends
    <3>3. Goes(Here, Here', read')
      BY <1>5, <3>2
    <3>4. QED
      BY <1>4, <3>1, <3>3, WalksOn
  <2>2. QED
    BY <1>1, <2>1 DEF Orderly
<1>7. Verifying'
  <2>1. ASSUME state = "verifying"
        PROVE  /\ Extends(read', entries) /\ Lib!ObjectsThere
               /\ entries = first.imports => \E T, n : Makes(T, n, main, first) /\ \E k \in 1..n : T[k] = Here'
    <3>1. Extends(read, entries) /\ Lib!ObjectsThere /\ source = entries
      BY <2>1 DEF LibrariesInv, Verifying, Lib!Source
    <3>2. Extends(read', entries)
      BY <1>4, <3>1
    <3>3. ASSUME entries = first.imports
          PROVE  \E T, n : Makes(T, n, main, first) /\ \E k \in 1..n : T[k] = Here'
      <4>1. PICK T, n : Makes(T, n, main, first) /\ \E k \in 1..n : T[k] = Here
        BY <2>1, <3>3 DEF LibrariesInv, Verifying
      <4>2. PICK k \in 1..n : T[k] = Here
        BY <4>1
      <4>3. Goes(T[k], Here', first.imports)
        BY <1>5, <3>2, <3>3, <4>2
      <4>4. k + 1 \in 1..n /\ T[k + 1] = Here'
        BY <4>1, <4>3, WalkFollows
      <4>5. QED
        BY <4>1, <4>4
    <3>4. QED
      BY <3>1, <3>2, <3>3
  <2>2. Lib!ObjectsThere' <=> Lib!ObjectsThere
    BY <1>1 DEF Lib!ObjectsThere
  <2>3. QED
    BY <1>1, <2>1, <2>2 DEF Verifying
<1>8. States' /\ Readable' /\ Walking'
  BY <1>1, <1>4 DEF LibrariesInv, States, Readable, Walking
<1>9. Resolved'
  BY <1>1 DEF LibrariesInv, Resolved
<1>10. NotResolved' /\ Verified' /\ Rejected'
  BY <1>1, <1>2 DEF NotResolved, Verified, Rejected
<1>11. QED
  BY <1>6, <1>7, <1>8, <1>9, <1>10 DEF LibrariesInv

(* What ends in a refusal.                                                 *)
LEMMA RefuseStep ==
  ASSUME LibrariesInv, Lib!Cycle \/ Lib!Full \/ Lib!Unreadable \/ (Lib!Enter /\ state' # state)
  PROVE  LibrariesInv'
PROOF
<1> DEFINE p == Lib!Path
           source == Lib!Source
<1>1. Lib!Resolving /\ Lib!More /\ Lib!Stmt.k = "import" /\ UNCHANGED <<main, disk, entries, objects, first>>
  BY DEF Lib!Cycle, Lib!Full, Lib!Unreadable, Lib!Enter, Lib!New, Lib!Importing, Lib!Outside
<1>2. Lib!Refuse
  BY DEF Lib!Cycle, Lib!Full, Lib!Unreadable, Lib!Enter
<1>3. Walk /\ Lib!IsProject(source)
  BY <1>1, SourceIs
<1>4. DOMAIN read = visited /\ Lib!IsProject(read)
  BY <1>3 DEF Walk, ReadSoFar
<1>5. ASSUME NEW g, Extends(read, g), Lib!IsProject(g), Extends(read', g),
             p \in DOMAIN source => p \in visited \/ (p \in DOMAIN g => g[p] = source[p]), p \in DOMAIN g => p \in visited \/ p \in DOMAIN source
      PROVE  ~Lib!Resolvable(main, g)
  <2>1. CASE Lib!Cycle
    BY <1>1, <1>3, <1>5, <2>1, CycleRefused DEF Lib!Cycle
  <2>2. CASE Lib!Full
    <3>1. p \notin visited /\ Lib!Cardinality(visited) >= MaxModules
      BY <2>2 DEF Lib!Full, Lib!New
    <3>2. QED
      BY <1>1, <1>3, <1>5, <3>1, Finite, FullRefused
  <2>3. CASE Lib!Unreadable
    <3>1. p \notin visited /\ p \notin DOMAIN source
      BY <2>3 DEF Lib!Unreadable, Lib!New
    <3>2. p \notin DOMAIN g
      BY <1>5, <3>1
    <3>3. QED
      BY <1>1, <1>3, <1>5, <3>2, UnreadableRefused
  <2>4. CASE Lib!Enter /\ state' # state
    <3>1. p \notin visited /\ p \in DOMAIN source /\ ~Lib!Library(source[p])
      BY <2>4 DEF Lib!Enter, Lib!New
    <3>2. p \notin DOMAIN g \/ ~Lib!Library(g[p])
      BY <1>5, <3>1
    <3>3. QED
      BY <1>1, <1>3, <1>5, <3>2, UnreadableRefused
  <2>5. QED
    BY <2>1, <2>2, <2>3, <2>4
<1>6. CASE state = "resolving"
  <2>1. state' = "refused"
    BY <1>2, <1>6 DEF Lib!Refuse
  <2>2. CASE read' = read
    <3>1. Extends(read, read)
      BY DEF Extends
    <3>2. ~(Lib!Enter /\ state' # state)
      <4>1. ASSUME Lib!Enter PROVE FALSE
        <5>1. p \notin visited /\ read' = Lib!Put(read, p, source[p])
          BY <4>1 DEF Lib!Enter, Lib!New
        <5>2. p \in DOMAIN read'
          BY <5>1 DEF Lib!Put
        <5>3. QED
          BY <1>4, <2>2, <5>1, <5>2
      <4>2. QED
        BY <4>1
    <3>3. ~Lib!Resolvable(main, read)
      <4>1. p \in DOMAIN read => p \in visited
        BY <1>4
      <4>2. QED
        BY <1>4, <1>5, <2>2, <3>1, <4>1
    <3>4. NotResolved'
      BY <1>1, <2>2, <3>3 DEF NotResolved
    <3>5. QED
      BY <1>1, <2>1, <3>4 DEF LibrariesInv, States, Readable, Walking, Lib!Resolving, Orderly, Resolved, Verifying, Verified, Rejected
  <2>3. CASE Lib!Enter /\ state' # state
    <3>1. p \notin visited /\ p \in DOMAIN source /\ read' = Lib!Put(read, p, source[p])
      BY <2>3 DEF Lib!Enter, Lib!New
    <3>2. DOMAIN read' = DOMAIN read \union {p} /\ read'[p] = source[p] /\ \A q \in DOMAIN read : q # p => read'[q] = read[q]
      BY <3>1 DEF Lib!Put
    <3>3. Extends(read, read') /\ Extends(read', read')
      BY <1>4, <3>1, <3>2 DEF Extends
    <3>4. Lib!IsProject(read')
      <4>1. p \in Lib!LibraryPaths /\ Lib!IsProgram(source[p])
        BY <1>3, <3>1 DEF Lib!IsProject
      <4>2. QED
        BY <1>4, <3>1, <4>1, ProjectPut
    <3>5. ~Lib!Resolvable(main, read')
      BY <1>5, <3>1, <3>2, <3>3, <3>4
    <3>6. NotResolved'
      BY <1>1, <3>5 DEF NotResolved
    <3>7. QED
      BY <1>1, <2>1, <3>6 DEF LibrariesInv, States, Readable, Walking, Lib!Resolving, Orderly, Resolved, Verifying, Verified, Rejected
  <2>4. read' = read \/ (Lib!Enter /\ state' # state)
    BY DEF Lib!Cycle, Lib!Full, Lib!Unreadable
  <2>5. QED
    BY <2>2, <2>3, <2>4
<1>7. CASE state = "verifying"
  <2>1. state' = "rejected" /\ source = entries
    BY <1>2, <1>7 DEF Lib!Refuse, Lib!Source
  <2>2. Extends(read, entries) /\ Lib!IsProject(entries)
    BY <1>7 DEF LibrariesInv, Verifying, Readable
  <2>3. Extends(read', entries)
    <3>1. CASE read' = read
      BY <2>2, <3>1
    <3>2. CASE Lib!Enter
      <4>1. p \in DOMAIN source /\ read' = Lib!Put(read, p, source[p])
        BY <3>2 DEF Lib!Enter
      <4>2. DOMAIN read' = DOMAIN read \union {p} /\ read'[p] = source[p] /\ \A q \in DOMAIN read : q # p => read'[q] = read[q]
        BY <4>1 DEF Lib!Put
      <4>3. QED
        BY <2>1, <2>2, <4>1, <4>2 DEF Extends
    <3>3. QED
      BY <3>1, <3>2 DEF Lib!Cycle, Lib!Full, Lib!Unreadable
  <2>4. ~Lib!Resolvable(main, entries)
    BY <1>5, <2>1, <2>2, <2>3
  <2>5. Rejected'
    BY <1>1, <2>4 DEF Rejected, Lib!Exactly
  <2>6. Resolved'
    BY <1>1, <1>7 DEF LibrariesInv, Resolved
  <2>7. QED
    BY <1>1, <2>1, <2>5, <2>6 DEF LibrariesInv, States, Readable, Walking, Lib!Resolving, NotResolved, Orderly, Verifying, Verified
<1>8. QED
  BY <1>1, <1>6, <1>7 DEF Lib!Resolving

(* The program is resolved, or a function is there twice.                  *)
LEMMA FinishStep ==
  ASSUME LibrariesInv, Lib!Finish
  PROVE  LibrariesInv'
PROOF
<1>1. state = "resolving" /\ ~Lib!More /\ Len(stack) = 1 /\ UNCHANGED <<main, disk, stack, visited, read, out, objects>>
  BY DEF Lib!Finish
<1>2. Walk
  BY <1>1, SourceIs DEF Lib!Resolving
<1>3. /\ Lib!ReachedFrom(main, read) = DOMAIN read /\ Lib!EachOnce(out, Lib!Kept(main, read))
      /\ Lib!NamedOnce <=> Lib!Exactly(main, read)
  BY <1>1, <1>2, WalkEnds
<1>4. Lib!IsProject(read) /\ IsFun(read)
  BY <1>2 DEF Walk, ReadSoFar
<1>5. CASE Lib!NamedOnce /\ state' = "resolved" /\ entries' = read /\ first' = [imports |-> read, out |-> out]
  <2>1. first'.imports = read /\ first'.out = out
    BY <1>5
  <2>2. \E T, n : Makes(T, n, main, first')
    <3>1. PICK T, n : Walks(T, n, main, read) /\ T[n] = Here
      BY <1>1 DEF LibrariesInv, Orderly, WalksTo
    <3>2. Ended(Here) /\ Here.out = out
      BY <1>1, HereIs
    <3>3. Makes(T, n, main, first')
      BY <2>1, <3>1, <3>2 DEF Makes
    <3>4. QED
      BY <3>3
  <2>3. Resolved'
    BY <1>1, <1>3, <1>4, <1>5, <2>1, <2>2 DEF Resolved
  <2>4. Readable'
    BY <1>1, <1>4, <1>5 DEF LibrariesInv, Readable
  <2>5. QED
    BY <1>5, <2>3, <2>4 DEF LibrariesInv, States, Walking, Lib!Resolving, NotResolved, Orderly, Verifying, Verified, Rejected
<1>6. CASE ~Lib!NamedOnce /\ Lib!Refuse /\ UNCHANGED <<entries, first>>
  <2>1. state' = "refused"
    BY <1>1, <1>6 DEF Lib!Refuse
  <2>2. ~Lib!Resolvable(main, read)
    BY <1>3, <1>6 DEF Lib!Exactly
  <2>3. NotResolved'
    BY <1>1, <2>2 DEF NotResolved
  <2>4. Readable'
    BY <1>1, <1>6 DEF LibrariesInv, Readable
  <2>5. QED
    BY <2>1, <2>3, <2>4 DEF LibrariesInv, States, Walking, Lib!Resolving, Orderly, Resolved, Verifying, Verified, Rejected
<1>7. QED
  BY <1>5, <1>6 DEF Lib!Finish

LEMMA LibraryPreserveStep ==
  ASSUME LibrariesInv, Lib!Preserve
  PROVE  LibrariesInv'
PROOF
<1>1. state = "resolved" /\ state' = "kept" /\ UNCHANGED <<main, disk, entries, first>>
  BY DEF Lib!Preserve
<1>2. Resolved'
  BY <1>1 DEF LibrariesInv, Resolved
<1>3. Readable'
  BY <1>1 DEF LibrariesInv, Readable
<1>4. QED
  BY <1>1, <1>2, <1>3 DEF LibrariesInv, States, Walking, Lib!Resolving, NotResolved, Orderly, Verifying, Verified, Rejected

(* The evidence is read from the start.                                    *)
LEMMA VerifyStep ==
  ASSUME LibrariesInv, Lib!Verify
  PROVE  LibrariesInv'
PROOF
<1>1. /\ state = "kept" /\ UNCHANGED <<main, disk, entries, objects, first>>
      /\ stack' = <<Lib!Call(Lib!Root, main)>> /\ visited' = {} /\ read' = << >> /\ out' = << >>
  BY DEF Lib!Verify, Lib!Outside
<1>2. Resolved /\ Readable
  BY DEF LibrariesInv
<1>3. Readable'
  BY <1>1, <1>2 DEF Readable
<1>4. /\ Lib!IsProject(first.imports) /\ IsFun(first.imports) /\ Lib!Exactly(main, first.imports)
      /\ Lib!EachOnce(first.out, Lib!Kept(main, first.imports)) /\ \E T, n : Makes(T, n, main, first)
  BY <1>1, <1>2 DEF Resolved
<1>5. Resolved'
  BY <1>1, <1>4 DEF Resolved
<1>6. Lib!ObjectsThere' <=> Lib!ObjectsThere
  BY <1>1 DEF Lib!ObjectsThere
<1>7. CASE Lib!Cardinality(DOMAIN entries) <= MaxModules /\ Lib!ObjectsThere
  <2>1. state' = "verifying"
    BY <1>7 DEF Lib!Verify
  <2>2. Lib!IsProgram(main')
    BY <1>1, <1>2 DEF Readable
  <2>3. Walk'
    <3>1. (AtBeginning => Walk)'
      BY WalkAlwaysBegins, PTL
    <3>2. AtBeginning'
      BY <1>1, <2>2 DEF AtBeginning
    <3>3. QED
      BY <3>1, <3>2
  <2>4. Extends(read', entries')
    BY <1>1, EmptyFunction DEF Extends
  <2>5. \E T, n : Makes(T, n, main, first) /\ \E k \in 1..n : T[k] = Here'
    <3>1. PICK T, n : Makes(T, n, main, first)
      BY <1>4
    <3>2. n \in Nat /\ n >= 1 /\ T[1] = Beginning(main)
      BY <3>1 DEF Makes, Walks
    <3>3. Here' = Beginning(main)
      BY <1>1 DEF Here, Beginning
    <3>4. 1 \in 1..n
      BY <3>2
    <3>5. QED
      BY <3>1, <3>2, <3>3, <3>4
  <2>6. Verifying'
    BY <1>1, <1>6, <1>7, <2>4, <2>5 DEF Verifying
  <2>7. QED
    BY <1>3, <1>5, <2>1, <2>3, <2>6 DEF LibrariesInv, States, Walking, NotResolved, Orderly, Verified, Rejected
<1>8. CASE ~(Lib!Cardinality(DOMAIN entries) <= MaxModules /\ Lib!ObjectsThere)
  <2>1. state' = "rejected"
    BY <1>8 DEF Lib!Verify
  <2>2. ~(Lib!ObjectsThere /\ Lib!Exactly(main, entries))
    BY <1>8 DEF Lib!Exactly, Lib!Resolvable
  <2>3. Rejected'
    BY <1>1, <1>6, <2>2 DEF Rejected
  <2>4. QED
    BY <1>3, <1>5, <2>1, <2>3 DEF LibrariesInv, States, Walking, Lib!Resolving, NotResolved, Orderly, Verifying, Verified
<1>9. QED
  BY <1>7, <1>8

(* The evidence is what the program reads of it, or it is not.             *)
LEMMA ConfirmStep ==
  ASSUME LibrariesInv, Lib!Confirm
  PROVE  LibrariesInv'
PROOF
<1>1. state = "verifying" /\ ~Lib!More /\ Len(stack) = 1 /\ UNCHANGED <<main, disk, stack, visited, read, out, entries, objects, first>>
  BY DEF Lib!Confirm, Lib!Outside
<1>2. state' = IF Lib!NamedOnce /\ read = entries THEN "verified" ELSE "rejected"
  BY DEF Lib!Confirm
<1>3. Walk /\ Extends(read, entries) /\ Lib!ObjectsThere /\ IsFun(entries)
  BY <1>1, SourceIs DEF LibrariesInv, Verifying, Lib!Resolving, Readable
<1>4. /\ Lib!ReachedFrom(main, read) = DOMAIN read /\ Lib!EachOnce(out, Lib!Kept(main, read))
      /\ Lib!NamedOnce <=> Lib!Exactly(main, read)
  BY <1>1, <1>3, WalkEnds
<1>5. Readable' /\ Resolved'
  BY <1>1, <1>2 DEF LibrariesInv, Readable, Resolved
<1>6. Lib!ObjectsThere'
  BY <1>1, <1>3 DEF Lib!ObjectsThere
<1>7. CASE Lib!NamedOnce /\ read = entries
  <2>1. Lib!Exactly(main, entries) /\ Lib!EachOnce(out, Lib!Kept(main, entries))
    BY <1>4, <1>7
  <2>2. ASSUME entries = first.imports PROVE out = first.out
    <3>1. PICK T, n : Makes(T, n, main, first) /\ \E k \in 1..n : T[k] = Here
      BY <1>1, <2>2 DEF LibrariesInv, Verifying
    <3>2. PICK k \in 1..n : T[k] = Here
      BY <3>1
    <3>3. Ended(Here) /\ Here.out = out
      BY <1>1, HereIs
    <3>4. T[k].out = first.out
      BY <3>1, <3>2, <3>3, WalkArrives
    <3>5. QED
      BY <3>2, <3>3, <3>4
  <2>3. Verified'
    BY <1>1, <1>6, <2>1, <2>2 DEF Verified
  <2>4. QED
    BY <1>2, <1>5, <1>7, <2>3 DEF LibrariesInv, States, Walking, Lib!Resolving, NotResolved, Orderly, Verifying, Rejected
<1>8. CASE ~(Lib!NamedOnce /\ read = entries)
  <2>1. ASSUME Lib!Exactly(main, entries) PROVE FALSE
    <3>1. Lib!Resolvable(main, entries) /\ Lib!ReachedFrom(main, entries) = DOMAIN entries
      BY <2>1 DEF Lib!Exactly
    <3>2. \A q \in DOMAIN read : q \in DOMAIN entries /\ entries[q] = read[q]
      BY <1>3 DEF Extends
    <3>3. Lib!ReachedFrom(main, entries) = Lib!ReachedFrom(main, read)
      BY <1>4, <3>2, ReachedSame DEF Lib!ReachedFrom
    <3>4. DOMAIN read = DOMAIN entries
      BY <1>4, <3>1, <3>3
    <3>5. read = entries
      BY <1>3, <3>2, <3>4, SameFunction DEF Walk, ReadSoFar
    <3>6. Lib!NamedOnce
      BY <1>4, <2>1, <3>5
    <3>7. QED
      BY <1>8, <3>5, <3>6
  <2>2. Rejected'
    BY <1>1, <2>1 DEF Rejected
  <2>3. QED
    BY <1>2, <1>5, <1>8, <2>2 DEF LibrariesInv, States, Walking, Lib!Resolving, NotResolved, Orderly, Verifying, Verified
<1>9. QED
  BY <1>7, <1>8

(* Files are edited; the evidence is damaged.                              *)
LEMMA LibraryEditStep ==
  ASSUME LibrariesInv, Lib!Edit
  PROVE  LibrariesInv'
PROOF
<1>1. state \in {"resolving", "resolved", "kept"} /\ UNCHANGED <<main, state, stack, visited, read, out, entries, objects, first>>
  BY DEF Lib!Edit
<1>2. Lib!IsProject(disk)
  BY DEF LibrariesInv, Readable
<1>3. Lib!IsProject(disk')
  <2>1. ASSUME NEW p \in LibraryFiles, NEW t \in LibraryTexts, disk' = Lib!Put(disk, p, t) PROVE Lib!IsProject(disk')
    <3>1. p \in Lib!LibraryPaths /\ Lib!IsProgram(t)
      BY ProjectConstants DEF Lib!LibraryConstants
    <3>2. QED
      BY <1>2, <2>1, <3>1, ProjectPut
  <2>2. ASSUME NEW p \in DOMAIN disk, disk' = Lib!Cut(disk, p) PROVE Lib!IsProject(disk')
    BY <1>2, <2>2, ProjectCut
  <2>3. QED
    BY <2>1, <2>2 DEF Lib!Edit
<1>4. Readable'
  BY <1>1, <1>3 DEF LibrariesInv, Readable
<1>5. Lib!Resolving => Walk'
  <2>1. Walk' <=> Walk
    BY <1>1 DEF Walk, Calls, ReadSoFar, MetIsReached, BehindIsFinished, FinishedIsClosed, FinishedIsAcyclic, Expanded, Finished, Lib!Active
  <2>2. QED
    BY <2>1 DEF LibrariesInv, Walking
<1>6. Walking'
  BY <1>1, <1>5 DEF Walking, Lib!Resolving
<1>7. Orderly'
  <2>1. Here' = Here
    BY <1>1 DEF Here
  <2>2. QED
    BY <1>1, <2>1 DEF LibrariesInv, Orderly
<1>8. Resolved'
  BY <1>1 DEF LibrariesInv, Resolved
<1>9. QED
  BY <1>1, <1>4, <1>6, <1>7, <1>8 DEF LibrariesInv, States, NotResolved, Verifying, Verified, Rejected

LEMMA DamageStep ==
  ASSUME LibrariesInv, Lib!Damage
  PROVE  LibrariesInv'
PROOF
<1>1. state = "kept" /\ UNCHANGED <<main, disk, state, first>>
  BY DEF Lib!Damage
<1>2. Lib!IsProject(entries) /\ IsFun(entries)
  BY DEF LibrariesInv, Readable
<1>3. Lib!IsProject(entries') /\ IsFun(entries')
  <2>1. CASE UNCHANGED entries
    BY <1>2, <2>1
  <2>2. ASSUME NEW p \in DOMAIN entries, entries' = Lib!Cut(entries, p) PROVE Lib!IsProject(entries') /\ IsFun(entries')
    BY <1>2, <2>2, ProjectCut, CutIs
  <2>3. ASSUME NEW p \in LibraryFiles, NEW t \in LibraryTexts, entries' = Lib!Put(entries, p, t)
        PROVE  Lib!IsProject(entries') /\ IsFun(entries')
    <3>1. p \in Lib!LibraryPaths /\ Lib!IsProgram(t)
      BY ProjectConstants DEF Lib!LibraryConstants
    <3>2. Lib!IsProject(entries')
      BY <1>2, <2>3, <3>1, ProjectPut
    <3>3. IsFun(entries')
      BY <2>3 DEF IsFun, Lib!Put
    <3>4. QED
      BY <3>2, <3>3
  <2>4. QED
    BY <2>1, <2>2, <2>3 DEF Lib!Damage
<1>4. Readable'
  BY <1>1, <1>3 DEF LibrariesInv, Readable
<1>5. Resolved'
  BY <1>1 DEF LibrariesInv, Resolved
<1>6. QED
  BY <1>1, <1>4, <1>5 DEF LibrariesInv, States, Walking, Lib!Resolving, NotResolved, Orderly, Verifying, Verified, Rejected

LEMMA LibrariesInit ==
  ASSUME Lib!Init
  PROVE  LibrariesInv
PROOF
<1>1. /\ main \in Programs /\ disk \in Projects /\ state = "resolving" /\ stack = <<Lib!Call(Lib!Root, main)>>
      /\ visited = {} /\ read = << >> /\ out = << >> /\ entries = << >>
  BY DEF Lib!Init
<1>2. Lib!IsProgram(main) /\ Lib!IsProject(disk)
  BY <1>1, ProjectConstants DEF Lib!LibraryConstants
<1>3. Lib!IsProject(entries) /\ IsFun(entries)
  <2>1. DOMAIN entries = {} /\ IsFun(entries)
    BY <1>1, EmptyFunction
  <2>2. Lib!IsFiniteSet({})
    BY Finite, FS_EmptySet
  <2>3. QED
    BY <2>1, <2>2 DEF Lib!IsProject
<1>4. Walk
  BY <1>1, <1>2, WalkBegins DEF AtBeginning
<1>5. WalksTo(Here, main, read)
  <2> DEFINE T == [i \in 1..1 |-> Here]
  <2>1. T[1] = Here /\ Here = Beginning(main)
    BY <1>1 DEF Here, Beginning
  <2> HIDE DEF T
  <2>2. \A i \in 1..1 : ~(i < 1)
    OBVIOUS
  <2>3. Walks(T, 1, main, read)
    BY <2>1, <2>2 DEF Walks
  <2>4. QED
    BY <2>1, <2>3 DEF WalksTo
<1>6. QED
  BY <1>1, <1>2, <1>3, <1>4, <1>5 DEF LibrariesInv, States, Readable, Walking, NotResolved, Orderly, Resolved, Verifying, Verified, Rejected

LEMMA LibrariesStep ==
  ASSUME LibrariesInv, Lib!Next
  PROVE  LibrariesInv'
PROOF
<1>1. CASE Lib!Keep \/ Lib!Again \/ (Lib!Enter /\ state' = state) \/ Lib!Leave
  BY <1>1, VisitStep
<1>2. CASE Lib!Cycle \/ Lib!Full \/ Lib!Unreadable \/ (Lib!Enter /\ state' # state)
  BY <1>2, RefuseStep
<1>3. CASE Lib!Finish
  BY <1>3, FinishStep
<1>4. CASE Lib!Preserve
  BY <1>4, LibraryPreserveStep
<1>5. CASE Lib!Verify
  BY <1>5, VerifyStep
<1>6. CASE Lib!Confirm
  BY <1>6, ConfirmStep
<1>7. CASE Lib!Edit
  BY <1>7, LibraryEditStep
<1>8. CASE Lib!Damage
  BY <1>8, DamageStep
<1>9. QED
  BY <1>1, <1>2, <1>3, <1>4, <1>5, <1>6, <1>7, <1>8 DEF Lib!Next

LEMMA LibrariesStutter ==
  ASSUME LibrariesInv, UNCHANGED project
  PROVE  LibrariesInv'
PROOF
<1>1. UNCHANGED <<main, disk, state, stack, visited, read, out, entries, objects, first>>
  BY DEF project
<1>2. Walk' <=> Walk
  BY <1>1 DEF Walk, Calls, ReadSoFar, MetIsReached, BehindIsFinished, FinishedIsClosed, FinishedIsAcyclic, Expanded, Finished, Lib!Active
<1>3. Here' = Here /\ (Lib!ObjectsThere' <=> Lib!ObjectsThere) /\ (Lib!Resolving' <=> Lib!Resolving)
  BY <1>1 DEF Here, Lib!ObjectsThere, Lib!Resolving
<1>4. States' /\ Readable' /\ Walking' /\ NotResolved' /\ Orderly'
  BY <1>1, <1>2, <1>3 DEF LibrariesInv, States, Readable, Walking, NotResolved, Orderly
<1>5. Resolved'
  BY <1>1 DEF LibrariesInv, Resolved
<1>6. Verifying' /\ Verified' /\ Rejected'
  BY <1>1, <1>3 DEF LibrariesInv, Verifying, Verified, Rejected
<1>7. QED
  BY <1>4, <1>5, <1>6 DEF LibrariesInv

(* What the invariant says to a user.                                      *)
LEMMA LibrariesMean ==
  ASSUME LibrariesInv
  PROVE  Lib!ResolvesAsReachable /\ Lib!EvidenceIsTheProgram
PROOF
<1>1. state = "refused" => ~Lib!Resolvable(main, read)
  BY DEF LibrariesInv, NotResolved
<1>2. ASSUME state \in {"resolved", "kept", "verifying", "verified", "rejected"}
      PROVE  /\ Lib!IsProject(first.imports) /\ IsFun(first.imports) /\ Lib!Exactly(main, first.imports)
             /\ Lib!EachOnce(first.out, Lib!Kept(main, first.imports))
  BY <1>2 DEF LibrariesInv, Resolved
<1>3. ASSUME state \in {"resolved", "kept"}, Lib!Unchanged
      PROVE  Lib!Resolvable(main, disk) /\ Lib!ReachedFrom(main, disk) = DOMAIN first.imports
  <2>1. Lib!Resolvable(main, first.imports) /\ Lib!ReachedFrom(main, first.imports) = DOMAIN first.imports
    BY <1>2, <1>3 DEF Lib!Exactly
  <2>2. \A p \in Lib!ReachedFrom(main, first.imports) : p \in DOMAIN disk /\ disk[p] = first.imports[p]
    BY <1>3, <2>1 DEF Lib!Unchanged
  <2>3. QED
    BY <2>1, <2>2, ResolvableSame
<1>4. Lib!ResolvesAsReachable
  BY <1>1, <1>2, <1>3 DEF Lib!ResolvesAsReachable
<1>5. ASSUME state = "verified"
      PROVE  /\ Lib!ObjectsThere /\ Lib!Exactly(main, entries) /\ Lib!EachOnce(out, Lib!Kept(main, entries))
             /\ (\A p \in DOMAIN entries \intersect DOMAIN first.imports : entries[p] = first.imports[p]) =>
                  entries = first.imports /\ out = first.out
  <2>1. /\ Lib!ObjectsThere /\ Lib!Exactly(main, entries) /\ Lib!EachOnce(out, Lib!Kept(main, entries))
        /\ entries = first.imports => out = first.out
    BY <1>5 DEF LibrariesInv, Verified
  <2>2. ASSUME \A p \in DOMAIN entries \intersect DOMAIN first.imports : entries[p] = first.imports[p]
        PROVE  entries = first.imports
    <3> DEFINE E == DOMAIN entries
               F == DOMAIN first.imports
               from == Lib!Targets(main, Lib!Root)
    <3>1. Lib!Reached(from, entries) = E /\ Lib!Reached(from, first.imports) = F
      BY <1>2, <1>5, <2>1 DEF Lib!Exactly, Lib!ReachedFrom
    <3>2. from \subseteq E \intersect F /\ Lib!Closed(E, entries) /\ Lib!Closed(F, first.imports)
      BY <3>1, ReachedHas
    <3>3. Lib!Closed(E \intersect F, entries) /\ Lib!Closed(E \intersect F, first.imports)
      <4>1. \A p \in E \intersect F : Lib!Targets(entries[p], p) \subseteq E /\ Lib!Targets(first.imports[p], p) \subseteq F
        BY <3>2 DEF Lib!Closed
      <4>2. \A p \in E \intersect F : Lib!Targets(entries[p], p) \subseteq E \intersect F /\ Lib!Targets(first.imports[p], p) \subseteq E \intersect F
        BY <2>2, <4>1
      <4>3. QED
        BY <4>2 DEF Lib!Closed
    <3>4. E \subseteq E \intersect F /\ F \subseteq E \intersect F
      BY <3>1, <3>2, <3>3, ReachedLeast
    <3>5. E = F /\ \A p \in E : entries[p] = first.imports[p]
      BY <2>2, <3>4
    <3>6. IsFun(entries) /\ IsFun(first.imports)
      BY <1>2, <1>5 DEF LibrariesInv, Readable
    <3>7. QED
      BY <3>5, <3>6, SameFunction
  <2>3. QED
    BY <2>1, <2>2
<1>6. ASSUME state = "rejected"
      PROVE  ~(Lib!ObjectsThere /\ Lib!Exactly(main, entries)) /\ (entries # first.imports \/ ~Lib!ObjectsThere)
  <2>1. ~(Lib!ObjectsThere /\ Lib!Exactly(main, entries))
    BY <1>6 DEF LibrariesInv, Rejected
  <2>2. Lib!Exactly(main, first.imports)
    BY <1>2, <1>6
  <2>3. QED
    BY <2>1, <2>2
<1>7. Lib!EvidenceIsTheProgram
  BY <1>5, <1>6 DEF Lib!EvidenceIsTheProgram
<1>8. QED
  BY <1>4, <1>7

(* For every program, project, bound and text that others write: a run     *)
(* resolves the libraries it read exactly if their imports can be resolved, *)
(* each statement once, and what it keeps of them verifies exactly if it   *)
(* is what the program reaches, as the same program in the same order      *)
(* (resolve_with, preserve, verify_preserved_with_mode).                   *)
THEOREM LibrariesAreTrue == MCSpec => []Libraries
PROOF
<1> DEFINE I == what = "libraries" => LibrariesInv
<1>1. MCInit => I
  BY LibrariesInit DEF MCInit
<1>2. I /\ [MCNext]_all => I'
  <2>1. ASSUME I, MCNext PROVE I'
    BY <2>1, LibrariesStep DEF MCNext
  <2>2. ASSUME I, UNCHANGED all PROVE I'
    BY <2>2, LibrariesStutter DEF all
  <2>3. QED
    BY <2>1, <2>2
<1>3. I => Libraries
  BY LibrariesMean DEF Libraries
<1>4. QED
  BY <1>1, <1>2, <1>3, PTL DEF MCSpec
=============================================================================
