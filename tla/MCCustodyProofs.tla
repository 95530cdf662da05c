--------------------------- MODULE MCCustodyProofs ---------------------------
(***************************************************************************)
(* Theorems about Custody and about MCCustody, for every set of processes, *)
(* sources, contents and runs and every bound that the assumptions allow.  *)
(*                                                                         *)
(* Custody: the argument is about identity.  A receipt, the job that wrote *)
(* it and every FREEZE event sealed with it make the same claim: this      *)
(* receipt (id) freezes this path with this content.  IInv says that no    *)
(* two claims share a receipt's id (IdsOnce), that every id was given out  *)
(* (IdsGiven), that the receipt of a claim is at its path while nobody     *)
(* deletes one (ClaimsStay), and what a returned freeze and a process in   *)
(* the middle of a revision know about the ledger (FrozenHaveEvents,       *)
(* RevisersKnow).                                                          *)
(*                                                                         *)
(* Runs: what RunFileProofs proves of a run holds in the composition,      *)
(* since a part that does not take place leaves its state alone.           *)
(*                                                                         *)
(* Lineage: that a returned chain repeats no node is not inductive by      *)
(* itself.  WalkInv says what a repetition would mean: if the walk is at   *)
(* the same node at positions i < j, then from j on it goes through the    *)
(* same nodes again, so its last node is also the one j - i positions      *)
(* before the last.  That earlier node has a parent, and the end of a      *)
(* chain has none.                                                         *)
(*                                                                         *)
(* Receipts: a directory that verifies with the receipt of a run has every *)
(* file of that run as the run wrote it (FilesKept), and a sealed core     *)
(* depends on every other field, so a lost or changed file and an edited   *)
(* field are found whatever texts, contents and policies the runs have.    *)
(* Whoever seals a receipt again keeps the files, and verify_run reads the *)
(* program, profile and budget from the source file itself (VerifiedIs-    *)
(* Bound).  A class of diff_runs is the conjunction of the comparisons it  *)
(* names, each of which is equality of what the two runs are made of.      *)
(***************************************************************************)
EXTENDS MCCustody, TLAPS

HasReceipt == {s \in Sources : receipt[s] # None}
AppendingProcs == {p \in Procs : At(p, "freeze_append")}
FreezeIndices == {i \in DOMAIN ledger : ledger[i].type = "FREEZE"}

Claim(id, path, content) == [id |-> id, path |-> path, content |-> content]
ReceiptClaim(s) == Claim(receipt[s].id, s, receipt[s].content)
JobClaim(p) == Claim(job[p].receipt.id, job[p].source, job[p].receipt.content)
EventClaim(i) == Claim(ledger[i].core, ledger[i].subject, ledger[i].content)

ReceiptClaims == {ReceiptClaim(s) : s \in HasReceipt}
JobClaims == {JobClaim(p) : p \in AppendingProcs}
EventClaims == {EventClaim(i) : i \in FreezeIndices}
Claims == ReceiptClaims \union JobClaims \union EventClaims

IdsOnce == \A a, b \in Claims : a.id = b.id => a = b
IdsGiven == \A a \in Claims : a.id \in 1..receipts
ClaimsStay == deletes = 0 => \A a \in Claims : receipt[a.path] # None /\ receipt[a.path].id = a.id
FrozenHaveEvents == \A id \in frozen : \E i \in FreezeIndices : ledger[i].core = id

(* Some FREEZE event among the first n names this path and this receipt.   *)
FrozenAs(path, id, n) ==
  \E i \in 1..n : ledger[i].type = "FREEZE" /\ ledger[i].subject = path /\ ledger[i].core = id
Revising == {p \in Procs : ~Idle(p) /\ job[p].step \in {"revise_child", "revise_lineage", "revise_append"}}
RevisersKnow ==
  /\ \A p \in Procs : At(p, "revise_read") => FrozenAs(job[p].parent, job[p].report.id, Len(ledger))
  /\ \A p \in Revising : FrozenAs(job[p].lineage.parent, job[p].lineage.core, Len(ledger))

IInv ==
  /\ TypeOK
  /\ IdsOnce /\ IdsGiven /\ ClaimsStay
  /\ FrozenHaveEvents
  /\ RevisersKnow /\ RevisionFollowsFreeze

-----------------------------------------------------------------------------
(* A job's step tells which kind of job it is.                             *)
LEMMA JobKinds ==
  ASSUME TypeOK, NEW p \in Procs, ~Idle(p)
  PROVE  /\ job[p] \in Jobs
         /\ job[p].step \in {"freeze_audit", "freeze_write"} => job[p] \in FreezeJobs
         /\ job[p].step = "freeze_append" => job[p] \in AppendJobs
         /\ job[p].step \in {"revise_registered", "revise_read"} => job[p] \in VerifyJobs
         /\ job[p].step \in {"revise_child", "revise_lineage", "revise_append"} => job[p] \in ChildJobs
  BY DEF TypeOK, Idle, Jobs, FreezeJobs, AppendJobs, VerifyJobs, ChildJobs

(* A job that goes on to another step of its kind keeps all its fields.    *)
LEMMA GoFacts ==
  ASSUME TypeOK, NEW p \in Procs, ~Idle(p), NEW step, Go(p, step)
  PROVE  /\ job[p] \in FreezeJobs /\ step = "freeze_write" => job'[p] \in FreezeJobs
         /\ job[p] \in VerifyJobs /\ step = "revise_read" =>
              job'[p] \in VerifyJobs /\ job'[p].parent = job[p].parent /\ job'[p].report = job[p].report
         /\ job[p] \in ChildJobs /\ step \in {"revise_lineage", "revise_append"} =>
              job'[p] \in ChildJobs /\ job'[p].lineage = job[p].lineage
         /\ job'[p].step = step
         /\ \A q \in Procs \ {p} : job'[q] = job[q]
         /\ DOMAIN job' = Procs
<1>1. job \in [Procs -> Jobs \union {None}] /\ job' = [job EXCEPT ![p] = [job[p] EXCEPT !.step = step]]
  BY DEF TypeOK, Go
<1>2. job'[p] = [job[p] EXCEPT !.step = step] /\ \A q \in Procs \ {p} : job'[q] = job[q]
  BY <1>1
<1>3. job[p] \in Jobs
  BY JobKinds
<1> QED
  BY <1>1, <1>2, <1>3 DEF Jobs, FreezeJobs, VerifyJobs, ChildJobs, AppendJobs

LEMMA GoTypes ==
  ASSUME TypeOK, NEW p \in Procs, ~Idle(p), NEW step, Go(p, step), job'[p] \in Jobs
  PROVE  job' \in [Procs -> Jobs \union {None}]
  BY DEF TypeOK, Go

LEMMA SetTypes ==
  ASSUME TypeOK, NEW p \in Procs, NEW j \in Jobs \union {None}, Set(p, j)
  PROVE  /\ job' \in [Procs -> Jobs \union {None}]
         /\ job'[p] = j /\ \A q \in Procs \ {p} : job'[q] = job[q]
  BY DEF TypeOK, Set

(* What a process puts into the ledger.                                    *)
LEMMA EventTypes ==
  ASSUME TypeOK, NEW p \in Procs
  PROVE  /\ At(p, "freeze_append") /\ receipt[job[p].source] # None => FreezeEvent(p) \in Events
         /\ At(p, "revise_append") /\ receipt[job[p].lineage.parent] # None => RevisionEvent(p) \in Events
<1>1. CASE At(p, "freeze_append") /\ receipt[job[p].source] # None
  <2>1. job[p] \in AppendJobs
    BY <1>1, JobKinds DEF At
  <2>2. receipt[job[p].source] \in ReceiptFiles
    BY <1>1, <2>1 DEF TypeOK, AppendJobs
  <2> QED
    BY <1>1, <2>1, <2>2 DEF FreezeEvent, Events, AppendJobs, ReceiptFiles, At
<1>2. CASE At(p, "revise_append") /\ receipt[job[p].lineage.parent] # None
  <2>1. job[p] \in ChildJobs
    BY <1>2, JobKinds DEF At
  <2>2. receipt[job[p].lineage.parent] \in ReceiptFiles
    BY <1>2, <2>1 DEF TypeOK, ChildJobs, LineageFiles
  <2> QED
    BY <1>2, <2>1, <2>2 DEF RevisionEvent, Events, ChildJobs, LineageFiles, ReceiptFiles, At
<1> QED
  BY <1>1, <1>2

LEMMA InitIInv == Init => IInv
<1> SUFFICES ASSUME Init PROVE IInv
  OBVIOUS
<1> USE CustodyConstants DEF CustodyConstants
<1>1. TypeOK
  <2>1. source \in [Sources -> Contents \union {None}] /\ receipt \in [Sources -> ReceiptFiles \union {None}]
    BY DEF Init
  <2>2. lineage \in [Sources -> LineageFiles \union {None}] /\ job \in [Procs -> Jobs \union {None}]
    BY DEF Init
  <2>3. ledger = << >> /\ damaged \in BOOLEAN /\ receipts \in Nat /\ frozen = {}
    BY DEF Init
  <2>4. edits \in 0..MaxEdits /\ deletes \in 0..MaxDeletes /\ faults \in 0..MaxFaults
    BY DEF Init
  <2> QED
    BY <2>1, <2>2, <2>3, <2>4 DEF TypeOK
<1>2. Claims = {}
  BY DEF Init, Claims, ReceiptClaims, JobClaims, EventClaims, HasReceipt, AppendingProcs, FreezeIndices, At, Idle
<1>3. frozen = {} /\ DOMAIN ledger = {} /\ \A p \in Procs : job[p] = None
  BY DEF Init
<1>4. RevisersKnow /\ RevisionFollowsFreeze
  BY <1>3 DEF RevisersKnow, RevisionFollowsFreeze, Revising, At, Idle
<1> QED
  BY <1>1, <1>2, <1>3, <1>4 DEF IInv, IdsOnce, IdsGiven, ClaimsStay, FrozenHaveEvents

(* One lemma for the types, one step per action.                           *)
LEMMA TypeStep == TypeOK /\ [Next]_vars => TypeOK'
<1> SUFFICES ASSUME TypeOK, [Next]_vars PROVE TypeOK'
  OBVIOUS
<1> USE CustodyConstants DEF CustodyConstants, counters
<1>1. ASSUME NEW p \in Procs, NEW s \in Sources, FreezeRead(p, s) PROVE TypeOK'
  <2> DEFINE j == [step |-> "freeze_audit", source |-> s, content |-> source[s], lineage |-> lineage[s]]
  <2>1. j \in Jobs /\ Set(p, j)
    BY <1>1 DEF FreezeRead, Jobs, FreezeJobs, TypeOK
  <2> QED
    BY <1>1, <2>1, SetTypes DEF FreezeRead, TypeOK
<1>2. ASSUME NEW p \in Procs, FreezeAudit(p) PROVE TypeOK'
  <2>1. job'[p] \in Jobs /\ Go(p, "freeze_write") /\ ~Idle(p)
    BY <1>2, JobKinds, GoFacts DEF FreezeAudit, At, Jobs
  <2> QED
    BY <1>2, <2>1, GoTypes DEF FreezeAudit, TypeOK
<1>3. ASSUME NEW p \in Procs, FreezeWrite(p) PROVE TypeOK'
  <2> DEFINE s == job[p].source
             r == [id |-> receipts + 1, content |-> job[p].content, lineage |-> job[p].lineage, whole |-> TRUE]
             j == [step |-> "freeze_append", source |-> s, receipt |-> r]
  <2>1. job[p] \in FreezeJobs
    BY <1>3, JobKinds DEF FreezeWrite, At
  <2>2. r \in ReceiptFiles /\ s \in Sources
    BY <2>1 DEF FreezeJobs, ReceiptFiles, TypeOK
  <2>3. j \in Jobs /\ Set(p, j) /\ receipt' = [receipt EXCEPT ![s] = r] /\ receipts' = receipts + 1
    BY <1>3, <2>2 DEF FreezeWrite, Jobs, AppendJobs
  <2> QED
    BY <1>3, <2>2, <2>3, SetTypes DEF FreezeWrite, TypeOK
<1>4. ASSUME NEW p \in Procs, FreezeAppend(p) PROVE TypeOK'
  <2>1. FreezeEvent(p) \in Events /\ Set(p, None)
    BY <1>4, EventTypes DEF FreezeAppend
  <2>2. job[p] \in AppendJobs
    BY <1>4, JobKinds DEF FreezeAppend, At
  <2>3. ledger' \in Seq(Events) /\ damaged' = FALSE
    BY <1>4, <2>1 DEF FreezeAppend, AppendOk, TypeOK
  <2>4. frozen' \subseteq Nat
    BY <1>4, <2>2 DEF FreezeAppend, TypeOK, AppendJobs, ReceiptFiles
  <2> QED
    BY <1>4, <2>1, <2>3, <2>4, SetTypes DEF FreezeAppend, TypeOK
<1>5. ASSUME NEW p \in Procs, NEW a \in Sources, NEW b \in Sources, ReviseVerify(p, a, b) PROVE TypeOK'
  <2> DEFINE j == [step |-> "revise_registered", parent |-> a, child |-> b, report |-> receipt[a]]
  <2>1. j \in Jobs /\ Set(p, j)
    BY <1>5 DEF ReviseVerify, Verified, Whole, Jobs, VerifyJobs, TypeOK
  <2> QED
    BY <1>5, <2>1, SetTypes DEF ReviseVerify, TypeOK
<1>6. ASSUME NEW p \in Procs, ReviseRegistered(p) PROVE TypeOK'
  <2>1. job'[p] \in Jobs /\ Go(p, "revise_read") /\ ~Idle(p)
    BY <1>6, JobKinds, GoFacts DEF ReviseRegistered, At, Jobs
  <2> QED
    BY <1>6, <2>1, GoTypes DEF ReviseRegistered, TypeOK
<1>7. ASSUME NEW p \in Procs, ReviseRead(p) PROVE TypeOK'
  <2> DEFINE a == job[p].parent
             l == [parent |-> a, content |-> source[a], core |-> job[p].report.id, file |-> receipt[a].id, whole |-> TRUE]
             j == [step |-> "revise_child", child |-> job[p].child, lineage |-> l]
  <2>1. job[p] \in VerifyJobs
    BY <1>7, JobKinds DEF ReviseRead, At
  <2>2. l \in LineageFiles
    BY <1>7, <2>1 DEF ReviseRead, LineageFiles, VerifyJobs, ReceiptFiles, TypeOK
  <2>3. j \in Jobs /\ Set(p, j)
    BY <1>7, <2>1, <2>2 DEF ReviseRead, Jobs, ChildJobs, VerifyJobs
  <2> QED
    BY <1>7, <2>3, SetTypes DEF ReviseRead, TypeOK
<1>8. ASSUME NEW p \in Procs, ReviseChild(p) PROVE TypeOK'
  <2>1. job[p] \in ChildJobs /\ Go(p, "revise_lineage") /\ ~Idle(p)
    BY <1>8, JobKinds DEF ReviseChild, At
  <2>2. job'[p] \in Jobs
    BY <2>1, GoFacts DEF Jobs
  <2> QED
    BY <1>8, <2>1, <2>2, GoTypes DEF ReviseChild, TypeOK, ChildJobs, LineageFiles
<1>9. ASSUME NEW p \in Procs, ReviseLineage(p) PROVE TypeOK'
  <2>1. job[p] \in ChildJobs /\ Go(p, "revise_append") /\ ~Idle(p)
    BY <1>9, JobKinds DEF ReviseLineage, At
  <2>2. job'[p] \in Jobs
    BY <2>1, GoFacts DEF Jobs
  <2> QED
    BY <1>9, <2>1, <2>2, GoTypes DEF ReviseLineage, TypeOK, ChildJobs
<1>10. ASSUME NEW p \in Procs, ReviseAppend(p) PROVE TypeOK'
  <2>1. RevisionEvent(p) \in Events /\ Set(p, None)
    BY <1>10, EventTypes DEF ReviseAppend
  <2>2. ledger' \in Seq(Events) /\ damaged' = FALSE
    BY <1>10, <2>1 DEF ReviseAppend, AppendOk, TypeOK
  <2> QED
    BY <1>10, <2>1, <2>2, SetTypes DEF ReviseAppend, TypeOK
<1>11. ASSUME NEW p \in Procs, GiveUp(p) PROVE TypeOK'
  BY <1>11, SetTypes DEF GiveUp, TypeOK
<1>12. ASSUME NEW p \in Procs, WriteCut(p) PROVE TypeOK'
  <2>1. Set(p, None) /\ faults' \in 0..MaxFaults
    BY <1>12 DEF WriteCut, TypeOK
  <2>2. CASE At(p, "freeze_write")
    <3>1. job[p] \in FreezeJobs
      BY <2>2, JobKinds DEF At
    <3> DEFINE r == [id |-> receipts + 1, content |-> None, lineage |-> None, whole |-> FALSE]
    <3>2. /\ receipt' = [receipt EXCEPT ![job[p].source] = r] /\ receipts' = receipts + 1
          /\ r \in ReceiptFiles /\ UNCHANGED lineage
      BY <1>12, <2>2 DEF WriteCut, At, ReceiptFiles, TypeOK
    <3> QED
      BY <1>12, <2>1, <3>1, <3>2, SetTypes DEF WriteCut, TypeOK, FreezeJobs
  <2>3. CASE At(p, "revise_lineage")
    <3>1. job[p] \in ChildJobs
      BY <2>3, JobKinds DEF At
    <3> DEFINE l == [job[p].lineage EXCEPT !.whole = FALSE]
    <3>2. /\ lineage' = [lineage EXCEPT ![job[p].child] = l] /\ l \in LineageFiles
          /\ UNCHANGED <<receipt, receipts>>
      BY <1>12, <2>3, <3>1 DEF WriteCut, At, ChildJobs, LineageFiles
    <3> QED
      BY <1>12, <2>1, <3>1, <3>2, SetTypes DEF WriteCut, TypeOK, ChildJobs
  <2> QED
    BY <1>12, <2>2, <2>3 DEF WriteCut
<1>13. ASSUME NEW p \in Procs, AppendCut(p) PROVE TypeOK'
  <2>1. ledger' \in Seq(Events)
    <3>1. CASE ledger' = ledger
      BY <3>1 DEF TypeOK
    <3>2. CASE FreezeEvent(p) \in Events /\ ledger' = Append(ledger, FreezeEvent(p))
      BY <3>2 DEF TypeOK
    <3>3. CASE RevisionEvent(p) \in Events /\ ledger' = Append(ledger, RevisionEvent(p))
      BY <3>3 DEF TypeOK
    <3> QED
      BY <1>13, <3>1, <3>2, <3>3, EventTypes DEF AppendCut
  <2>2. Set(p, None) /\ faults' \in 0..MaxFaults /\ damaged' = TRUE
    BY <1>13 DEF AppendCut, TypeOK
  <2> QED
    BY <1>13, <2>1, <2>2, SetTypes DEF AppendCut, TypeOK
<1>14. ASSUME NEW s \in Sources, NEW c \in Contents, Edit(s, c) PROVE TypeOK'
  BY <1>14 DEF Edit, TypeOK
<1>15. ASSUME NEW s \in Sources, DeleteReceipt(s) PROVE TypeOK'
  BY <1>15 DEF DeleteReceipt, TypeOK
<1>16. CASE UNCHANGED vars
  BY <1>16 DEF vars, TypeOK
<1> QED
  BY <1>1, <1>2, <1>3, <1>4, <1>5, <1>6, <1>7, <1>8, <1>9, <1>10, <1>11, <1>12, <1>13, <1>14, <1>15, <1>16
     DEF Next, Freeze, Revise

(* The ledger only grows, by the event of a process that appends.          *)
LEMMA LedgerStep ==
  ASSUME TypeOK, [Next]_vars
  PROVE  \/ UNCHANGED ledger
         \/ \E p \in Procs : /\ At(p, "freeze_append") /\ receipt[job[p].source] # None
                             /\ ledger' = Append(ledger, FreezeEvent(p))
         \/ \E p \in Procs : /\ At(p, "revise_append") /\ receipt[job[p].lineage.parent] # None
                             /\ ledger' = Append(ledger, RevisionEvent(p))
<1>1. ASSUME NEW p \in Procs, Freeze(p) \/ Revise(p) \/ GiveUp(p) \/ WriteCut(p),
             ~FreezeAppend(p), ~ReviseAppend(p)
      PROVE  UNCHANGED ledger
  BY <1>1 DEF Freeze, Revise, GiveUp, WriteCut, FreezeRead, FreezeAudit, FreezeWrite, ReviseVerify,
     ReviseRegistered, ReviseRead, ReviseChild, ReviseLineage
<1>2. ASSUME NEW s \in Sources, NEW c \in Contents, DeleteReceipt(s) \/ Edit(s, c) PROVE UNCHANGED ledger
  BY <1>2 DEF DeleteReceipt, Edit
<1>3. ASSUME NEW p \in Procs, FreezeAppend(p) \/ ReviseAppend(p) \/ AppendCut(p)
      PROVE  \/ UNCHANGED ledger
             \/ At(p, "freeze_append") /\ receipt[job[p].source] # None /\ ledger' = Append(ledger, FreezeEvent(p))
             \/ /\ At(p, "revise_append") /\ receipt[job[p].lineage.parent] # None
                /\ ledger' = Append(ledger, RevisionEvent(p))
  BY <1>3 DEF FreezeAppend, ReviseAppend, AppendCut, AppendOk
<1>4. CASE UNCHANGED vars
  BY <1>4 DEF vars
<1>5. CASE \E p \in Procs : Freeze(p) \/ Revise(p) \/ GiveUp(p) \/ WriteCut(p) \/ AppendCut(p)
  BY <1>1, <1>3, <1>5
<1>6. CASE \E s \in Sources : DeleteReceipt(s) \/ \E c \in Contents : Edit(s, c)
  BY <1>2, <1>6 DEF DeleteReceipt
<1> QED
  BY <1>4, <1>5, <1>6 DEF Next

LEMMA LedgerGrows ==
  ASSUME TypeOK, [Next]_vars
  PROVE  /\ Len(ledger) \in Nat /\ Len(ledger') \in Nat /\ Len(ledger') >= Len(ledger)
         /\ DOMAIN ledger = 1..Len(ledger) /\ DOMAIN ledger' = 1..Len(ledger')
         /\ \A i \in 1..Len(ledger) : ledger'[i] = ledger[i]
<1>1. ledger \in Seq(Events)
  BY DEF TypeOK
<1>2. UNCHANGED ledger \/ \E e \in Events : ledger' = Append(ledger, e)
  BY LedgerStep, EventTypes
<1> QED
  BY <1>1, <1>2

(* Which steps touch receipts and the jobs that append for one: writing a  *)
(* receipt, deleting one, and every other step.                            *)
Written(p, r) ==
  LET s == job[p].source IN
  /\ At(p, "freeze_write") /\ receipt[s] = None /\ r \in ReceiptFiles /\ r.id = receipts + 1
  /\ receipt' = [receipt EXCEPT ![s] = r] /\ receipts' = receipts + 1
  /\ \A q \in Procs \ {p} : job'[q] = job[q]
  /\ job'[p] = None \/ job'[p] = [step |-> "freeze_append", source |-> s, receipt |-> r]
  /\ UNCHANGED <<ledger, frozen, deletes>>
NoReceiptWritten ==
  /\ UNCHANGED receipts
  /\ \A q \in Procs : At(q, "freeze_append")' => At(q, "freeze_append") /\ job'[q] = job[q]
  /\ \/ UNCHANGED <<receipt, deletes>>
     \/ deletes' = deletes + 1 /\ \E s \in Sources : receipt' = [receipt EXCEPT ![s] = None]

LEMMA ReceiptStep ==
  ASSUME TypeOK, [Next]_vars
  PROVE  NoReceiptWritten \/ \E p \in Procs, r \in ReceiptFiles : Written(p, r)
<1> USE CustodyConstants DEF CustodyConstants, counters
<1>1. ASSUME NEW p \in Procs, NEW s \in Sources, FreezeRead(p, s) PROVE NoReceiptWritten
  BY <1>1 DEF FreezeRead, NoReceiptWritten, Set, At, Idle, TypeOK
<1>2. ASSUME NEW p \in Procs, FreezeAudit(p) \/ ReviseRegistered(p) \/ ReviseChild(p) \/ ReviseLineage(p)
      PROVE  NoReceiptWritten
  <2>1. PICK step \in {"freeze_write", "revise_read", "revise_lineage", "revise_append"} :
          Go(p, step) /\ ~Idle(p)
    BY <1>2 DEF FreezeAudit, ReviseRegistered, ReviseChild, ReviseLineage, At
  <2>2. job'[p].step = step /\ \A q \in Procs \ {p} : job'[q] = job[q]
    BY <2>1, GoFacts
  <2> QED
    BY <1>2, <2>1, <2>2 DEF FreezeAudit, ReviseRegistered, ReviseChild, ReviseLineage, NoReceiptWritten, At, Idle
<1>3. ASSUME NEW p \in Procs, FreezeWrite(p) PROVE \E r \in ReceiptFiles : Written(p, r)
  <2> DEFINE r == [id |-> receipts + 1, content |-> job[p].content, lineage |-> job[p].lineage, whole |-> TRUE]
             j == [step |-> "freeze_append", source |-> job[p].source, receipt |-> r]
  <2>1. job[p] \in FreezeJobs
    BY <1>3, JobKinds DEF FreezeWrite, At
  <2>2. r \in ReceiptFiles /\ j \in Jobs
    BY <2>1 DEF FreezeJobs, ReceiptFiles, Jobs, AppendJobs, TypeOK
  <2>3. job'[p] = j /\ \A q \in Procs \ {p} : job'[q] = job[q]
    BY <1>3, <2>2, SetTypes DEF FreezeWrite
  <2> QED
    BY <1>3, <2>2, <2>3 DEF FreezeWrite, Written
<1>4. ASSUME NEW p \in Procs, FreezeAppend(p) \/ ReviseAppend(p) \/ GiveUp(p) \/ AppendCut(p)
      PROVE  NoReceiptWritten
  <2>1. job'[p] = None /\ \A q \in Procs \ {p} : job'[q] = job[q]
    BY <1>4, SetTypes DEF FreezeAppend, ReviseAppend, GiveUp, AppendCut
  <2> QED
    BY <1>4, <2>1 DEF FreezeAppend, ReviseAppend, GiveUp, AppendCut, NoReceiptWritten, At, Idle
<1>5. ASSUME NEW p \in Procs, NEW a \in Sources, NEW b \in Sources, ReviseVerify(p, a, b)
      PROVE  NoReceiptWritten
  BY <1>5 DEF ReviseVerify, NoReceiptWritten, Set, At, Idle, TypeOK
<1>6. ASSUME NEW p \in Procs, ReviseRead(p) PROVE NoReceiptWritten
  BY <1>6 DEF ReviseRead, NoReceiptWritten, Set, At, Idle, TypeOK
<1>7. ASSUME NEW p \in Procs, WriteCut(p)
      PROVE  NoReceiptWritten \/ \E r \in ReceiptFiles : Written(p, r)
  <2>1. job'[p] = None /\ \A q \in Procs \ {p} : job'[q] = job[q]
    BY <1>7, SetTypes DEF WriteCut
  <2>2. CASE At(p, "revise_lineage")
    BY <1>7, <2>1, <2>2 DEF WriteCut, NoReceiptWritten, At, Idle
  <2>3. CASE At(p, "freeze_write")
    <3> DEFINE r == [id |-> receipts + 1, content |-> None, lineage |-> None, whole |-> FALSE]
    <3>1. r \in ReceiptFiles /\ r.id = receipts + 1
      BY DEF ReceiptFiles, TypeOK
    <3> QED
      BY <1>7, <2>1, <2>3, <3>1 DEF WriteCut, Written, At
  <2> QED
    BY <1>7, <2>2, <2>3 DEF WriteCut
<1>8. ASSUME NEW s \in Sources, NEW c \in Contents, Edit(s, c) PROVE NoReceiptWritten
  BY <1>8 DEF Edit, NoReceiptWritten, At, Idle
<1>9. ASSUME NEW s \in Sources, DeleteReceipt(s) PROVE NoReceiptWritten
  BY <1>9 DEF DeleteReceipt, NoReceiptWritten, At, Idle
<1>10. CASE UNCHANGED vars
  BY <1>10 DEF vars, NoReceiptWritten, At, Idle
<1> QED
  BY <1>1, <1>2, <1>3, <1>4, <1>5, <1>6, <1>7, <1>8, <1>9, <1>10 DEF Next, Freeze, Revise

(* A job that appends for a receipt is the only source of FREEZE claims.   *)
LEMMA EventClaimsStep ==
  ASSUME TypeOK, [Next]_vars
  PROVE  EventClaims' \subseteq EventClaims \union JobClaims
<1> SUFFICES ASSUME NEW i \in FreezeIndices' PROVE EventClaim(i)' \in EventClaims \union JobClaims
  BY DEF EventClaims
<1>1. i \in 1..Len(ledger') /\ ledger'[i].type = "FREEZE"
  BY LedgerGrows DEF FreezeIndices
<1>2. CASE i \in 1..Len(ledger)
  <2>1. i \in FreezeIndices /\ EventClaim(i)' = EventClaim(i)
    BY <1>1, <1>2, LedgerGrows DEF FreezeIndices, EventClaim
  <2> QED
    BY <2>1 DEF EventClaims
<1>3. CASE i \notin 1..Len(ledger)
  <2>1. \A e : ledger' = Append(ledger, e) => ledger'[i] = e
    BY <1>1, <1>3 DEF TypeOK
  <2>2. ~UNCHANGED ledger
    BY <1>1, <1>3
  <2>3. PICK p \in Procs : At(p, "freeze_append") /\ ledger'[i] = FreezeEvent(p)
    <3>0. \A p \in Procs : ledger' = Append(ledger, RevisionEvent(p)) => ledger'[i] = RevisionEvent(p)
      BY <2>1
    <3>1. \A p \in Procs : RevisionEvent(p).type = "REVISION"
      BY DEF RevisionEvent
    <3>2. \A p \in Procs : ledger' = Append(ledger, FreezeEvent(p)) => ledger'[i] = FreezeEvent(p)
      BY <2>1
    <3> QED
      BY <1>1, <2>2, <3>0, <3>1, <3>2, LedgerStep
  <2>4. p \in AppendingProcs /\ EventClaim(i)' = JobClaim(p)
    BY <2>3 DEF AppendingProcs, EventClaim, JobClaim, FreezeEvent
  <2> QED
    BY <2>4 DEF JobClaims
<1> QED
  BY <1>2, <1>3

(* Without a new receipt there is no new claim.                            *)
LEMMA ClaimsKept ==
  ASSUME TypeOK, [Next]_vars, NoReceiptWritten
  PROVE  Claims' \subseteq Claims
<1>1. JobClaims' \subseteq JobClaims
  BY DEF NoReceiptWritten, JobClaims, AppendingProcs, JobClaim
<1>2. ReceiptClaims' \subseteq ReceiptClaims
  <2> SUFFICES ASSUME NEW s \in HasReceipt' PROVE ReceiptClaim(s)' \in ReceiptClaims
    BY DEF ReceiptClaims
  <2>1. s \in Sources /\ receipt'[s] # None
    BY DEF HasReceipt
  <2>2. receipt'[s] = receipt[s]
    BY <2>1 DEF NoReceiptWritten, TypeOK
  <2>3. s \in HasReceipt /\ ReceiptClaim(s)' = ReceiptClaim(s)
    BY <2>1, <2>2 DEF HasReceipt, ReceiptClaim
  <2> QED
    BY <2>3 DEF ReceiptClaims
<1> QED
  BY <1>1, <1>2, EventClaimsStep DEF Claims

(* With a new receipt the one new claim has the id that is given out.      *)
LEMMA ClaimAdded ==
  ASSUME TypeOK, [Next]_vars, NEW p \in Procs, NEW r \in ReceiptFiles, Written(p, r)
  PROVE  Claims' \subseteq Claims \union {Claim(r.id, job[p].source, r.content)}
<1> DEFINE new == Claim(r.id, job[p].source, r.content)
<1>1. job[p].source \in Sources
  BY JobKinds DEF Written, At, FreezeJobs
<1>2. JobClaims' \subseteq JobClaims \union {new}
  <2> SUFFICES ASSUME NEW q \in AppendingProcs' PROVE JobClaim(q)' \in JobClaims \union {new}
    BY DEF JobClaims
  <2>1. q \in Procs /\ job'[q] # None /\ job'[q].step = "freeze_append"
    BY DEF AppendingProcs, At, Idle
  <2>2. CASE q = p
    BY <2>1, <2>2 DEF Written, JobClaim
  <2>3. CASE q # p
    <3>1. job'[q] = job[q]
      BY <2>1, <2>3 DEF Written
    <3>2. q \in AppendingProcs /\ JobClaim(q)' = JobClaim(q)
      BY <2>1, <3>1 DEF AppendingProcs, At, Idle, JobClaim
    <3> QED
      BY <3>2 DEF JobClaims
  <2> QED
    BY <2>2, <2>3
<1>3. ReceiptClaims' \subseteq ReceiptClaims \union {new}
  <2> SUFFICES ASSUME NEW s \in HasReceipt' PROVE ReceiptClaim(s)' \in ReceiptClaims \union {new}
    BY DEF ReceiptClaims
  <2>1. s \in Sources /\ receipt'[s] # None
    BY DEF HasReceipt
  <2>2. CASE s = job[p].source
    BY <1>1, <2>2 DEF Written, ReceiptClaim, TypeOK
  <2>3. CASE s # job[p].source
    <3>1. receipt'[s] = receipt[s]
      BY <2>1, <2>3 DEF Written, TypeOK
    <3>2. s \in HasReceipt /\ ReceiptClaim(s)' = ReceiptClaim(s)
      BY <2>1, <3>1 DEF HasReceipt, ReceiptClaim
    <3> QED
      BY <3>2 DEF ReceiptClaims
  <2> QED
    BY <2>2, <2>3
<1> QED
  BY <1>2, <1>3, EventClaimsStep DEF Claims

LEMMA ClaimTypes ==
  ASSUME TypeOK
  PROVE  \A a \in Claims : a.id \in Nat /\ a.path \in Sources /\ a = Claim(a.id, a.path, a.content)
<1>1. \A s \in HasReceipt : receipt[s] \in ReceiptFiles /\ s \in Sources
  BY DEF HasReceipt, TypeOK
<1>2. \A p \in AppendingProcs : job[p] \in AppendJobs
  BY JobKinds DEF AppendingProcs, At
<1>3. \A i \in FreezeIndices : ledger[i] \in Events
  BY DEF FreezeIndices, TypeOK
<1>4. \A a \in ReceiptClaims : a.id \in Nat /\ a.path \in Sources /\ a = Claim(a.id, a.path, a.content)
  BY <1>1 DEF ReceiptClaims, ReceiptClaim, Claim, ReceiptFiles
<1>5. \A a \in JobClaims : a.id \in Nat /\ a.path \in Sources /\ a = Claim(a.id, a.path, a.content)
  BY <1>2 DEF JobClaims, JobClaim, Claim, AppendJobs, ReceiptFiles
<1>6. \A a \in EventClaims : a.id \in Nat /\ a.path \in Sources /\ a = Claim(a.id, a.path, a.content)
  BY <1>3 DEF EventClaims, EventClaim, Claim, Events
<1> QED
  BY <1>4, <1>5, <1>6 DEF Claims

LEMMA ClaimsStep == IInv /\ [Next]_vars => (IdsOnce /\ IdsGiven /\ ClaimsStay)'
<1> SUFFICES ASSUME IInv, [Next]_vars PROVE (IdsOnce /\ IdsGiven /\ ClaimsStay)'
  OBVIOUS
<1>0. TypeOK /\ IdsOnce /\ IdsGiven /\ ClaimsStay
  BY DEF IInv
<1>1. CASE NoReceiptWritten
  <2>1. Claims' \subseteq Claims /\ UNCHANGED receipts
    BY <1>0, <1>1, ClaimsKept DEF NoReceiptWritten
  <2>2. IdsOnce' /\ IdsGiven'
    BY <1>0, <2>1 DEF IdsOnce, IdsGiven
  <2>3. ClaimsStay'
    <3> SUFFICES ASSUME deletes' = 0 PROVE \A a \in Claims' : receipt'[a.path] # None /\ receipt'[a.path].id = a.id
      BY DEF ClaimsStay
    <3>1. deletes \in Nat
      BY <1>0, CustodyConstants DEF TypeOK, CustodyConstants
    <3>2. UNCHANGED <<receipt, deletes>>
      BY <1>1, <3>1 DEF NoReceiptWritten
    <3> QED
      BY <1>0, <2>1, <3>2 DEF ClaimsStay
  <2> QED
    BY <2>2, <2>3
<1>2. CASE \E p \in Procs, r \in ReceiptFiles : Written(p, r)
  <2>1. PICK p \in Procs, r \in ReceiptFiles : Written(p, r)
    BY <1>2
  <2> DEFINE new == Claim(r.id, job[p].source, r.content)
  <2>2. /\ Claims' \subseteq Claims \union {new}
        /\ r.id = receipts + 1 /\ receipts' = receipts + 1 /\ receipts \in Nat
        /\ UNCHANGED deletes /\ receipt' = [receipt EXCEPT ![job[p].source] = r]
        /\ receipt[job[p].source] = None
    BY <1>0, <2>1, ClaimAdded DEF Written, TypeOK
  <2>3. new.id = r.id /\ new.path = job[p].source
    BY DEF Claim
  <2>4. job[p].source \in Sources /\ r # None
    BY <1>0, <2>1, JobKinds, CustodyConstants DEF Written, At, FreezeJobs, CustodyConstants
  <2>5. \A a \in Claims : a.id # new.id
    BY <1>0, <2>2, <2>3 DEF IdsGiven
  <2>6. IdsOnce'
    BY <1>0, <2>2, <2>5 DEF IdsOnce
  <2>7. IdsGiven'
    BY <1>0, <2>2, <2>3 DEF IdsGiven
  <2>8. ClaimsStay'
    <3> SUFFICES ASSUME deletes' = 0, NEW a \in Claims' PROVE receipt'[a.path] # None /\ receipt'[a.path].id = a.id
      BY DEF ClaimsStay
    <3>1. CASE a = new
      BY <1>0, <2>2, <2>3, <2>4, <3>1 DEF TypeOK
    <3>2. CASE a \in Claims
      <4>1. receipt[a.path] # None /\ receipt[a.path].id = a.id /\ a.path \in Sources
        BY <1>0, <2>2, <3>2, ClaimTypes DEF ClaimsStay
      <4> QED
        BY <1>0, <2>2, <4>1 DEF TypeOK
    <3> QED
      BY <2>2, <3>1, <3>2
  <2> QED
    BY <2>6, <2>7, <2>8
<1> QED
  BY <1>0, <1>1, <1>2, ReceiptStep

(* What is in the ledger stays there: an event named before is named after.*)
LEMMA FrozenAsStays ==
  ASSUME TypeOK, [Next]_vars, NEW path, NEW id, FrozenAs(path, id, Len(ledger))
  PROVE  FrozenAs(path, id, Len(ledger))'
  BY LedgerGrows DEF FrozenAs

LEMMA FrozenStep == IInv /\ [Next]_vars => FrozenHaveEvents'
<1> SUFFICES ASSUME IInv, [Next]_vars, NEW id \in frozen' PROVE \E i \in FreezeIndices' : ledger'[i].core = id
  BY DEF FrozenHaveEvents
<1>0. TypeOK /\ FrozenHaveEvents
  BY DEF IInv
<1>1. CASE id \in frozen
  <2>1. PICK i \in FreezeIndices : ledger[i].core = id
    BY <1>0, <1>1 DEF FrozenHaveEvents
  <2> QED
    BY <1>0, <2>1, LedgerGrows DEF FreezeIndices
<1>2. CASE id \notin frozen
  <2>1. PICK p \in Procs : FreezeAppend(p)
    BY <1>2 DEF Next, vars, Freeze, Revise, FreezeRead, FreezeAudit, FreezeWrite, ReviseVerify, ReviseRegistered,
       ReviseRead, ReviseChild, ReviseLineage, ReviseAppend, GiveUp, WriteCut, AppendCut, Edit, DeleteReceipt
  <2> DEFINE n == Len(ledger) + 1
  <2>2. id = job[p].receipt.id /\ ledger' = Append(ledger, FreezeEvent(p))
    BY <1>2, <2>1 DEF FreezeAppend, AppendOk
  <2>3. n \in DOMAIN ledger' /\ ledger'[n] = FreezeEvent(p)
    BY <1>0, <2>2 DEF TypeOK
  <2>4. n \in FreezeIndices' /\ ledger'[n].core = id
    BY <2>2, <2>3 DEF FreezeIndices, FreezeEvent
  <2> QED
    BY <2>4
<1> QED
  BY <1>1, <1>2

(* A registered receipt of a path has its event there.                     *)
LEMMA RegisteredIsFrozen ==
  ASSUME TypeOK, NEW s \in Sources, NEW r, Registered(s, r)
  PROVE  FrozenAs(s, r.id, Len(ledger))
  BY DEF TypeOK, Registered, FreezeEvents, FrozenAs

LEMMA RevisersStep == IInv /\ [Next]_vars => RevisersKnow'
<1> SUFFICES ASSUME IInv, [Next]_vars PROVE RevisersKnow'
  OBVIOUS
<1>0. TypeOK /\ RevisersKnow
  BY DEF IInv
<1> DEFINE Same == \A q \in Procs :
                     /\ At(q, "revise_read")' => At(q, "revise_read") /\ job'[q] = job[q]
                     /\ q \in Revising' => /\ q \in Revising
                                           /\ job'[q].lineage = job[q].lineage
<1>1. CASE Same
  BY <1>0, <1>1, FrozenAsStays DEF RevisersKnow, Revising
<1>2. ASSUME NEW p \in Procs, ReviseRegistered(p) PROVE RevisersKnow'
  <2>1. job[p] \in VerifyJobs /\ ~Idle(p)
    BY <1>0, <1>2, JobKinds DEF ReviseRegistered, At
  <2>2. /\ job'[p].parent = job[p].parent /\ job'[p].report = job[p].report /\ job'[p].step = "revise_read"
        /\ \A q \in Procs \ {p} : job'[q] = job[q]
    BY <1>0, <1>2, <2>1, GoFacts DEF ReviseRegistered
  <2>3. FrozenAs(job[p].parent, job[p].report.id, Len(ledger))
    BY <1>0, <1>2, <2>1, RegisteredIsFrozen DEF ReviseRegistered, VerifyJobs
  <2>4. FrozenAs(job[p].parent, job[p].report.id, Len(ledger))'
    BY <1>0, <2>2, <2>3, LedgerGrows DEF FrozenAs
  <2> QED
    BY <1>0, <1>2, <2>2, <2>4, FrozenAsStays DEF RevisersKnow, Revising, At, Idle, ReviseRegistered
<1>3. ASSUME NEW p \in Procs, ReviseRead(p) PROVE RevisersKnow'
  <2>1. job[p] \in VerifyJobs /\ FrozenAs(job[p].parent, job[p].report.id, Len(ledger))
    BY <1>0, <1>3, JobKinds DEF ReviseRead, At, RevisersKnow
  <2>2. /\ job'[p].lineage.parent = job[p].parent /\ job'[p].lineage.core = job[p].report.id
        /\ job'[p].step = "revise_child" /\ \A q \in Procs \ {p} : job'[q] = job[q]
    BY <1>0, <1>3 DEF ReviseRead, Set, TypeOK
  <2>3. UNCHANGED ledger
    BY <1>3 DEF ReviseRead
  <2> QED
    BY <1>0, <2>1, <2>2, <2>3 DEF RevisersKnow, Revising, At, Idle, FrozenAs
<1>4. ASSUME NEW p \in Procs, FreezeAudit(p) \/ ReviseChild(p) \/ ReviseLineage(p) PROVE Same
  <2>1. CASE FreezeAudit(p)
    BY <1>0, <2>1, JobKinds, GoFacts DEF FreezeAudit, At, Idle, Revising
  <2>2. CASE ReviseChild(p) \/ ReviseLineage(p)
    <3>1. job[p] \in ChildJobs /\ ~Idle(p) /\ p \in Revising
      BY <1>0, <2>2, JobKinds DEF ReviseChild, ReviseLineage, At, Revising
    <3>2. PICK step \in {"revise_lineage", "revise_append"} : Go(p, step)
      BY <2>2 DEF ReviseChild, ReviseLineage
    <3>3. /\ job'[p].lineage = job[p].lineage /\ job'[p].step = step
          /\ \A q \in Procs \ {p} : job'[q] = job[q]
      BY <1>0, <3>1, <3>2, GoFacts
    <3> QED
      BY <3>1, <3>2, <3>3 DEF At, Idle, Revising
  <2> QED
    BY <1>4, <2>1, <2>2
<1>5. ASSUME NEW p \in Procs, FreezeAppend(p) \/ ReviseAppend(p) \/ GiveUp(p) \/ WriteCut(p) \/ AppendCut(p)
      PROVE  Same
  <2>1. job'[p] = None /\ \A q \in Procs \ {p} : job'[q] = job[q]
    BY <1>0, <1>5, SetTypes DEF FreezeAppend, ReviseAppend, GiveUp, WriteCut, AppendCut
  <2> QED
    BY <2>1 DEF At, Idle, Revising
<1>6. ASSUME NEW p \in Procs, FreezeWrite(p) \/ (\E s \in Sources : FreezeRead(p, s))
                              \/ (\E a \in Sources, b \in Sources : ReviseVerify(p, a, b))
      PROVE  Same
  <2>1. job'[p].step \in {"freeze_append", "freeze_audit", "revise_registered"}
        /\ \A q \in Procs \ {p} : job'[q] = job[q]
    BY <1>0, <1>6 DEF FreezeWrite, FreezeRead, ReviseVerify, Set, TypeOK
  <2> QED
    BY <2>1 DEF At, Idle, Revising
<1>7. CASE UNCHANGED job
  <2>1. Same
    BY <1>7 DEF At, Idle, Revising
  <2> QED
    BY <1>1, <2>1
<1>8. ASSUME NEW s \in Sources, DeleteReceipt(s) \/ \E c \in Contents : Edit(s, c) PROVE UNCHANGED job
  BY <1>8 DEF DeleteReceipt, Edit
<1>9. ASSUME NEW p \in Procs, Freeze(p) \/ Revise(p) \/ GiveUp(p) \/ WriteCut(p) \/ AppendCut(p)
      PROVE  ReviseRegistered(p) \/ ReviseRead(p) \/ Same
  <2> HIDE DEF Same
  <2> QED
    BY <1>4, <1>5, <1>6, <1>9 DEF Freeze, Revise
<1>10. CASE UNCHANGED vars
  BY <1>7, <1>1, <1>10 DEF vars
<1> HIDE DEF Same
<1> QED
  BY <1>1, <1>2, <1>3, <1>7, <1>8, <1>9, <1>10 DEF Next

LEMMA RevisionStep == IInv /\ [Next]_vars => RevisionFollowsFreeze'
<1> SUFFICES ASSUME IInv, [Next]_vars, NEW i \in DOMAIN ledger', ledger'[i].type = "REVISION"
             PROVE  \E j \in 1..(i - 1) : /\ ledger'[j].type = "FREEZE" /\ ledger'[j].subject = ledger'[i].parent
                                          /\ ledger'[j].core = ledger'[i].core
  BY DEF RevisionFollowsFreeze
<1>0. TypeOK /\ RevisersKnow /\ RevisionFollowsFreeze
  BY DEF IInv
<1>1. CASE i \in 1..Len(ledger)
  BY <1>0, <1>1, LedgerGrows DEF RevisionFollowsFreeze
<1>2. CASE i \notin 1..Len(ledger)
  <2>1. \A e : ledger' = Append(ledger, e) => i = Len(ledger) + 1 /\ ledger'[i] = e
    BY <1>0, <1>2 DEF TypeOK
  <2>2. ~UNCHANGED ledger
    BY <1>0, <1>2 DEF TypeOK
  <2>3. PICK p \in Procs : At(p, "revise_append") /\ ledger' = Append(ledger, RevisionEvent(p))
    <3>1. \A p \in Procs : ledger' = Append(ledger, FreezeEvent(p)) => ledger'[i].type = "FREEZE"
      BY <2>1 DEF FreezeEvent
    <3> QED
      BY <1>0, <2>2, <3>1, LedgerStep
  <2>4. /\ i = Len(ledger) + 1 /\ ledger'[i].parent = job[p].lineage.parent
        /\ ledger'[i].core = job[p].lineage.core
    BY <2>1, <2>3 DEF RevisionEvent
  <2>5. FrozenAs(job[p].lineage.parent, job[p].lineage.core, Len(ledger))
    BY <1>0, <2>3 DEF RevisersKnow, Revising, At
  <2> QED
    BY <1>0, <2>4, <2>5, LedgerGrows DEF FrozenAs
<1> QED
  BY <1>1, <1>2

LEMMA StepIInv == IInv /\ [Next]_vars => IInv'
  BY TypeStep, ClaimsStep, FrozenStep, RevisersStep, RevisionStep DEF IInv

LEMMA Invariance == Spec => []IInv
  BY InitIInv, StepIInv, PTL DEF Spec

(* Two claims with the id of one receipt agree on path and content.        *)
LEMMA EventsOfReceipt ==
  ASSUME IInv, NEW s \in Sources, receipt[s] # None, NEW i \in FreezeIndices, ledger[i].core = receipt[s].id
  PROVE  ledger[i].subject = s /\ ledger[i].content = receipt[s].content
<1>1. ReceiptClaim(s) \in Claims /\ EventClaim(i) \in Claims
  BY DEF Claims, ReceiptClaims, EventClaims, HasReceipt
<1>2. ReceiptClaim(s) = EventClaim(i)
  BY <1>1 DEF IInv, IdsOnce, ReceiptClaim, EventClaim, Claim
<1> QED
  BY <1>2 DEF ReceiptClaim, EventClaim, Claim

LEMMA EventsAtIndices ==
  ASSUME NEW s \in Sources, NEW event \in FreezeEvents(s)
  PROVE  \E i \in FreezeIndices : event = ledger[i] /\ ledger[i].subject = s
  BY DEF FreezeEvents, FreezeIndices

-----------------------------------------------------------------------------
(* Every variable stays in its domain.                                     *)
THEOREM TypeCorrect == Spec => []TypeOK
  BY Invariance, PTL DEF IInv

(* A source that passes the gate with a receipt has bytes that a           *)
(* registered freeze of its path read, through all edits and deletions.    *)
THEOREM GateIsRegistered == Spec => []GateMeansRegisteredBytes
<1>1. IInv => GateMeansRegisteredBytes
  <2> SUFFICES ASSUME IInv, NEW s \in Sources, MayRun(s), receipt[s] # None
               PROVE  \E event \in FreezeEvents(s) : source[s] = event.content
    BY DEF GateMeansRegisteredBytes
  <2>1. PICK event \in FreezeEvents(s) : event.core = receipt[s].id
    BY DEF MayRun, Registered
  <2>2. event.content = receipt[s].content
    BY <2>1, EventsAtIndices, EventsOfReceipt
  <2> QED
    BY <2>2 DEF MayRun, Verified
<1> QED
  BY <1>1, Invariance, PTL

(* While no receipt is deleted, a source that the ledger has as frozen     *)
(* runs only with the bytes that were frozen: its receipt is the one that  *)
(* every event of the path claims.                                         *)
THEOREM GateHolds == Spec => []GateWhileReceiptsStay
<1>1. IInv => GateWhileReceiptsStay
  <2> SUFFICES ASSUME IInv, deletes = 0, NEW s \in Sources, MayRun(s), NEW event \in FreezeEvents(s)
               PROVE  source[s] = event.content
    BY DEF GateWhileReceiptsStay, FrozenSourceGate
  <2>1. PICK i \in FreezeIndices : event = ledger[i] /\ ledger[i].subject = s
    BY EventsAtIndices
  <2>2. EventClaim(i) \in Claims /\ EventClaim(i).path = s /\ EventClaim(i).id = ledger[i].core
    BY <2>1 DEF Claims, EventClaims, EventClaim, Claim
  <2>3. receipt[s] # None /\ receipt[s].id = ledger[i].core
    BY <2>2 DEF IInv, ClaimsStay
  <2>4. event.content = receipt[s].content
    BY <2>1, <2>3, EventsOfReceipt
  <2> QED
    BY <2>3, <2>4 DEF MayRun, Verified
<1> QED
  BY <1>1, Invariance, PTL

(* A receipt whose create_freeze returned Ok has its event in the ledger,  *)
(* with its path and its content.                                          *)
THEOREM OkIsRegistered == Spec => []OkMeansRegistered
<1>1. IInv => OkMeansRegistered
  <2> SUFFICES ASSUME IInv, NEW s \in Sources, receipt[s] # None, receipt[s].id \in frozen
               PROVE  \E event \in FreezeEvents(s) : event.core = receipt[s].id /\ event.content = receipt[s].content
    BY DEF OkMeansRegistered
  <2>1. PICK i \in FreezeIndices : ledger[i].core = receipt[s].id
    BY DEF IInv, FrozenHaveEvents
  <2>2. ledger[i].subject = s /\ ledger[i].content = receipt[s].content
    BY <2>1, EventsOfReceipt
  <2> QED
    BY <2>1, <2>2 DEF FreezeEvents, FreezeIndices
<1> QED
  BY <1>1, Invariance, PTL

(* Every revision in the ledger comes after the freeze that it names.      *)
THEOREM RevisionsFollow == Spec => []RevisionFollowsFreeze
  BY Invariance, PTL DEF IInv

(* A receipt left without its event by a failed freeze never becomes       *)
(* registered: only its own job could append for it.                       *)
THEOREM OrphansStay == Spec => OrphansStayOrphans
<1>1. ASSUME TypeOK, [Next]_vars, NEW s \in Sources, Orphan(s) PROVE Orphan(s)' \/ receipt'[s] = None
  <2> SUFFICES ASSUME receipt'[s] # None PROVE Orphan(s)'
    OBVIOUS
  <2>1. receipt'[s] = receipt[s] /\ receipt[s] # None
    BY <1>1, ReceiptStep, JobKinds DEF NoReceiptWritten, Written, Orphan, TypeOK, At, FreezeJobs
  <2>2. ~Appending(s)'
    <3> SUFFICES ASSUME NEW q \in Procs, At(q, "freeze_append")', job'[q].source = s PROVE FALSE
      BY DEF Appending
    <3>1. CASE NoReceiptWritten
      BY <1>1, <3>1 DEF NoReceiptWritten, Orphan, Appending
    <3>2. CASE \E p \in Procs, r \in ReceiptFiles : Written(p, r)
      <4>1. PICK p \in Procs, r \in ReceiptFiles : Written(p, r)
        BY <3>2
      <4>2. CASE q = p
        BY <4>1, <4>2, <2>1 DEF Written, At, Idle
      <4>3. CASE q # p
        BY <1>1, <4>1, <4>3 DEF Written, At, Idle, Orphan, Appending
      <4> QED
        BY <4>2, <4>3
    <3> QED
      BY <1>1, <3>1, <3>2, ReceiptStep
  <2>3. \A event \in FreezeEvents(s)' : event.core # receipt[s].id
    <3> SUFFICES ASSUME NEW i \in DOMAIN ledger', ledger'[i].type = "FREEZE", ledger'[i].subject = s
                 PROVE  ledger'[i].core # receipt[s].id
      BY DEF FreezeEvents
    <3>1. EventClaim(i)' \in EventClaims \union JobClaims
      BY <1>1, EventClaimsStep DEF EventClaims, FreezeIndices
    <3>2. EventClaim(i)'.path = s /\ EventClaim(i)'.id = ledger'[i].core
      BY DEF EventClaim, Claim
    <3>3. \A a \in JobClaims : a.path # s
      BY <1>1 DEF JobClaims, JobClaim, Claim, AppendingProcs, Orphan, Appending
    <3>4. \A a \in EventClaims : a.path = s => a.id # receipt[s].id
      BY <1>1 DEF EventClaims, EventClaim, Claim, FreezeIndices, Orphan, FreezeEvents
    <3> QED
      BY <3>1, <3>2, <3>3, <3>4
  <2> QED
    BY <2>1, <2>2, <2>3 DEF Orphan
<1>2. TypeOK /\ [Next]_vars => \A s \in Sources : Orphan(s) => Orphan(s)' \/ receipt'[s] = None
  BY <1>1
<1> QED
  BY <1>2, TypeCorrect, PTL DEF Spec, OrphansStayOrphans

-----------------------------------------------------------------------------
P == INSTANCE RunFileProofs WITH Contents <- Texts, source <- text, frozen <- pinned, ledger <- events,
                                 damaged <- spoilt, edits <- changes, faults <- errors, MaxEdits <- MaxChanges

IInvRuns == IF what = "runs" THEN P!IInv ELSE NoRun

-----------------------------------------------------------------------------
(* The two instances of RunFile say the same.                              *)
LEMMA SameRuns ==
  P!RunConstants /\ (R!Init <=> P!Init) /\ (R!Next <=> P!Next)
<1>1. P!RunConstants
  BY RunsConstants DEF R!RunConstants, P!RunConstants, R!Receipts, P!Receipts, R!Records, P!Records, R!Steps, P!Steps,
     R!Statuses, P!Statuses
<1>2. R!Init <=> P!Init
  BY DEF R!Init, P!Init
<1>3. R!Next <=> P!Next
  BY DEF R!AppendFails, R!AppendRefused, R!AppendStderr, R!Appending, R!At, R!AuditVerdicts, R!BeginAppend,
     R!CaptureRefused, R!Decide, R!Die, R!Edit, R!EndAppend, R!Errors, R!Evaluate, R!Event, R!Everyday,
     R!EvidenceFails, R!Execute, R!Fail, R!Fault, R!FreezeVerdicts, R!Gate, R!Go, R!Incomplete, R!MarkIncomplete,
     R!NewReceipt, R!Next, R!Observe, R!ObserveFails, R!Parse, R!ParseError, R!Partials, R!Preflight, R!Profile,
     R!Publish, R!PublishFails, R!RefuseLedger, R!RegistrationRepair, R!Repair, R!RepairStep, R!Reseal, R!Rest,
     R!SelfCheck, R!SelfCheckFails, R!SelfCheckRepair, R!Start, R!Started, R!Verify, R!Write, R!shared, P!AppendFails,
     P!AppendRefused, P!AppendStderr, P!Appending, P!At, P!AuditVerdicts, P!BeginAppend, P!CaptureRefused, P!Decide,
     P!Die, P!Edit, P!EndAppend, P!Errors, P!Evaluate, P!Event, P!Everyday, P!EvidenceFails, P!Execute, P!Fail,
     P!Fault, P!FreezeVerdicts, P!Gate, P!Go, P!Incomplete, P!MarkIncomplete, P!NewReceipt, P!Next, P!Observe,
     P!ObserveFails, P!Parse, P!ParseError, P!Partials, P!Preflight, P!Profile, P!Publish, P!PublishFails,
     P!RefuseLedger, P!RegistrationRepair, P!Repair, P!RepairStep, P!Reseal, P!Rest, P!SelfCheck, P!SelfCheckFails,
     P!SelfCheckRepair, P!Start, P!Started, P!Verify, P!Write, P!shared
<1> QED
  BY <1>1, <1>2, <1>3

LEMMA RunsInductive == MCSpec => []IInvRuns
<1>1. MCInit => IInvRuns
  BY SameRuns, P!InitIInv DEF MCInit, IInvRuns
<1>2. ASSUME IInvRuns, [MCNext]_all PROVE IInvRuns'
  <2>1. CASE what = "runs"
    <3>1. what' = what /\ (R!Next \/ UNCHANGED runs)
      BY <1>2, <2>1 DEF MCNext, all
    <3>2. [P!Next]_P!vars
      BY <3>1, SameRuns DEF runs, P!vars
    <3>3. P!IInv'
      BY <1>2, <2>1, <3>2, SameRuns, P!NextIInv DEF IInvRuns
    <3> QED
      BY <2>1, <3>1, <3>3 DEF IInvRuns
  <2>2. CASE what # "runs"
    <3>1. what' = what /\ UNCHANGED runs
      BY <1>2, <2>2 DEF MCNext, all
    <3> QED
      BY <1>2, <2>2, <3>1 DEF IInvRuns, NoRun, runs
  <2> QED
    BY <2>1, <2>2
<1> QED
  BY <1>1, <1>2, PTL DEF MCSpec

-----------------------------------------------------------------------------
Positions == 1..Len(walk)

WalkOK ==
  /\ parent \in [Nodes -> Nodes \union {None}] /\ broken \subseteq Nodes
  /\ walk \in Seq(Nodes) /\ Len(walk) \in 1..MaxGenerations
  /\ result \in {"walking", "chain", "damaged", "too long"}

Linked ==
  \A i \in 1..(Len(walk) - 1) : walk[i] \notin broken /\ parent[walk[i]] = walk[i + 1]

RepeatsArePeriods ==
  \A i, j \in Positions : i < j /\ walk[i] = walk[j] => walk[Len(walk) - (j - i)] = W!Current

ChainEndsAtRoot == result = "chain" => parent[W!Current] = None

WalkInv == WalkOK /\ Linked /\ RepeatsArePeriods /\ ChainEndsAtRoot

-----------------------------------------------------------------------------
LEMMA WalkInit ==
  ASSUME W!LineageConstants PROVE W!Init => WalkInv
<1> SUFFICES ASSUME W!Init PROVE WalkInv
  OBVIOUS
<1>1. PICK s \in Nodes : walk = <<s>>
  BY DEF W!Init
<1>2. walk \in Seq(Nodes) /\ Len(walk) = 1
  BY <1>1
<1>3. WalkOK
  BY <1>2 DEF W!LineageConstants, W!Init, WalkOK
<1>4. Linked /\ RepeatsArePeriods /\ ChainEndsAtRoot
  BY <1>2 DEF W!Init, Linked, RepeatsArePeriods, ChainEndsAtRoot, Positions
<1> QED
  BY <1>3, <1>4 DEF WalkInv

(* The next generation repeats the period of every earlier repetition.     *)
LEMMA WalkVisit ==
  ASSUME W!LineageConstants PROVE WalkInv /\ W!Visit => WalkInv'
<1> SUFFICES ASSUME WalkInv, W!Visit PROVE WalkInv'
  OBVIOUS
<1> DEFINE n == Len(walk)
<1> USE DEF W!LineageConstants
<1>1. /\ walk \in Seq(Nodes) /\ n \in Nat /\ n >= 1 /\ n < MaxGenerations
      /\ parent[walk[n]] \in Nodes /\ walk[n] \notin broken
  BY DEF WalkInv, WalkOK, W!Visit, W!Current
<1>2. /\ walk' \in Seq(Nodes) /\ Len(walk') = n + 1 /\ walk'[n + 1] = parent[walk[n]]
      /\ \A i \in 1..n : walk'[i] = walk[i]
      /\ UNCHANGED <<parent, broken, result>> /\ result = "walking"
  BY <1>1 DEF W!Visit, W!Current
<1>3. WalkOK'
  BY <1>1, <1>2 DEF WalkInv, WalkOK
<1>4. Linked'
  <2> SUFFICES ASSUME NEW i \in 1..n PROVE walk'[i] \notin broken /\ parent[walk'[i]] = walk'[i + 1]
    BY <1>1, <1>2 DEF Linked
  <2>1. CASE i = n
    BY <2>1, <1>1, <1>2
  <2>2. CASE i # n
    BY <2>2, <1>1, <1>2 DEF WalkInv, Linked
  <2> QED
    BY <2>1, <2>2
<1>5. RepeatsArePeriods'
  <2> SUFFICES ASSUME NEW i \in 1..(n + 1), NEW j \in 1..(n + 1), i < j, walk'[i] = walk'[j]
               PROVE walk'[n + 1 - (j - i)] = walk'[n + 1]
    BY <1>1, <1>2 DEF RepeatsArePeriods, Positions, W!Current
  <2>1. CASE j = n + 1
    BY <2>1, <1>1
  <2>2. CASE j # n + 1
    <3> DEFINE k == n - (j - i)
    <3> HIDE DEF n
    <3>0. i \in 1..n /\ j \in 1..n /\ k \in 1..(n - 1) /\ n + 1 - (j - i) = k + 1
      BY <2>2, <1>1
    <3>1. /\ i \in 1..n /\ j \in 1..n /\ k \in 1..(n - 1) /\ n + 1 - (j - i) = k + 1
          /\ walk[i] = walk[j]
      BY <3>0, <1>2
    <3> USE DEF n
    <3>2. walk[k] = walk[n]
      BY <3>1 DEF WalkInv, RepeatsArePeriods, Positions, W!Current
    <3>3. parent[walk[k]] = walk[k + 1]
      BY <3>1 DEF WalkInv, Linked
    <3> QED
      BY <3>1, <3>2, <3>3, <1>1, <1>2
  <2> QED
    BY <2>1, <2>2
<1>6. ChainEndsAtRoot'
  BY <1>2 DEF ChainEndsAtRoot
<1> QED
  BY <1>3, <1>4, <1>5, <1>6 DEF WalkInv

LEMMA WalkStep ==
  ASSUME W!LineageConstants PROVE WalkInv /\ [W!Next]_W!vars => WalkInv'
<1> SUFFICES ASSUME WalkInv, [W!Next]_W!vars PROVE WalkInv'
  OBVIOUS
<1>1. CASE W!Visit
  BY <1>1, WalkVisit
<1>2. CASE W!RefuseDamaged
  BY <1>2 DEF W!RefuseDamaged, WalkInv, WalkOK, Linked, RepeatsArePeriods, ChainEndsAtRoot, Positions, W!Current
<1>3. CASE W!End
  BY <1>3 DEF W!LineageConstants, W!End, WalkInv, WalkOK, Linked, RepeatsArePeriods, ChainEndsAtRoot,
     Positions, W!Current
<1>4. CASE UNCHANGED W!vars
  BY <1>4 DEF W!vars, WalkInv, WalkOK, Linked, RepeatsArePeriods, ChainEndsAtRoot, Positions, W!Current
<1> QED
  BY <1>1, <1>2, <1>3, <1>4 DEF W!Next

(* At a root, a repetition would make a node with a parent the root.       *)
LEMMA WalkIsAncestry ==
  ASSUME W!LineageConstants PROVE WalkInv => W!ChainIsAncestry
<1> SUFFICES ASSUME WalkInv, result = "chain"
             PROVE  \A i, j \in DOMAIN walk : walk[i] = walk[j] => i = j
  BY DEF WalkInv, W!ChainIsAncestry, Linked, ChainEndsAtRoot
<1> DEFINE n == Len(walk)
<1>1. /\ walk \in Seq(Nodes) /\ n \in Nat /\ DOMAIN walk = 1..n /\ parent[walk[n]] = None
      /\ None \notin Nodes
  BY DEF W!LineageConstants, WalkInv, WalkOK, ChainEndsAtRoot, W!Current
<1>2. \A i, j \in 1..n : i < j => walk[i] # walk[j]
  <2> SUFFICES ASSUME NEW i \in 1..n, NEW j \in 1..n, i < j, walk[i] = walk[j] PROVE FALSE
    OBVIOUS
  <2> DEFINE k == n - (j - i)
  <2>1. k \in 1..(n - 1)
    BY <1>1
  <2>2. walk[k] = walk[n]
    BY <1>1 DEF WalkInv, RepeatsArePeriods, Positions, W!Current
  <2>3. parent[walk[k]] = walk[k + 1] /\ walk[k + 1] \in Nodes
    BY <2>1, <1>1 DEF WalkInv, Linked
  <2> QED
    BY <2>2, <2>3, <1>1
<1> QED
  BY <1>1, <1>2


IInvWalk == what = "walk" => WalkInv
LEMMA WalkInductive == MCSpec => []IInvWalk
<1>1. MCInit => IInvWalk
  BY WalkConstants, WalkInit DEF MCInit, IInvWalk
<1>2. ASSUME IInvWalk, [MCNext]_all PROVE IInvWalk'
  <2>1. CASE what = "walk"
    <3>1. what' = what /\ (W!Next \/ UNCHANGED line)
      BY <1>2, <2>1 DEF MCNext, all
    <3>2. [W!Next]_W!vars
      BY <3>1 DEF line, W!vars
    <3>3. WalkInv'
      BY <1>2, <2>1, <3>2, WalkConstants, WalkStep DEF IInvWalk
    <3> QED
      BY <3>3 DEF IInvWalk
  <2>2. CASE what # "walk"
    <3>1. what' = what
      BY <1>2, <2>2 DEF MCNext, all
    <3> QED
      BY <2>2, <3>1 DEF IInvWalk
  <2> QED
    BY <2>1, <2>2
<1> QED
  BY <1>1, <1>2, PTL DEF MCSpec

(* The walk stays within the sources and its bound, for every bound on     *)
(* generations.                                                            *)
WalkTypeOK == what = "walk" => W!TypeOK
THEOREM WalkTypes == MCSpec => []WalkTypeOK
<1>1. WalkInv => W!TypeOK
  <2> SUFFICES ASSUME WalkInv PROVE W!TypeOK
    OBVIOUS
  <2>1. walk \in Seq(Nodes)
    BY DEF WalkInv, WalkOK
  <2>2. \A i \in DOMAIN walk : walk[i] \in Nodes
    BY <2>1
  <2> QED
    BY <2>2 DEF WalkInv, WalkOK, W!TypeOK
<1>2. IInvWalk => WalkTypeOK
  BY <1>1 DEF IInvWalk, WalkTypeOK
<1> QED
  BY <1>2, WalkInductive, PTL

(* What lineage_chain returns is the ancestry of its source, without a     *)
(* repeated node, whatever cycles the receipts form.                       *)
THEOREM AncestryReturned == MCSpec => []ChainIsAncestry
<1>1. IInvWalk => ChainIsAncestry
  BY WalkConstants, WalkIsAncestry DEF IInvWalk, ChainIsAncestry
<1> QED
  BY <1>1, WalkInductive, PTL

(* The walk ends: every step that is no stutter either visits one more     *)
(* generation, of at most MaxGenerations, or gives the result, after which *)
(* there is no further step.                                               *)
Progress ==
  [][what = "walk" =>
       \/ result = "walking" /\ UNCHANGED result /\ Len(walk') = Len(walk) + 1 /\ Len(walk') <= MaxGenerations
       \/ result = "walking" /\ result' # "walking" /\ UNCHANGED walk]_line
THEOREM WalkAdvances == MCSpec => Progress
<1>1. ASSUME WalkInv, W!Next
      PROVE  \/ result = "walking" /\ UNCHANGED result /\ Len(walk') = Len(walk) + 1 /\ Len(walk') <= MaxGenerations
             \/ result = "walking" /\ result' # "walking" /\ UNCHANGED walk
  <2>1. CASE W!Visit
    BY <1>1, <2>1, WalkConstants DEF W!LineageConstants, WalkInv, WalkOK, W!Visit
  <2>2. CASE W!RefuseDamaged \/ W!End
    BY <2>2 DEF W!RefuseDamaged, W!End
  <2> QED
    BY <1>1, <2>1, <2>2 DEF W!Next
<1>2. ASSUME IInvWalk, [MCNext]_all
      PROVE  [what = "walk" =>
                \/ result = "walking" /\ UNCHANGED result /\ Len(walk') = Len(walk) + 1 /\ Len(walk') <= MaxGenerations
                \/ result = "walking" /\ result' # "walking" /\ UNCHANGED walk]_line
  <2>1. CASE what = "walk" /\ W!Next
    BY <1>1, <1>2, <2>1 DEF IInvWalk
  <2>2. CASE what # "walk" \/ UNCHANGED line
    BY <2>2
  <2>3. (what = "walk" /\ W!Next) \/ what # "walk" \/ UNCHANGED line
    BY <1>2 DEF MCNext, all, line
  <2> QED
    BY <2>1, <2>2, <2>3
<1> QED
  BY <1>2, WalkInductive, PTL DEF MCSpec, Progress

-----------------------------------------------------------------------------
(* A run that run_file returns verifies, and no failed run has an output   *)
(* under its complete name.                                                *)
THEOREM ReturnedRunsAccepted == MCSpec => []ReturnedRunsVerify
<1>1. P!IInv => P!ReturnedRunsVerify /\ P!LateFailuresPartial
  BY SameRuns, P!IInvAccepted
<1>2. /\ P!ReturnedRunsVerify <=> R!ReturnedRunsVerify
      /\ P!LateFailuresPartial <=> R!LateFailuresPartial
  BY DEF R!At, R!Done, R!FailedOutputsPartial, R!LateFailuresPartial, R!Profile, R!ReturnedRunsVerify, R!Started,
     R!Verify, P!At, P!Done, P!FailedOutputsPartial, P!LateFailuresPartial, P!Profile, P!ReturnedRunsVerify,
     P!Started, P!Verify
<1>3. NoRun => R!ReturnedRunsVerify /\ R!LateFailuresPartial
  BY DEF NoRun, R!ReturnedRunsVerify, R!LateFailuresPartial, R!FailedOutputsPartial, R!Done, R!At, R!Started
<1>4. IInvRuns => ReturnedRunsVerify
  BY <1>1, <1>2, <1>3 DEF IInvRuns, ReturnedRunsVerify
<1> QED
  BY <1>4, RunsInductive, PTL

(* A receipt passes only if the ledger has it, and no receipt passes that  *)
(* the ledger has otherwise.                                               *)
THEOREM ReceiptsAgree == MCSpec => []LedgerAgrees
<1>1. P!IInv => P!LedgerAgrees
  BY SameRuns, P!IInvAgrees
<1>2. P!LedgerAgrees <=> R!LedgerAgrees
  BY DEF R!At, R!Done, R!Event, R!LedgerAgrees, R!PassIsRegistered, R!RegisteredOrFailed, R!Started, P!At, P!Done,
     P!Event, P!LedgerAgrees, P!PassIsRegistered, P!RegisteredOrFailed, P!Started
<1>3. NoRun => R!LedgerAgrees
  BY DEF NoRun, R!LedgerAgrees, R!PassIsRegistered, R!RegisteredOrFailed, R!Done, R!At, R!Started
<1>4. IInvRuns => LedgerAgrees
  BY <1>1, <1>2, <1>3 DEF IInvRuns, LedgerAgrees
<1> QED
  BY <1>4, RunsInductive, PTL

(* What is evaluated of a frozen source is what was frozen.                *)
THEOREM FrozenBytesRun == MCSpec => []FrozenBytesEvaluated
<1>1. P!IInv => P!FrozenBytesEvaluated
  BY P!IInvFrozen
<1>2. P!FrozenBytesEvaluated <=> R!FrozenBytesEvaluated
  BY DEF R!At, R!FrozenBytesEvaluated, R!Started, P!At, P!FrozenBytesEvaluated, P!Started
<1>3. NoRun => R!FrozenBytesEvaluated
  BY DEF NoRun, R!FrozenBytesEvaluated, R!At, R!Started
<1>4. IInvRuns => FrozenBytesEvaluated
  BY <1>1, <1>2, <1>3 DEF IInvRuns, FrozenBytesEvaluated
<1> QED
  BY <1>4, RunsInductive, PTL
-----------------------------------------------------------------------------
(* A content is there.                                                     *)
LEMMA Present ==
  ASSUME NEW x, A!IsContent(x)
  PROVE  A!Some(x)
BY DEF A!IsContent, A!Some, A!Null

LEMMA ContentPresent == \A c : A!Some(A!Content(c))
BY DEF A!Some, A!Null, A!Content

(* What a receipt says of the run it is of.                                *)
LEMMA ReceiptIs ==
  ASSUME NEW a, NEW r, r = A!RunOf(a).receipt
  PROVE  /\ r.schema = "v2" /\ r.version = "current" /\ r.status = (IF A!Succeeds(a) THEN "PASS" ELSE "FAIL")
         /\ r.profile = (IF A!Parses(a.text) THEN a.text.profile ELSE "EVERYDAY") /\ r.paranoid = A!Watched(a)
         /\ r.postflight = A!ObservedAtEnd(a)
         /\ r.engine = (IF a.compiled THEN "rust-native-compiled" ELSE "rust-interpreter")
         /\ r.source = a.text /\ r.canonical = (IF A!Parses(a.text) THEN A!Content(a.text.program) ELSE A!Null)
         /\ r.modules = A!Null /\ r.policies = A!Current /\ r.evidence = A!Evidence
         /\ r.replay = (IF A!Native(a) THEN A!Readings ELSE A!Null) /\ r.resources = A!Used(a.text)
         /\ r.final = A!Final(a) /\ r.interaction = [digest |-> A!Argv, argc |-> 1] /\ r.stdout = a.out
         /\ r.stderr = A!Content("stderr.log") /\ r.sealed = A!SealedValues(a) /\ r.generated = A!Generated(a)
         /\ r.imports = A!Imported(a) /\ r.named = A!FilesNamed(a)
BY DEF A!RunOf, A!Receipt, A!Seal

(* Sealing a receipt leaves what is sealed as it is.                       *)
LEMMA SealBinds ==
  ASSUME NEW D, "core" \in D, NEW r, r \in [D -> UNION {{r[x]} : x \in D}]
  PROVE  /\ A!CoreBound(A!Seal(r)) /\ DOMAIN A!Seal(r) = D
         /\ \A x \in D \ {"core"} : A!Seal(r)[x] = r[x]
PROOF
<1> DEFINE s == A!Seal(r)
<1>1. DOMAIN r = D /\ r = [x \in D |-> r[x]]
  OBVIOUS
<1>2. s = [x \in D |-> IF x = "core" THEN [of |-> A!Sealed(r)] ELSE r[x]]
  BY <1>1 DEF A!Seal
<1> HIDE DEF s
<1>3. A!Sealed(s) = [x \in D |-> IF x = "core" THEN A!Null ELSE r[x]]
  BY <1>2 DEF A!Sealed
<1>4. A!Sealed(r) = [x \in D |-> IF x = "core" THEN A!Null ELSE r[x]]
  BY <1>1 DEF A!Sealed
<1>5. s.core = [of |-> A!Sealed(s)]
  BY <1>2, <1>3, <1>4
<1>6. QED
  BY <1>2, <1>5 DEF A!CoreBound, s

ReceiptFields == {"schema", "version", "core", "status", "profile", "paranoid", "postflight", "engine", "source", "canonical",
                  "modules", "policies", "evidence", "replay", "resources", "final", "interaction", "stdout", "stderr",
                  "sealed", "generated", "imports", "named"}
LEMMA CoreIs ==
  ASSUME NEW a
  PROVE  A!CoreBound(A!RunOf(a).receipt) /\ DOMAIN A!RunOf(a).receipt = ReceiptFields
PROOF
<1> DEFINE r == A!Receipt(a)
<1>1. DOMAIN r = ReceiptFields /\ r = [x \in ReceiptFields |-> r[x]]
  BY DEF A!Receipt, ReceiptFields
<1>2. A!RunOf(a).receipt = A!Seal(r)
  BY DEF A!RunOf
<1> HIDE DEF r
<1>3. r \in [ReceiptFields -> UNION {{r[x]} : x \in ReceiptFields}]
  BY <1>1
<1>4. "core" \in ReceiptFields
  BY DEF ReceiptFields
<1>5. QED
  BY <1>2, <1>3, <1>4, SealBinds

(* What is in its files.                                                   *)
LEMMA WrittenIs ==
  ASSUME NEW a
  PROVE  /\ A!Written(a, "source") = a.text /\ A!Written(a, "interaction.json") = A!Argv
         /\ A!Written(a, "data-evidence/0") = a.data /\ A!Written(a, "stdout.log") = a.out
         /\ A!Written(a, "outputs/t") = a.out /\ A!Written(a, "native-outputs/t") = a.out
         /\ A!Written(a, "x.json") = a.out /\ A!Written(a, "final-state.json") = A!StateFile(a)
         /\ A!Written(a, "postflight/source.observed") = a.end
         /\ A!Written(a, "native-results.tsv") = A!Results(a) /\ A!Written(a, "native-data.json") = A!Manifest(a)
         /\ A!Written(a, "clock-replay.json") = A!Readings /\ A!Written(a, "program-native") = A!Content("rust")
         /\ A!Written(a, "program-native.rs") = A!Content("rust")
         /\ A!Written(a, "stderr.log") = A!Content("stderr.log")
         /\ A!Written(a, "ledger.jsonl") = A!Content("ledger.jsonl")
         /\ A!Written(a, "ledger.head") = A!Content("ledger.head")
BY DEF A!Written

LEMMA FilesAre ==
  ASSUME NEW a
  PROVE  /\ DOMAIN A!RunOf(a).files = A!FileNames(a) /\ A!RunOf(a).outputs = {"outputs/t"}
         /\ \A f \in A!FileNames(a) : A!RunOf(a).files[f] = A!Written(a, f) /\ A!At(A!RunOf(a), f) = A!Written(a, f)
BY DEF A!RunOf, A!At

LEMMA NamesAre ==
  /\ A!FileOf("ledger") = "ledger.jsonl" /\ A!FileOf("head") = "ledger.head" /\ A!FileOf("freeze") = "freeze.json"
  /\ A!FileOf("binary") = "program-native" /\ A!FileOf("rust") = "program-native.rs"
  /\ A!FileOf("results") = "native-results.tsv" /\ A!FileOf("data") = "native-data.json"
BY DEF A!FileOf

LEMMA NamedIs ==
  ASSUME NEW a
  PROVE  /\ A!FilesNamed(a)["ledger"] = A!Content("ledger.jsonl") /\ A!FilesNamed(a)["head"] = A!Content("ledger.head")
         /\ A!FilesNamed(a)["freeze"] = A!Null
         /\ A!Native(a) => /\ A!FilesNamed(a)["binary"] = A!Content("rust") /\ A!FilesNamed(a)["rust"] = A!Content("rust")
                           /\ A!FilesNamed(a)["results"] = A!Results(a) /\ A!FilesNamed(a)["data"] = A!Manifest(a)
         /\ ~A!Native(a) => \A n \in {"binary", "rust", "results", "data"} : A!FilesNamed(a)[n] = A!Null
PROOF
<1>1. \A n \in A!Named : A!FilesNamed(a)[n] = (IF n \in {"ledger", "head"} \/ (A!Native(a) /\ n # "freeze")
                                              THEN A!Written(a, A!FileOf(n)) ELSE A!Null)
  BY DEF A!FilesNamed
<1>2. QED
  BY <1>1, WrittenIs, NamesAre DEF A!Named

(* The records of a run are contents.                                      *)
LEMMA RecordsPresent ==
  ASSUME NEW a
  PROVE  /\ A!Some(A!Argv) /\ A!Some(A!StateFile(a)) /\ A!Some(A!Results(a)) /\ A!Some(A!Manifest(a)) /\ A!Some(A!Readings)
         /\ A!Some(A!Content("rust"))
BY ContentPresent DEF A!Argv, A!StateFile, A!Results, A!Manifest, A!Readings, A!Some, A!Null

LEMMA ExecutionIs ==
  ASSUME NEW a, A!IsExecution(a)
  PROVE  /\ a.kept \in BOOLEAN /\ a.fails \in BOOLEAN /\ a.compiled \in BOOLEAN
         /\ A!Some(a.text) /\ A!Some(a.out) /\ A!Some(a.data)
         /\ a.text = [content |-> a.text.content, program |-> a.text.program, profile |-> a.text.profile, budget |-> a.text.budget]
         /\ a.text.profile \in {"EVERYDAY", "GO_PARANOID", "COMPLETELY_MAD"} /\ a.text.budget \in 0..MaxBudget
         /\ A!Parses(a.text) = (a.text.program # "unparseable")
PROOF
<1>1. /\ a.kept \in BOOLEAN /\ a.fails \in BOOLEAN /\ a.compiled \in BOOLEAN
      /\ A!IsText(a.text) /\ A!IsContent(a.out) /\ A!IsContent(a.data)
  BY DEF A!IsExecution
<1>2. a.text = [content |-> a.text.content, program |-> a.text.program, profile |-> a.text.profile, budget |-> a.text.budget]
  BY <1>1 DEF A!IsText, A!Text
<1>3. DOMAIN a.text = {"content", "program", "profile", "budget"}
  BY <1>2
<1>4. A!Some(a.text)
  BY <1>3 DEF A!Some, A!Null
<1>5. A!Parses(a.text) = (a.text.program # "unparseable")
  BY <1>3 DEF A!Parses
<1>6. QED
  BY <1>1, <1>2, <1>4, <1>5, Present DEF A!IsText

-----------------------------------------------------------------------------
(* Every check of verify_run passes on a run as it was written.            *)
LEMMA Held ==
  ASSUME NEW a, NEW f \in A!FileNames(a), A!Some(A!Written(a, f))
  PROVE  A!CompareFile(A!RunOf(a), f, A!Written(a, f))
BY FilesAre DEF A!CompareFile

LEMMA BudgetsAre == MaxBudget \in Nat /\ DefaultBudget \in Nat \ {0}
BY ReceiptConstants

LEMMA SourceIs ==
  ASSUME NEW a, A!IsExecution(a)
  PROVE  A!At(A!RunOf(a), "source") = a.text /\ A!CompareFile(A!RunOf(a), "source", a.text)
PROOF
<1>1. "source" \in A!FileNames(a)
  BY DEF A!FileNames
<1>2. A!Written(a, "source") = a.text /\ A!Some(a.text)
  BY WrittenIs, ExecutionIs
<1>3. QED
  BY <1>1, <1>2, FilesAre, Held

LEMMA FinalStateHolds ==
  ASSUME NEW a, A!IsExecution(a)
  PROVE  A!FinalState(A!RunOf(a))
PROOF
<1> DEFINE dir == A!RunOf(a)
           r == dir.receipt
<1>1. A!At(dir, "source") = a.text
  BY FilesAre, WrittenIs DEF A!FileNames
<1>2. /\ r.final = A!Final(a) /\ r.status = (IF A!Succeeds(a) THEN "PASS" ELSE "FAIL") /\ r.paranoid = A!Watched(a)
      /\ r.engine = (IF a.compiled THEN "rust-native-compiled" ELSE "rust-interpreter")
  BY ReceiptIs
<1>3. A!IsMad(a) => A!At(dir, "final-state.json") = A!StateFile(a) /\ A!CompareFile(dir, "final-state.json", A!StateFile(a))
  BY FilesAre, WrittenIs, Held, RecordsPresent DEF A!FileNames
<1>4. A!Native(a) => A!At(dir, "native-results.tsv") = A!Results(a)
  BY FilesAre, WrittenIs DEF A!FileNames, A!OfNative
<1>5. A!Field(A!Results(a), "final") = a.out /\ A!Field(A!StateFile(a), "values") = a.out
  BY DEF A!Field, A!Results, A!StateFile
<1>6. CASE ~A!IsMad(a)
  <2>1. r.final \in {A!Null, [capture |-> "NOT_REQUESTED"]}
    BY <1>2, <1>6 DEF A!Final
  <2>2. QED
    BY <1>1, <1>6, <2>1 DEF A!FinalState, A!IsMad
<1>7. CASE A!IsMad(a)
  <2>1. r.final = [capture |-> "CAPTURED", complete |-> A!Succeeds(a), digest |-> A!StateFile(a),
                   origin |-> IF a.compiled THEN "INTERPRETER_REFERENCE" ELSE "INTERPRETER",
                   parity |-> IF ~a.compiled THEN "NOT_REQUESTED" ELSE IF A!Succeeds(a) THEN "PASS" ELSE "NOT_COMPLETED"]
    BY <1>2, <1>7 DEF A!Final, A!IsMad
  <2>2. A!Some(r.final) /\ A!Watched(a) /\ A!Parses(a.text) /\ a.text.profile = "COMPLETELY_MAD"
    BY <1>7, <2>1 DEF A!Some, A!Null, A!Watched, A!IsParanoid, A!IsMad
  <2>3. A!Succeeds(a) /\ a.compiled => A!Native(a)
    BY DEF A!Succeeds, A!Native
  <2> HIDE DEF dir
  <2>4. (r.status = "PASS" <=> A!Succeeds(a)) /\ (r.engine = "rust-native-compiled" <=> a.compiled)
    BY <1>2, ExecutionIs
  <2>5. /\ r.final.capture = "CAPTURED" /\ r.final.complete = (r.status = "PASS") /\ r.final.digest = A!StateFile(a)
        /\ r.final.origin = (IF r.engine = "rust-native-compiled" THEN "INTERPRETER_REFERENCE" ELSE "INTERPRETER")
        /\ r.final.parity = (IF ~(r.engine = "rust-native-compiled") THEN "NOT_REQUESTED"
                             ELSE IF r.status = "PASS" THEN "PASS" ELSE "NOT_COMPLETED")
    BY <2>1, <2>4 DEF A!Succeeds
  <2>6. r.status = "PASS" /\ r.engine = "rust-native-compiled" =>
          A!Field(A!At(dir, "native-results.tsv"), "final") = A!Field(A!At(dir, "final-state.json"), "values")
    BY <1>3, <1>4, <1>5, <1>7, <2>3, <2>4
  <2>7. r.paranoid /\ A!Some(r.final)
    BY <1>2, <2>2
  <2>8. A!CompareFile(dir, "final-state.json", r.final.digest)
    BY <1>3, <1>7, <2>5
  <2>9. A!Parses(A!At(dir, "source")) /\ A!At(dir, "source").profile = "COMPLETELY_MAD"
    BY <1>1, <2>2
  <2> HIDE DEF r
  <2>10. A!FinalState(dir)
    BY <2>5, <2>6, <2>7, <2>8, <2>9 DEF A!FinalState, r
  <2>11. QED
    BY <2>10 DEF dir
<1>8. QED
  BY <1>6, <1>7

LEMMA PoliciesHold ==
  ASSUME NEW a, A!IsExecution(a)
  PROVE  (\A p \in Policies : A!PolicySupported(A!RunOf(a).receipt, p)) /\ A!ClockReplay(A!RunOf(a))
PROOF
<1> DEFINE dir == A!RunOf(a)
           r == dir.receipt
<1>1. /\ r.policies = A!Current /\ r.evidence = A!Evidence /\ r.replay = (IF A!Native(a) THEN A!Readings ELSE A!Null)
      /\ r.status = (IF A!Succeeds(a) THEN "PASS" ELSE "FAIL")
      /\ r.engine = (IF a.compiled THEN "rust-native-compiled" ELSE "rust-interpreter")
  BY ReceiptIs
<1>2. ASSUME NEW p \in Policies PROVE A!PolicySupported(r, p)
  BY <1>1, ContentPresent DEF A!PolicySupported, A!Current, A!Evidence, A!Readings
<1>3. A!Native(a) => A!At(dir, "clock-replay.json") = A!Readings /\ A!CompareFile(dir, "clock-replay.json", A!Readings)
  BY FilesAre, WrittenIs, Held, RecordsPresent DEF A!FileNames, A!OfNative
<1>4. "clock" \in Policies => A!Evidence["clock"] = A!Readings
  BY DEF A!Evidence
<1>5. r.status = "PASS" /\ r.engine = "rust-native-compiled" => A!Native(a)
  BY <1>1, ExecutionIs DEF A!Succeeds, A!Native
<1>6. A!ClockReplay(dir)
  BY <1>1, <1>3, <1>4, <1>5 DEF A!ClockReplay, A!Some
<1>7. QED
  BY <1>2, <1>6

LEMMA SourceHolds ==
  ASSUME NEW a, A!IsExecution(a)
  PROVE  LET dir == A!RunOf(a)
         IN A!ResourceEvidence(dir) /\ A!SourceBound(dir) /\ A!ProfileBound(dir)
PROOF
<1> DEFINE dir == A!RunOf(a)
           r == dir.receipt
<1>1. /\ r.source = a.text /\ r.modules = A!Null /\ r.resources = A!Used(a.text) /\ r.paranoid = A!Watched(a)
      /\ r.profile = (IF A!Parses(a.text) THEN a.text.profile ELSE "EVERYDAY")
      /\ r.canonical = (IF A!Parses(a.text) THEN A!Content(a.text.program) ELSE A!Null)
      /\ r.status = (IF A!Succeeds(a) THEN "PASS" ELSE "FAIL")
  BY ReceiptIs
<1>2. A!At(dir, "source") = a.text /\ A!CompareFile(dir, "source", a.text)
  BY SourceIs
<1> HIDE DEF dir
<1>3. A!ResourceEvidence(dir)
  <2> DEFINE n == IF A!Parses(a.text) THEN a.text.budget ELSE 0
  <2>1. A!Used(a.text) = [requested |-> n, effective |-> A!Effective(n), used |-> 1]
    BY DEF A!Used
  <2>2. A!Some(A!Used(a.text))
    BY <2>1 DEF A!Some, A!Null
  <2>3. n \in 0..MaxBudget
    <3>1. a.text.budget \in 0..MaxBudget
      BY ExecutionIs
    <3>2. 0 \in 0..MaxBudget
      BY BudgetsAre
    <3>3. QED
      BY <3>1, <3>2
  <2>4. A!Effective(n) \in Nat /\ 1 <= A!Effective(n)
    BY <2>3, BudgetsAre DEF A!Effective
  <2>5. QED
    BY <1>1, <1>2, <2>1, <2>2, <2>3, <2>4 DEF A!ResourceEvidence
<1>4. A!SourceBound(dir)
  BY <1>1, <1>2 DEF A!SourceBound, A!Some
<1>5. A!ProfileBound(dir)
  <2>1. CASE A!Parses(a.text)
    BY <1>1, <1>2, <2>1 DEF A!ProfileBound, A!Watched, A!IsParanoid
  <2>2. CASE ~A!Parses(a.text)
    BY <1>1, <1>2, <2>2 DEF A!ProfileBound, A!Watched, A!Succeeds, A!Evaluates
  <2>3. QED
    BY <2>1, <2>2
<1>6. QED
  BY <1>3, <1>4, <1>5 DEF dir

LEMMA PostflightHolds ==
  ASSUME NEW a, A!IsExecution(a)
  PROVE  A!Postflight(A!RunOf(a))
PROOF
<1> DEFINE dir == A!RunOf(a)
           r == dir.receipt
           p == r.postflight
<1>1. /\ p = A!ObservedAtEnd(a) /\ r.paranoid = A!Watched(a) /\ r.source = a.text
      /\ r.status = (IF A!Succeeds(a) THEN "PASS" ELSE "FAIL")
  BY ReceiptIs
<1>2. CASE ~A!Watched(a)
  BY <1>1, <1>2 DEF A!Postflight, A!ObservedAtEnd, A!Some
<1>3. CASE A!Watched(a)
  <2>1. p = [status |-> IF a.end = A!Null THEN "SOURCE_UNAVAILABLE" ELSE IF ~a.kept THEN "EVIDENCE_UNAVAILABLE"
                        ELSE IF a.end = a.text THEN "PASS" ELSE "SOURCE_CHANGED",
             start |-> a.text, end |-> a.end, observed |-> A!Observed(a), equal |-> a.end = a.text, gate |-> TRUE]
    BY <1>1, <1>3 DEF A!ObservedAtEnd
  <2>2. A!Some(p) /\ p.start = r.source /\ p.gate
    BY <1>1, <2>1 DEF A!Some, A!Null
  <2>3. A!Succeeds(a) => a.end = a.text /\ a.kept /\ a.end # A!Null
    BY <1>3, ExecutionIs DEF A!Succeeds, A!Unchanged, A!Some
  <2>4. A!Some(A!Observed(a)) => A!CompareFile(dir, "postflight/source.observed", a.end) /\ A!Observed(a) = a.end
    BY <1>3, FilesAre, WrittenIs, Held DEF A!FileNames, A!Observed, A!Some
  <2>5. CASE a.end = A!Null \/ ~a.kept
    <3>1. p.status \in {"SOURCE_UNAVAILABLE", "EVIDENCE_UNAVAILABLE"} /\ p.observed = A!Null /\ r.status # "PASS"
      BY <1>1, <2>1, <2>3, <2>5 DEF A!Observed
    <3>2. p.status = "EVIDENCE_UNAVAILABLE" => A!Some(p.end)
      BY <2>1 DEF A!Some
    <3>3. QED
      BY <1>1, <1>3, <2>2, <3>1, <3>2 DEF A!Postflight, A!Some
  <2>6. CASE a.end # A!Null /\ a.kept
    <3>1. p.status = (IF a.end = a.text THEN "PASS" ELSE "SOURCE_CHANGED") /\ p.end = a.end /\ p.start = a.text
          /\ p.observed = a.end /\ p.equal = (a.end = a.text) /\ A!Some(a.end)
      BY <2>1, <2>6 DEF A!Observed, A!Some
    <3>2. A!CompareFile(dir, "postflight/source.observed", a.end)
      BY <2>4, <2>6 DEF A!Observed, A!Some
    <3>3. A!Verdict(r, p)
      BY <1>1, <2>3, <3>1 DEF A!Verdict
    <3>4. QED
      BY <1>1, <1>3, <2>2, <3>1, <3>2, <3>3 DEF A!Postflight
  <2>7. QED
    BY <2>5, <2>6, ExecutionIs
<1>4. QED
  BY <1>2, <1>3

LEMMA FilesHold ==
  ASSUME NEW a, A!IsExecution(a)
  PROVE  LET dir == A!RunOf(a)
         IN A!StreamsBound(dir) /\ A!ArtifactsBound(dir) /\ A!ImportsBound(dir)
PROOF
<1> DEFINE dir == A!RunOf(a)
           r == dir.receipt
<1>1. /\ r.interaction = [digest |-> A!Argv, argc |-> 1] /\ r.stdout = a.out /\ r.stderr = A!Content("stderr.log")
      /\ r.sealed = A!SealedValues(a) /\ r.generated = A!Generated(a) /\ r.imports = A!Imported(a)
  BY ReceiptIs
<1>2. A!StreamsBound(dir)
  <2>1. /\ A!CompareFile(dir, "stdout.log", a.out) /\ A!CompareFile(dir, "stderr.log", A!Content("stderr.log"))
        /\ A!CompareFile(dir, "interaction.json", A!Argv)
    <3>1. {"stdout.log", "stderr.log", "interaction.json"} \subseteq A!FileNames(a)
      BY DEF A!FileNames
    <3>2. QED
      BY <3>1, WrittenIs, Held, ExecutionIs, ContentPresent, RecordsPresent
  <2>2. A!At(dir, "interaction.json") = A!Argv /\ A!Field(A!Argv, "argv") = 1
    BY FilesAre, WrittenIs DEF A!FileNames, A!Field, A!Argv
  <2>3. QED
    BY <1>1, <2>1, <2>2 DEF A!StreamsBound
<1>3. A!ArtifactsBound(dir)
  <2>1. ASSUME A!Evaluates(a)
        PROVE  A!CompareFile(dir, "outputs/t", a.out) /\ A!CompareFile(dir, "x.json", a.out)
    <3>1. {"outputs/t", "x.json"} \subseteq A!FileNames(a)
      BY <2>1 DEF A!FileNames
    <3>2. QED
      BY <3>1, WrittenIs, Held, ExecutionIs
  <2>2. ASSUME NEW d \in A!ToSet(r.sealed) PROVE A!CompareFile(dir, d.path, d.digest)
    <3>1. A!Evaluates(a) /\ d = [name |-> "x", path |-> "x.json", digest |-> a.out]
      BY <1>1, <2>2 DEF A!SealedValues, A!ToSet
    <3>2. QED
      BY <2>1, <3>1
  <2>3. ASSUME NEW d \in A!ToSet(r.generated) PROVE d.path \in dir.outputs /\ A!CompareFile(dir, d.path, d.digest)
    <3>1. A!Evaluates(a) /\ d = [name |-> "t", path |-> "outputs/t", digest |-> a.out]
      BY <1>1, <2>3 DEF A!Generated, A!ToSet
    <3>2. dir.outputs = {"outputs/t"}
      BY FilesAre
    <3>3. QED
      BY <2>1, <3>1, <3>2
  <2>4. QED
    BY <2>2, <2>3 DEF A!ArtifactsBound
<1>4. A!ImportsBound(dir)
  <2>1. A!CompareFile(dir, "data-evidence/0", a.data) /\ A!Some(a.data)
    <3>1. "data-evidence/0" \in A!FileNames(a)
      BY DEF A!FileNames
    <3>2. QED
      BY <3>1, WrittenIs, Held, ExecutionIs
  <2>2. ASSUME NEW d \in A!ToSet(r.imports) PROVE A!Some(d.read) /\ d.read = d.kept /\ A!CompareFile(dir, d.path, d.kept)
    <3>1. d = [read |-> a.data, kept |-> a.data, path |-> "data-evidence/0"]
      BY <1>1, <2>2 DEF A!Imported, A!ToSet
    <3>2. QED
      BY <2>1, <3>1
  <2>3. QED
    BY <2>2 DEF A!ImportsBound
<1>5. QED
  BY <1>2, <1>3, <1>4

LEMMA NamedHolds ==
  ASSUME NEW a, A!IsExecution(a)
  PROVE  A!NamedBound(A!RunOf(a))
PROOF
<1>1. A!RunOf(a).receipt.named = A!FilesNamed(a)
  BY ReceiptIs
<1>2. SUFFICES ASSUME NEW n \in A!Named, A!Some(A!FilesNamed(a)[n])
               PROVE  A!CompareFile(A!RunOf(a), A!FileOf(n), A!FilesNamed(a)[n])
  BY <1>1 DEF A!NamedBound
<1>3. n \in {"ledger", "head"} \/ (A!Native(a) /\ n # "freeze")
  BY <1>2, NamedIs DEF A!Named, A!Some
<1>4. A!FilesNamed(a)[n] = A!Written(a, A!FileOf(n))
  BY <1>3 DEF A!FilesNamed
<1>5. A!FileOf(n) \in A!FileNames(a)
  BY <1>3, NamesAre DEF A!Named, A!FileNames, A!OfNative
<1>6. QED
  BY <1>2, <1>4, <1>5, Held

(* The manifest of the native program.                                     *)
LEMMA ManifestIs ==
  ASSUME NEW a
  PROVE  LET m == A!Manifest(a)
         IN /\ "imports" \in DOMAIN m /\ m.imports = A!Forgotten(A!Imported(a)) /\ m.outputs = A!Outputs(A!Generated(a))
            /\ m.resources = A!Used(a.text) /\ m.policies = A!Current /\ m.evidence = A!Evidence
BY DEF A!Manifest

LEMMA OutputsAre ==
  ASSUME NEW a, A!Evaluates(a)
  PROVE  A!Outputs(A!Generated(a)) = <<[name |-> "t", digest |-> a.out]>>
BY DEF A!Outputs, A!Generated

LEMMA ParityHolds ==
  ASSUME NEW a, A!IsExecution(a)
  PROVE  A!NativeParity(A!RunOf(a))
PROOF
<1> DEFINE dir == A!RunOf(a)
           r == dir.receipt
           m == A!At(dir, "native-data.json")
<1>1. /\ r.named = A!FilesNamed(a) /\ r.resources = A!Used(a.text) /\ r.policies = A!Current /\ r.evidence = A!Evidence
      /\ r.imports = A!Imported(a) /\ r.generated = A!Generated(a)
  BY ReceiptIs
<1>2. CASE ~A!Native(a)
  BY <1>1, <1>2, NamedIs DEF A!NativeParity, A!Some
<1>3. CASE A!Native(a)
  <2>1. {"native-results.tsv", "native-data.json", "native-outputs/t"} \subseteq A!FileNames(a)
    BY <1>3 DEF A!FileNames, A!OfNative
  <2>2. A!At(dir, "native-results.tsv") = A!Results(a) /\ m = A!Manifest(a) /\ A!CompareFile(dir, "native-outputs/t", a.out)
    <3>1. A!At(dir, "native-results.tsv") = A!Results(a) /\ m = A!Manifest(a)
      BY <2>1, FilesAre, WrittenIs
    <3>2. A!CompareFile(dir, "native-outputs/t", a.out)
      BY <2>1, WrittenIs, Held, ExecutionIs
    <3>3. QED
      BY <3>1, <3>2
  <2>3. A!Field(A!Results(a), "resources") = A!Used(a.text)
    BY DEF A!Field, A!Results
  <2>4. A!Evaluates(a)
    BY <1>3 DEF A!Native
  <2>5. \A i \in DOMAIN m.outputs : A!CompareFile(dir, A!InNative[m.outputs[i].name], m.outputs[i].digest)
    <3>1. m.outputs = <<[name |-> "t", digest |-> a.out]>>
      BY <2>2, <2>4, ManifestIs, OutputsAre
    <3>2. A!InNative["t"] = "native-outputs/t"
      BY DEF A!InNative
    <3>3. QED
      BY <2>2, <3>1, <3>2
  <2>6. /\ "imports" \in DOMAIN m /\ m.policies = r.policies /\ m.evidence = r.evidence /\ m.resources = r.resources
        /\ m.imports = A!Forgotten(r.imports) /\ m.outputs = A!Outputs(r.generated)
    BY <1>1, <2>2, ManifestIs
  <2>7. A!Field(A!At(dir, "native-results.tsv"), "resources") = r.resources
    BY <1>1, <2>2, <2>3
  <2>8. \A p \in Policies : A!PolicyPresent(r, p) => m.policies[p] = r.policies[p] /\ m.evidence[p] = r.evidence[p]
    BY <2>6
  <2> HIDE DEF dir, r, m
  <2>9. A!NativeParity(dir)
    BY <2>5, <2>6, <2>7, <2>8 DEF A!NativeParity, r, m
  <2>10. QED
    BY <2>9 DEF dir
<1>4. QED
  BY <1>2, <1>3

LEMMA RunsVerify ==
  ASSUME NEW a, A!IsExecution(a)
  PROVE  A!Verified(A!RunOf(a))
PROOF
<1>1. A!RunOf(a).receipt.schema = "v2"
  BY ReceiptIs
<1>2. QED
  BY <1>1, CoreIs, FinalStateHolds, PoliciesHold, SourceHolds, PostflightHolds, FilesHold, NamedHolds, ParityHolds DEF A!Verified

-----------------------------------------------------------------------------
(* What a directory must hold that verifies with the receipt of a run: all *)
(* its files, as they were written.                                        *)
LEMMA ComparedIs ==
  ASSUME NEW dir, NEW f, NEW d, A!CompareFile(dir, f, d)
  PROVE  A!At(dir, f) = d /\ A!Some(d)
BY DEF A!CompareFile

LEMMA PlainFilesKept ==
  ASSUME NEW a, A!IsExecution(a), NEW dir, dir.receipt = A!RunOf(a).receipt, A!Verified(dir)
  PROVE  \A f \in {"source", "stdout.log", "stderr.log", "interaction.json", "data-evidence/0"} : A!At(dir, f) = A!Written(a, f)
PROOF
<1> DEFINE r == dir.receipt
<1>1. /\ r.source = a.text /\ r.interaction = [digest |-> A!Argv, argc |-> 1] /\ r.stdout = a.out
      /\ r.stderr = A!Content("stderr.log") /\ r.imports = A!Imported(a)
  BY ReceiptIs
<1>2. A!At(dir, "source") = a.text
  BY <1>1, ComparedIs DEF A!Verified, A!SourceBound
<1>3. A!At(dir, "stdout.log") = a.out /\ A!At(dir, "stderr.log") = A!Content("stderr.log")
  BY <1>1, ComparedIs DEF A!Verified, A!StreamsBound
<1>4. A!At(dir, "interaction.json") = A!Argv
  <2>1. A!Some(r.interaction) /\ r.interaction.digest = A!Argv
    BY <1>1 DEF A!Some, A!Null
  <2>2. QED
    BY <2>1, ComparedIs DEF A!Verified, A!StreamsBound
<1>5. A!At(dir, "data-evidence/0") = a.data
  <2> DEFINE d == [read |-> a.data, kept |-> a.data, path |-> "data-evidence/0"]
  <2>1. d \in A!ToSet(r.imports)
    BY <1>1 DEF A!Imported, A!ToSet
  <2>2. A!CompareFile(dir, d.path, d.kept)
    BY <2>1 DEF A!Verified, A!ImportsBound
  <2>3. QED
    BY <2>2, ComparedIs
<1>6. QED
  BY <1>2, <1>3, <1>4, <1>5, WrittenIs

LEMMA ResultsKept ==
  ASSUME NEW a, A!IsExecution(a), NEW dir, dir.receipt = A!RunOf(a).receipt, A!Verified(dir), A!Evaluates(a)
  PROVE  \A f \in {"outputs/t", "x.json"} : A!At(dir, f) = A!Written(a, f)
PROOF
<1> DEFINE r == dir.receipt
           x == [name |-> "x", path |-> "x.json", digest |-> a.out]
           t == [name |-> "t", path |-> "outputs/t", digest |-> a.out]
<1>1. r.sealed = <<x>> /\ r.generated = <<t>>
  BY ReceiptIs DEF A!SealedValues, A!Generated
<1>2. x \in A!ToSet(r.sealed) /\ t \in A!ToSet(r.generated)
  BY <1>1 DEF A!ToSet
<1>3. A!CompareFile(dir, x.path, x.digest) /\ A!CompareFile(dir, t.path, t.digest)
  BY <1>2 DEF A!Verified, A!ArtifactsBound
<1>4. QED
  BY <1>3, ComparedIs, WrittenIs

LEMMA NamedKept ==
  ASSUME NEW a, A!IsExecution(a), NEW dir, dir.receipt = A!RunOf(a).receipt, A!Verified(dir),
         NEW n \in A!Named, n \in {"ledger", "head"} \/ (A!Native(a) /\ n # "freeze")
  PROVE  A!At(dir, A!FileOf(n)) = A!Written(a, A!FileOf(n))
PROOF
<1>1. dir.receipt.named[n] = A!Written(a, A!FileOf(n))
  <2>1. dir.receipt.named = A!FilesNamed(a)
    BY ReceiptIs
  <2>2. QED
    BY <2>1 DEF A!FilesNamed
<1>2. A!Some(dir.receipt.named[n])
  <2>1. A!Some(A!Written(a, A!FileOf(n)))
    BY NamesAre, WrittenIs, RecordsPresent, ContentPresent DEF A!Named
  <2>2. QED
    BY <1>1, <2>1
<1>3. QED
  BY <1>1, <1>2, ComparedIs DEF A!Verified, A!NamedBound

LEMMA NativeKept ==
  ASSUME NEW a, A!IsExecution(a), NEW dir, dir.receipt = A!RunOf(a).receipt, A!Verified(dir), A!Native(a)
  PROVE  \A f \in A!OfNative : A!At(dir, f) = A!Written(a, f)
PROOF
<1>1. \A f \in {"program-native", "program-native.rs", "native-results.tsv", "native-data.json"} : A!At(dir, f) = A!Written(a, f)
  BY NamedKept, NamesAre DEF A!Named
<1>2. A!At(dir, "clock-replay.json") = A!Written(a, "clock-replay.json")
  <2>1. dir.receipt.replay = A!Readings /\ A!Some(A!Readings)
    BY ReceiptIs, RecordsPresent
  <2>2. A!CompareFile(dir, "clock-replay.json", A!Readings)
    BY <2>1 DEF A!Verified, A!ClockReplay
  <2>3. QED
    BY <2>2, ComparedIs, WrittenIs
<1>3. A!At(dir, "native-outputs/t") = A!Written(a, "native-outputs/t")
  <2> DEFINE m == A!At(dir, "native-data.json")
  <2>1. m = A!Manifest(a) /\ A!Evaluates(a)
    BY <1>1, WrittenIs DEF A!Native
  <2>2. m.outputs = <<[name |-> "t", digest |-> a.out]>>
    BY <2>1, ManifestIs, OutputsAre
  <2>3. A!Some(dir.receipt.named["data"])
    BY ReceiptIs, NamedIs, RecordsPresent
  <2>4. \A i \in DOMAIN m.outputs : A!CompareFile(dir, A!InNative[m.outputs[i].name], m.outputs[i].digest)
    BY <2>3 DEF A!Verified, A!NativeParity
  <2>5. A!CompareFile(dir, A!InNative["t"], a.out)
    BY <2>2, <2>4
  <2>6. QED
    BY <2>5, ComparedIs, WrittenIs DEF A!InNative
<1>4. QED
  BY <1>1, <1>2, <1>3 DEF A!OfNative

LEMMA StateKept ==
  ASSUME NEW a, A!IsExecution(a), NEW dir, dir.receipt = A!RunOf(a).receipt, A!Verified(dir), A!IsMad(a)
  PROVE  A!At(dir, "final-state.json") = A!Written(a, "final-state.json")
PROOF
<1>1. A!At(dir, "source") = a.text
  BY PlainFilesKept, WrittenIs
<1>2. dir.receipt.final.capture = "CAPTURED" /\ dir.receipt.final.digest = A!StateFile(a)
  <2>1. dir.receipt.final = A!Final(a)
    BY ReceiptIs
  <2>2. QED
    BY <2>1 DEF A!Final, A!IsMad
<1>3. A!Parses(A!At(dir, "source")) /\ A!At(dir, "source").profile = "COMPLETELY_MAD"
  BY <1>1 DEF A!IsMad
<1>4. A!CompareFile(dir, "final-state.json", A!StateFile(a))
  BY <1>2, <1>3 DEF A!Verified, A!FinalState
<1>5. QED
  BY <1>4, ComparedIs, WrittenIs

LEMMA ObservedKept ==
  ASSUME NEW a, A!IsExecution(a), NEW dir, dir.receipt = A!RunOf(a).receipt, A!Verified(dir),
         A!Watched(a), A!Some(A!Observed(a))
  PROVE  A!At(dir, "postflight/source.observed") = A!Written(a, "postflight/source.observed")
PROOF
<1>1. a.kept /\ a.end # A!Null
  BY ExecutionIs DEF A!Observed, A!Some
<1>2. dir.receipt.paranoid /\ dir.receipt.postflight = A!ObservedAtEnd(a)
  BY ReceiptIs
<1>3. /\ dir.receipt.postflight.status \notin {"SOURCE_UNAVAILABLE", "EVIDENCE_UNAVAILABLE"}
      /\ dir.receipt.postflight.observed = a.end
  BY <1>1, <1>2 DEF A!ObservedAtEnd, A!Observed
<1>4. A!CompareFile(dir, "postflight/source.observed", a.end)
  BY <1>2, <1>3 DEF A!Verified, A!Postflight
<1>5. QED
  BY <1>4, ComparedIs, WrittenIs

LEMMA FilesKept ==
  ASSUME NEW a, A!IsExecution(a), NEW dir, dir.receipt = A!RunOf(a).receipt, A!Verified(dir), NEW f \in A!FileNames(a)
  PROVE  A!At(dir, f) = A!RunOf(a).files[f] /\ A!Some(A!At(dir, f))
PROOF
<1>1. A!At(dir, f) = A!Written(a, f)
  <2>1. \A g \in {"ledger.jsonl", "ledger.head"} : A!At(dir, g) = A!Written(a, g)
    BY NamedKept, NamesAre DEF A!Named
  <2>2. QED
    BY <2>1, PlainFilesKept, ResultsKept, NativeKept, StateKept, ObservedKept DEF A!FileNames
<1>2. A!Some(A!Written(a, f))
  <2>1. f = "postflight/source.observed" => A!Some(a.end)
    BY DEF A!FileNames, A!OfNative, A!Observed, A!Some
  <2>2. \A g \in {"source", "stdout.log", "data-evidence/0", "outputs/t", "x.json", "native-outputs/t"} : A!Some(A!Written(a, g))
    BY WrittenIs, ExecutionIs
  <2>3. \A g \in {"interaction.json", "final-state.json", "native-results.tsv", "native-data.json", "clock-replay.json",
                  "program-native", "program-native.rs"} : A!Some(A!Written(a, g))
    BY WrittenIs, RecordsPresent
  <2>4. \A g \in {"stderr.log", "ledger.jsonl", "ledger.head"} : A!Some(A!Written(a, g))
    BY WrittenIs, ContentPresent
  <2>5. f = "postflight/source.observed" => A!Some(A!Written(a, f))
    BY <2>1, WrittenIs
  <2>6. QED
    BY <2>2, <2>3, <2>4, <2>5 DEF A!FileNames, A!OfNative
<1>3. QED
  BY <1>1, <1>2, FilesAre

-----------------------------------------------------------------------------
(* What is lost, changed or edited is found.                               *)
LEMMA LossFound ==
  ASSUME NEW a, A!IsExecution(a), NEW f \in A!FileNames(a)
  PROVE  ~A!Verified(A!Without(A!RunOf(a), f))
PROOF
<1> DEFINE dir == A!RunOf(a)
           lost == A!Without(dir, f)
<1>1. lost.receipt = dir.receipt /\ DOMAIN lost.files = DOMAIN dir.files \ {f}
  BY DEF A!Without, A!RunOf
<1>2. A!At(lost, f) = A!Null
  BY <1>1 DEF A!At
<1> HIDE DEF lost
<1>3. A!Verified(lost) => A!Some(A!At(lost, f))
  BY <1>1, FilesKept
<1>4. QED
  BY <1>2, <1>3 DEF A!Some, lost

LEMMA ChangeFound ==
  ASSUME NEW a, A!IsExecution(a), NEW f \in A!FileNames(a), NEW content, A!RunOf(a).files[f] # content
  PROVE  ~A!Verified(A!With(A!RunOf(a), f, content))
PROOF
<1> DEFINE dir == A!RunOf(a)
           other == A!With(dir, f, content)
<1>1. other.receipt = dir.receipt /\ other.files = [g \in DOMAIN dir.files |-> IF g = f THEN content ELSE dir.files[g]]
  BY DEF A!With, A!RunOf
<1>2. f \in DOMAIN dir.files
  BY FilesAre
<1>3. A!At(other, f) = content
  BY <1>1, <1>2 DEF A!At
<1> HIDE DEF other
<1>4. A!Verified(other) => A!At(other, f) = dir.files[f]
  BY <1>1, FilesKept
<1>5. QED
  BY <1>3, <1>4 DEF other

LEMMA EditFound ==
  ASSUME NEW a, NEW field \in ReceiptFields \ {"core"}, NEW value, A!RunOf(a).receipt[field] # value
  PROVE  ~A!Verified(A!Changed(A!RunOf(a), field, value))
PROOF
<1> DEFINE r == A!RunOf(a).receipt
           s == A!Changed(A!RunOf(a), field, value).receipt
<1>1. DOMAIN r = ReceiptFields /\ r.core = [of |-> A!Sealed(r)]
  BY CoreIs DEF A!CoreBound
<1>2. s = [g \in DOMAIN r |-> IF g = field THEN value ELSE r[g]]
  BY DEF A!Changed, A!RunOf
<1> HIDE DEF r, s
<1>3. "core" \in ReceiptFields /\ field # "core"
  BY DEF ReceiptFields
<1>4. s.core = [of |-> A!Sealed(r)]
  BY <1>1, <1>2, <1>3
<1>5. A!Sealed(r)[field] = r[field] /\ A!Sealed(s)[field] = value
  BY <1>1, <1>2, <1>3 DEF A!Sealed
<1>6. A!Sealed(r) # A!Sealed(s)
  BY <1>5 DEF r
<1>7. [of |-> A!Sealed(r)] # [of |-> A!Sealed(s)]
  BY <1>6
<1>8. ~A!CoreBound(s)
  BY <1>4, <1>7 DEF A!CoreBound
<1>9. QED
  BY <1>8 DEF A!Verified, s

LEMMA DamageIsFound ==
  ASSUME NEW a, A!IsExecution(a), NEW others
  PROVE  A!DamageFound(A!RunOf(a), others)
PROOF
<1>1. A!Verified(A!RunOf(a))
  BY RunsVerify
<1>2. DOMAIN A!RunOf(a).files = A!FileNames(a) /\ DOMAIN A!RunOf(a).receipt = ReceiptFields
  BY FilesAre, CoreIs
<1>3. QED
  BY <1>1, <1>2, LossFound, ChangeFound, EditFound DEF A!DamageFound

-----------------------------------------------------------------------------
(* What any directory that verifies says of its own source, whoever sealed *)
(* its receipt.                                                            *)
LEMMA VerifiedIsBound ==
  ASSUME NEW dir, A!Verified(dir)
  PROVE  LET there == A!At(dir, "source")
             r == dir.receipt
         IN /\ r.source = there
            /\ A!Some(r.canonical) => A!Content(there.program) = r.canonical
            /\ A!Parses(there) => r.profile = there.profile /\ r.resources.requested = there.budget
                                 /\ r.paranoid = A!IsParanoid(there.profile)
PROOF
<1>1. A!At(dir, "source") = dir.receipt.source
  BY ComparedIs DEF A!Verified, A!SourceBound
<1>2. A!Some(dir.receipt.canonical) => A!Content(A!At(dir, "source").program) = dir.receipt.canonical
  BY DEF A!Verified, A!SourceBound
<1>3. A!Parses(A!At(dir, "source")) => /\ dir.receipt.profile = A!At(dir, "source").profile
                                       /\ dir.receipt.paranoid = A!IsParanoid(A!At(dir, "source").profile)
  BY DEF A!Verified, A!ProfileBound
<1>4. A!Parses(A!At(dir, "source")) => dir.receipt.resources.requested = A!At(dir, "source").budget
  BY DEF A!Verified, A!ResourceEvidence
<1>5. QED
  BY <1>1, <1>2, <1>3, <1>4

LEMMA PassIsUnchanged ==
  ASSUME NEW dir, A!Verified(dir), dir.receipt.status = "PASS", dir.receipt.paranoid
  PROVE  A!At(dir, "postflight/source.observed") = dir.receipt.source
PROOF
<1> DEFINE p == dir.receipt.postflight
<1>1. A!Postflight(dir)
  BY DEF A!Verified
<1>2. p.status \notin {"SOURCE_UNAVAILABLE", "EVIDENCE_UNAVAILABLE"} /\ p.start = dir.receipt.source
  BY <1>1 DEF A!Postflight
<1>3. A!CompareFile(dir, "postflight/source.observed", p.observed) /\ p.end = p.observed /\ A!Verdict(dir.receipt, p)
  BY <1>1, <1>2 DEF A!Postflight
<1>4. p.end = p.start
  BY <1>3 DEF A!Verdict
<1>5. QED
  BY <1>2, <1>3, <1>4, ComparedIs

LEMMA ForgeriesRefused ==
  ASSUME NEW a, NEW others
  PROVE  A!ForgedVerdictRefused(A!RunOf(a), others)
PROOF
<1> DEFINE dir == A!RunOf(a)
<1>1. SUFFICES ASSUME NEW o \in others, NEW f, NEW g,
                      A!Verified(A!Resealed(A!Changed(A!Changed(dir, f, o.receipt[f]), g, o.receipt[g])))
               PROVE  LET forged == A!Resealed(A!Changed(A!Changed(dir, f, o.receipt[f]), g, o.receipt[g]))
                          there == dir.files["source"]
                      IN /\ forged.receipt.canonical \in {A!Null, A!Content(there.program)}
                         /\ A!Parses(there) => /\ forged.receipt.profile = there.profile
                                                /\ forged.receipt.resources.requested = there.budget
                         /\ A!Parses(there) /\ A!IsParanoid(there.profile) /\ forged.receipt.status = "PASS" =>
                              A!At(dir, "postflight/source.observed") = there
  BY DEF A!ForgedVerdictRefused
<1> DEFINE forged == A!Resealed(A!Changed(A!Changed(dir, f, o.receipt[f]), g, o.receipt[g]))
<1>2. forged.files = dir.files
  BY DEF A!Resealed, A!Changed, A!RunOf
<1>3. "source" \in DOMAIN dir.files
  BY FilesAre DEF A!FileNames
<1>4. \A x : A!At(forged, x) = A!At(dir, x)
  BY <1>2 DEF A!At
<1>5. A!At(forged, "source") = dir.files["source"]
  BY <1>3, <1>4 DEF A!At
<1> HIDE DEF forged, dir
<1>6. A!Verified(forged)
  BY <1>1 DEF forged
<1>7. forged.receipt.canonical \in {A!Null, A!Content(dir.files["source"].program)}
  BY <1>5, <1>6, VerifiedIsBound DEF A!Some
<1>8. A!Parses(dir.files["source"]) => /\ forged.receipt.profile = dir.files["source"].profile
                                       /\ forged.receipt.resources.requested = dir.files["source"].budget
                                       /\ forged.receipt.paranoid = A!IsParanoid(dir.files["source"].profile)
  BY <1>5, <1>6, VerifiedIsBound
<1>9. ASSUME A!Parses(dir.files["source"]), A!IsParanoid(dir.files["source"].profile), forged.receipt.status = "PASS"
      PROVE  A!At(dir, "postflight/source.observed") = dir.files["source"]
  BY <1>4, <1>5, <1>6, <1>8, <1>9, VerifiedIsBound, PassIsUnchanged
<1>10. QED
  BY <1>7, <1>8, <1>9 DEF forged

-----------------------------------------------------------------------------
(* The comparison of two runs.                                             *)
LEMMA NamesEqual ==
  ASSUME NEW x, NEW y, NEW n, NEW p, NEW d \in {<< >>, <<[name |-> n, path |-> p, digest |-> x]>>},
         NEW e \in {<< >>, <<[name |-> n, path |-> p, digest |-> y]>>}, A!Names(d) = A!Names(e)
  PROVE  d = e
PROOF
<1>1. Len(A!Names(d)) = Len(d) /\ Len(A!Names(e)) = Len(e)
  BY DEF A!Names
<1>2. CASE d = << >>
  BY <1>1, <1>2
<1>3. CASE d = <<[name |-> n, path |-> p, digest |-> x]>> /\ e = <<[name |-> n, path |-> p, digest |-> y]>>
  <2>1. A!Names(d)[1].digest = x /\ A!Names(e)[1].digest = y
    BY <1>3 DEF A!Names
  <2>2. QED
    BY <1>3, <2>1
<1>4. QED
  BY <1>1, <1>2, <1>3

LEMMA ReadsEqual ==
  ASSUME NEW a, NEW b, A!Reads(A!Imported(a)) = A!Reads(A!Imported(b))
  PROVE  A!Imported(a) = A!Imported(b)
PROOF
<1>1. A!Reads(A!Imported(a))[1] = a.data /\ A!Reads(A!Imported(b))[1] = b.data
  BY DEF A!Reads, A!Imported
<1>2. QED
  BY <1>1 DEF A!Imported

(* Runs of one source that ended the same and showed the same have the     *)
(* same state.                                                             *)
LEMMA StatesEqual ==
  ASSUME NEW a, A!IsExecution(a), NEW b, A!IsExecution(b), a.text = b.text, a.out = b.out, A!Succeeds(a) <=> A!Succeeds(b)
  PROVE  A!State(A!RunOf(a).receipt) = A!State(A!RunOf(b).receipt)
PROOF
<1>1. A!RunOf(a).receipt.final = A!Final(a) /\ A!RunOf(b).receipt.final = A!Final(b)
  BY ReceiptIs
<1>2. (A!IsMad(a) <=> A!IsMad(b)) /\ (A!Parses(a.text) <=> A!Parses(b.text)) /\ A!StateFile(a) = A!StateFile(b)
  BY DEF A!IsMad, A!StateFile
<1>3. CASE ~A!IsMad(a)
  BY <1>1, <1>2, <1>3 DEF A!Final, A!State
<1>4. CASE A!IsMad(a)
  <2>1. A!Final(a).capture = "CAPTURED" /\ A!Final(b).capture = "CAPTURED"
        /\ A!Final(a).complete = A!Final(b).complete /\ A!Final(a).digest = A!Final(b).digest
    BY <1>2, <1>4 DEF A!Final, A!IsMad, A!Succeeds, A!Evaluates
  <2>2. A!Final(a) \notin {A!Null, [capture |-> "NOT_REQUESTED"]} /\ A!Final(b) \notin {A!Null, [capture |-> "NOT_REQUESTED"]}
    <3>1. \A c \in {a, b} : DOMAIN A!Final(c) = {"capture", "complete", "digest", "origin", "parity"}
      BY <1>2, <1>4 DEF A!Final, A!IsMad
    <3>2. QED
      BY <3>1 DEF A!Null
  <2>3. QED
    BY <1>1, <2>1, <2>2 DEF A!State
<1>5. QED
  BY <1>3, <1>4

LEMMA EqualRunsIdentical ==
  ASSUME NEW a, A!IsExecution(a), NEW b, A!IsExecution(b),
         a.text = b.text, a.out = b.out, A!Succeeds(a) <=> A!Succeeds(b), A!Imported(a) = A!Imported(b),
         A!SealedValues(a) = A!SealedValues(b), A!Generated(a) = A!Generated(b)
  PROVE  A!Classify(A!RunOf(a).receipt, A!RunOf(b).receipt, FALSE) = "IDENTICAL_RESULT"
PROOF
<1> DEFINE l == A!RunOf(a).receipt
           r == A!RunOf(b).receipt
<1>1. /\ l.policies = r.policies /\ l.canonical = r.canonical /\ l.evidence = r.evidence /\ l.resources = r.resources
      /\ l.generated = r.generated /\ l.sealed = r.sealed /\ l.imports = r.imports /\ l.interaction = r.interaction
      /\ l.stdout = r.stdout /\ l.status = r.status /\ l.source = r.source /\ l.modules = r.modules
  BY ReceiptIs
<1>2. A!State(l) = A!State(r)
  BY StatesEqual
<1> HIDE DEF l, r
<1>3. A!Equivalent(l, r) /\ A!SameSource(l, r)
  BY <1>1, <1>2 DEF A!Equivalent, A!SameSealed, A!SameSource
<1>4. A!Classify(l, r, FALSE) = "IDENTICAL_RESULT"
  BY <1>1, <1>3 DEF A!Classify
<1>5. QED
  BY <1>4 DEF l, r

LEMMA ClassesAreSame ==
  ASSUME NEW a, A!IsExecution(a), NEW b, A!IsExecution(b)
  PROVE  A!ClassesMeanSame(A!RunOf(a), A!RunOf(b))
PROOF
<1> DEFINE l == A!RunOf(a).receipt
           r == A!RunOf(b).receipt
           class == A!Diff(A!RunOf(a), A!RunOf(b), FALSE)
<1>1. class = A!Classify(l, r, FALSE)
  BY RunsVerify DEF A!Diff
<1>2. /\ l.source = a.text /\ r.source = b.text /\ l.stdout = a.out /\ r.stdout = b.out
      /\ l.status = (IF A!Succeeds(a) THEN "PASS" ELSE "FAIL") /\ r.status = (IF A!Succeeds(b) THEN "PASS" ELSE "FAIL")
      /\ l.imports = A!Imported(a) /\ r.imports = A!Imported(b) /\ l.modules = r.modules
      /\ l.sealed = A!SealedValues(a) /\ r.sealed = A!SealedValues(b)
      /\ l.generated = A!Generated(a) /\ r.generated = A!Generated(b)
  BY ReceiptIs
<1>3. ASSUME l.source = r.source, l.status = r.status, l.stdout = r.stdout, l.imports = r.imports,
             l.sealed = r.sealed, l.generated = r.generated
      PROVE  class = "IDENTICAL_RESULT"
  <2>1. A!Succeeds(a) <=> A!Succeeds(b)
    BY <1>2, <1>3
  <2>2. QED
    BY <1>1, <1>2, <1>3, <2>1, EqualRunsIdentical
<1>4. ASSUME class \in {"IDENTICAL_RESULT", "NOTATION_ONLY_CHANGE"}
      PROVE  /\ l.canonical = r.canonical /\ l.sealed = r.sealed /\ l.stdout = r.stdout /\ l.imports = r.imports
             /\ class = "NOTATION_ONLY_CHANGE" => l.source # r.source
  <2> HIDE DEF l, r, class
  <2>1. A!Equivalent(l, r) /\ (class = "NOTATION_ONLY_CHANGE" => ~A!SameSource(l, r))
    BY <1>1, <1>4 DEF A!Classify
  <2>2. /\ l.canonical = r.canonical /\ A!Names(l.sealed) = A!Names(r.sealed) /\ l.stdout = r.stdout
        /\ A!Reads(l.imports) = A!Reads(r.imports)
    BY <2>1 DEF A!Equivalent, A!SameSealed
  <2>3. l.imports = r.imports
    BY <1>2, <2>2, ReadsEqual
  <2>4. l.sealed = r.sealed
    <3>1. /\ l.sealed \in {<< >>, <<[name |-> "x", path |-> "x.json", digest |-> a.out]>>}
          /\ r.sealed \in {<< >>, <<[name |-> "x", path |-> "x.json", digest |-> b.out]>>}
      BY <1>2 DEF A!SealedValues
    <3>2. QED
      BY <2>2, <3>1, NamesEqual
  <2>5. class = "NOTATION_ONLY_CHANGE" => l.source # r.source
    BY <1>2, <2>1 DEF A!SameSource
  <2>6. QED
    BY <2>2, <2>3, <2>4, <2>5
<1>5. QED
  BY <1>3, <1>4 DEF A!ClassesMeanSame

-----------------------------------------------------------------------------
(* Only runs that were given are audited.                                  *)
AuditsOf == (what = "audit" => left \in Executed /\ right \in Compared) /\ (audited => what = "audit")
LEMMA AuditsAreOf == MCSpec => []AuditsOf
PROOF
<1>1. MCInit => AuditsOf
  BY DEF MCInit, AuditsOf
<1>2. AuditsOf /\ [MCNext]_all => AuditsOf'
  BY DEF MCNext, Audit, all, pair, AuditsOf
<1>3. QED
  BY <1>1, <1>2, PTL DEF MCSpec

(* For any texts, contents and policies: a run verifies as run_file wrote  *)
(* it and no longer with a file lost or changed or a field of the receipt  *)
(* edited; and whoever seals a receipt put together from two runs gets it  *)
(* accepted only as the program, profile and budget of the source that is  *)
(* there, and a PASS only of a source that read the same (verify_run).     *)
THEOREM VerdictsAreTrue == MCSpec => Verdicts
PROOF
<1>1. AuditsOf /\ [MCNext]_all =>
        [what = "audit" => /\ A!DamageFound(A!RunOf(left), {A!RunOf(right)})
                          /\ A!ForgedVerdictRefused(A!RunOf(left), {A!RunOf(right)})]_all
  BY ReceiptConstants, DamageIsFound, ForgeriesRefused DEF AuditsOf
<1>2. QED
  BY <1>1, AuditsAreOf, PTL DEF MCSpec, Verdicts

(* Whatever two runs were given, diff_runs calls them identical if they    *)
(* have the same source, inputs, status and results, whichever engine ran  *)
(* them, and never gives a class that says the same to others.             *)
THEOREM ClassesAreTrue == MCSpec => []Classes
PROOF
<1>1. AuditsOf => Classes
  BY ReceiptConstants, ClassesAreSame DEF AuditsOf, Classes
<1>2. QED
  BY <1>1, AuditsAreOf, PTL
=============================================================================
