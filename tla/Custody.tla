------------------------------- MODULE Custody -------------------------------
(***************************************************************************)
(* Freezing and revising sources (src/src/custody.rs) against the custody  *)
(* ledger, and the gate that run_file puts before evaluation               *)
(* (enforce_freeze in src/src/runtime.rs).  Several processes freeze and   *)
(* revise while the user edits sources and deletes receipts; a process may *)
(* fail or die between any two of its file-system steps.                   *)
(*                                                                         *)
(* The ledger is taken at the level of EventChain, which CustodyLedger     *)
(* implements: append() adds one event and returns Ok, or returns Err and  *)
(* has added its event or not; once an event or a piece of one is there    *)
(* without its checkpoint the ledger is damaged, never verifies again and  *)
(* never grows again (CustodyLedger!DamageIsFinal).  An audit may also     *)
(* fail because another process is appending: audit() takes no lock.       *)
(***************************************************************************)
EXTENDS Naturals, Sequences

CONSTANTS
  Procs,          \* processes running freeze or revise
  Sources,        \* source paths of one project
  Contents,       \* what a source can contain, up to its digest
  None,
  InitialContent, \* content of every source that exists at the start
  InitialSources, \* the sources that exist at the start
  MaxEdits,       \* bound on edits by the user
  MaxDeletes,     \* bound on receipts deleted by the user
  MaxFaults       \* bound on failed or interrupted writes

(* The files beside a source, and what a process is doing, by its steps.   *)
LineageFiles == [parent : Sources, content : Contents, core : Nat, file : Nat, whole : BOOLEAN]
ReceiptFiles == [id : Nat, content : Contents \union {None}, lineage : LineageFiles \union {None}, whole : BOOLEAN]
FreezeJobs == [step : {"freeze_audit", "freeze_write"}, source : Sources, content : Contents,
               lineage : LineageFiles \union {None}]
AppendJobs == [step : {"freeze_append"}, source : Sources, receipt : ReceiptFiles]
VerifyJobs == [step : {"revise_registered", "revise_read"}, parent : Sources, child : Sources, report : ReceiptFiles]
ChildJobs == [step : {"revise_child", "revise_lineage", "revise_append"}, child : Sources, lineage : LineageFiles]
Jobs == FreezeJobs \union AppendJobs \union VerifyJobs \union ChildJobs

(* The payloads of the two events: FREEZE and REVISION.                    *)
Events ==
  [type : {"FREEZE"}, subject : Sources, content : Contents \union {None}, core : Nat, file : Nat]
    \union [type : {"REVISION"}, subject : Sources, parent : Sources, content : Contents, core : Nat, file : Nat]

ASSUME CustodyConstants ==
  /\ InitialSources \subseteq Sources /\ InitialContent \in Contents
  /\ None \notin Contents \union Sources \union LineageFiles \union ReceiptFiles \union Jobs
  /\ {MaxEdits, MaxDeletes, MaxFaults} \subseteq Nat

VARIABLES
  source,         \* the bytes at each path, or None
  receipt,        \* the freeze receipt beside it, or None
  lineage,        \* the revision lineage beside it, or None
  ledger,         \* payloads of the ledger's events
  damaged,        \* the ledger does not verify
  job,            \* what each process is doing, or None
  frozen,         \* receipts whose create_freeze returned Ok
  receipts,       \* receipts ever written; a receipt's digest is its number
  edits, deletes, faults

vars == <<source, receipt, lineage, ledger, damaged, job, frozen, receipts, edits, deletes, faults>>
counters == <<edits, deletes, faults>>

(* A file that was created and not written to the end does not parse.      *)
Whole(file) == file # None /\ file.whole

FreezeEvents(s) ==
  {ledger[i] : i \in {j \in DOMAIN ledger : ledger[j].type = "FREEZE" /\ ledger[j].subject = s}}

(* Mutant: the source's digest is not compared.                            *)
VerifiedAnySource(s) ==
  /\ source[s] # None
  /\ Whole(receipt[s])
  /\ receipt[s].lineage # None => lineage[s] = receipt[s].lineage /\ Whole(lineage[s])

(* verify_freeze, its checks on source, receipt and lineage; policies and  *)
(* registries are those of one build and match.                            *)
Verified(s) ==
  /\ source[s] # None
  /\ Whole(receipt[s])
  /\ receipt[s].content = source[s]
  /\ receipt[s].lineage # None => lineage[s] = receipt[s].lineage /\ Whole(lineage[s])

(* Mutant: only the digest of the receipt file is looked up.               *)
RegisteredByFile(s, r) ==
  /\ ~damaged
  /\ \E event \in FreezeEvents(s) : event.file = r.id

(* verify_registration of a report on s's receipt r: a FREEZE event with   *)
(* the receipt's seal and with the digest of the receipt file.             *)
Registered(s, r) ==
  /\ ~damaged
  /\ \E event \in FreezeEvents(s) : event.core = r.id /\ event.file = r.id

(* enforce_freeze, after run_file found the ledger verified: a frozen      *)
(* source must verify and be registered; a source without a receipt must   *)
(* not be recorded as frozen.                                              *)
MayRun(s) ==
  /\ source[s] # None /\ ~damaged
  /\ IF receipt[s] # None THEN Verified(s) /\ Registered(s, receipt[s])
                          ELSE FreezeEvents(s) = {}

Idle(p) == job[p] = None
At(p, step) == ~Idle(p) /\ job[p].step = step
Set(p, j) == job' = [job EXCEPT ![p] = j]
Go(p, step) == job' = [job EXCEPT ![p].step = step]

(* ledger::append of one event returning Ok.                               *)
AppendOk(event) == ~damaged /\ ledger' = Append(ledger, event) /\ damaged' = FALSE

-----------------------------------------------------------------------------
Init ==
  /\ source = [s \in Sources |-> IF s \in InitialSources THEN InitialContent ELSE None]
  /\ receipt = [s \in Sources |-> None] /\ lineage = [s \in Sources |-> None]
  /\ ledger = << >> /\ damaged = FALSE
  /\ job = [p \in Procs |-> None]
  /\ frozen = {} /\ receipts = 0
  /\ edits = 0 /\ deletes = 0 /\ faults = 0

(* create_freeze: the source is read, no receipt is there, and a lineage   *)
(* receipt, if there is one, is intact.                                    *)
FreezeRead(p, s) ==
  /\ Idle(p) /\ source[s] # None /\ receipt[s] = None
  /\ lineage[s] # None => Whole(lineage[s])
  /\ Set(p, [step |-> "freeze_audit", source |-> s, content |-> source[s], lineage |-> lineage[s]])
  /\ UNCHANGED <<source, receipt, lineage, ledger, damaged, frozen, receipts, counters>>

(* "Refusing to freeze while the custody ledger is damaged."               *)
FreezeAudit(p) ==
  /\ At(p, "freeze_audit") /\ ~damaged
  /\ Go(p, "freeze_write")
  /\ UNCHANGED <<source, receipt, lineage, ledger, damaged, frozen, receipts, counters>>

(* Mutant: the receipt is created without create_new.                      *)
FreezeOverwrite(p) ==
  /\ At(p, "freeze_write")
  /\ LET s == job[p].source
         r == [id |-> receipts + 1, content |-> job[p].content, lineage |-> job[p].lineage, whole |-> TRUE]
     IN /\ receipt' = [receipt EXCEPT ![s] = r]
        /\ receipts' = receipts + 1
        /\ Set(p, [step |-> "freeze_append", source |-> s, receipt |-> r])
  /\ UNCHANGED <<source, lineage, ledger, damaged, frozen, counters>>

(* write_json_exclusive of the receipt, which fails if one is there.       *)
FreezeWrite(p) ==
  /\ At(p, "freeze_write")
  /\ LET s == job[p].source
         r == [id |-> receipts + 1, content |-> job[p].content, lineage |-> job[p].lineage, whole |-> TRUE]
     IN /\ receipt[s] = None
        /\ receipt' = [receipt EXCEPT ![s] = r]
        /\ receipts' = receipts + 1
        /\ Set(p, [step |-> "freeze_append", source |-> s, receipt |-> r])
  /\ UNCHANGED <<source, lineage, ledger, damaged, frozen, counters>>

(* The event's core digest is the one computed before, its file digest is  *)
(* taken from the file that is there now.                                  *)
FreezeEvent(p) ==
  LET s == job[p].source
  IN [type |-> "FREEZE", subject |-> s, content |-> job[p].receipt.content,
      core |-> job[p].receipt.id, file |-> receipt[s].id]

FreezeAppend(p) ==
  /\ At(p, "freeze_append") /\ receipt[job[p].source] # None
  /\ AppendOk(FreezeEvent(p))
  /\ frozen' = frozen \union {job[p].receipt.id}
  /\ Set(p, None)
  /\ UNCHANGED <<source, receipt, lineage, receipts, counters>>

(* create_revision: the child's three paths are free and the parent's      *)
(* freeze verifies.                                                        *)
ReviseVerify(p, parent, child) ==
  /\ Idle(p)
  /\ source[child] = None /\ receipt[child] = None /\ lineage[child] = None
  /\ Verified(parent)
  /\ Set(p, [step |-> "revise_registered", parent |-> parent, child |-> child, report |-> receipt[parent]])
  /\ UNCHANGED <<source, receipt, lineage, ledger, damaged, frozen, receipts, counters>>

(* Mutant: a verified receipt is enough to revise.                         *)
ReviseUnregistered(p) ==
  /\ At(p, "revise_registered")
  /\ Go(p, "revise_read")
  /\ UNCHANGED <<source, receipt, lineage, ledger, damaged, frozen, receipts, counters>>

ReviseRegistered(p) ==
  /\ At(p, "revise_registered") /\ Registered(job[p].parent, job[p].report)
  /\ Go(p, "revise_read")
  /\ UNCHANGED <<source, receipt, lineage, ledger, damaged, frozen, receipts, counters>>

(* The parent's bytes and the digest of its receipt file are read again.   *)
ReviseRead(p) ==
  /\ At(p, "revise_read")
  /\ LET parent == job[p].parent
     IN /\ source[parent] # None /\ receipt[parent] # None
        /\ Set(p, [step |-> "revise_child", child |-> job[p].child,
                   lineage |-> [parent |-> parent, content |-> source[parent],
                                core |-> job[p].report.id, file |-> receipt[parent].id, whole |-> TRUE]])
  /\ UNCHANGED <<source, receipt, lineage, ledger, damaged, frozen, receipts, counters>>

ReviseChild(p) ==
  /\ At(p, "revise_child") /\ source[job[p].child] = None
  /\ source' = [source EXCEPT ![job[p].child] = job[p].lineage.content]
  /\ Go(p, "revise_lineage")
  /\ UNCHANGED <<receipt, lineage, ledger, damaged, frozen, receipts, counters>>

ReviseLineage(p) ==
  /\ At(p, "revise_lineage") /\ lineage[job[p].child] = None
  /\ lineage' = [lineage EXCEPT ![job[p].child] = job[p].lineage]
  /\ Go(p, "revise_append")
  /\ UNCHANGED <<source, receipt, ledger, damaged, frozen, receipts, counters>>

(* The event takes the digest of the parent's receipt file a third time.   *)
RevisionEvent(p) ==
  [type |-> "REVISION", subject |-> job[p].child, parent |-> job[p].lineage.parent,
   content |-> job[p].lineage.content, core |-> job[p].lineage.core,
   file |-> receipt[job[p].lineage.parent].id]

ReviseAppend(p) ==
  /\ At(p, "revise_append") /\ receipt[job[p].lineage.parent] # None
  /\ AppendOk(RevisionEvent(p))
  /\ Set(p, None)
  /\ UNCHANGED <<source, receipt, lineage, frozen, receipts, counters>>

-----------------------------------------------------------------------------
(* Any step may fail or be the last one (an I/O error, a path that is      *)
(* taken, a held ledger lock, a refused audit, a kill): what is written    *)
(* stays, nothing is undone.                                               *)
GiveUp(p) ==
  /\ ~Idle(p)
  /\ Set(p, None)
  /\ UNCHANGED <<source, receipt, lineage, ledger, damaged, frozen, receipts, counters>>

(* The receipt or the lineage is created and not written to the end.       *)
WriteCut(p) ==
  /\ faults < MaxFaults /\ faults' = faults + 1
  /\ \/ /\ At(p, "freeze_write") /\ receipt[job[p].source] = None
        /\ receipt' = [receipt EXCEPT ![job[p].source] =
                         [id |-> receipts + 1, content |-> None, lineage |-> None, whole |-> FALSE]]
        /\ receipts' = receipts + 1
        /\ UNCHANGED lineage
     \/ /\ At(p, "revise_lineage") /\ lineage[job[p].child] = None
        /\ lineage' = [lineage EXCEPT ![job[p].child] = [job[p].lineage EXCEPT !.whole = FALSE]]
        /\ UNCHANGED <<receipt, receipts>>
  /\ Set(p, None)
  /\ UNCHANGED <<source, ledger, damaged, frozen, edits, deletes>>

(* append() fails or dies once it has begun to write: the event may be in  *)
(* the chain, and the ledger is damaged.                                   *)
AppendCut(p) ==
  /\ faults < MaxFaults /\ faults' = faults + 1
  /\ ~damaged /\ damaged' = TRUE
  /\ \/ /\ At(p, "freeze_append") /\ receipt[job[p].source] # None
        /\ ledger' \in {ledger, Append(ledger, FreezeEvent(p))}
     \/ /\ At(p, "revise_append") /\ receipt[job[p].lineage.parent] # None
        /\ ledger' \in {ledger, Append(ledger, RevisionEvent(p))}
  /\ Set(p, None)
  /\ UNCHANGED <<source, receipt, lineage, frozen, receipts, edits, deletes>>

(* The user saves a source, or deletes a receipt.                          *)
Edit(s, c) ==
  /\ edits < MaxEdits /\ source[s] # c
  /\ source' = [source EXCEPT ![s] = c]
  /\ edits' = edits + 1
  /\ UNCHANGED <<receipt, lineage, ledger, damaged, job, frozen, receipts, deletes, faults>>

DeleteReceipt(s) ==
  /\ deletes < MaxDeletes /\ receipt[s] # None
  /\ receipt' = [receipt EXCEPT ![s] = None]
  /\ deletes' = deletes + 1
  /\ UNCHANGED <<source, lineage, ledger, damaged, job, frozen, receipts, edits, faults>>

Freeze(p) == (\E s \in Sources : FreezeRead(p, s)) \/ FreezeAudit(p) \/ FreezeWrite(p) \/ FreezeAppend(p)

Revise(p) ==
  \/ \E parent \in Sources, child \in Sources : ReviseVerify(p, parent, child)
  \/ ReviseRegistered(p) \/ ReviseRead(p) \/ ReviseChild(p) \/ ReviseLineage(p) \/ ReviseAppend(p)

Next ==
  \/ \E p \in Procs : Freeze(p) \/ Revise(p) \/ GiveUp(p) \/ WriteCut(p) \/ AppendCut(p)
  \/ \E s \in Sources : DeleteReceipt(s) \/ \E c \in Contents : Edit(s, c)

Spec == Init /\ [][Next]_vars

-----------------------------------------------------------------------------
(* Every variable stays in its domain.                                     *)
TypeOK ==
  /\ source \in [Sources -> Contents \union {None}]
  /\ receipt \in [Sources -> ReceiptFiles \union {None}]
  /\ lineage \in [Sources -> LineageFiles \union {None}]
  /\ ledger \in Seq(Events) /\ damaged \in BOOLEAN
  /\ job \in [Procs -> Jobs \union {None}]
  /\ receipts \in Nat /\ frozen \subseteq Nat
  /\ edits \in 0..MaxEdits /\ deletes \in 0..MaxDeletes /\ faults \in 0..MaxFaults

(* "A later edit - even a notation-only edit - must go through an explicit *)
(* child revision": a source that the ledger records as frozen runs only   *)
(* with the bytes that were frozen, for every FREEZE event it has.         *)
FrozenSourceGate ==
  \A s \in Sources : MayRun(s) => \A event \in FreezeEvents(s) : source[s] = event.content

(* The same for as long as the user deletes no receipt, through every race *)
(* of freezes, revisions, edits, failed writes and crashes.                *)
GateWhileReceiptsStay == deletes = 0 => FrozenSourceGate

(* A source that passes the gate with a receipt has exactly the bytes that *)
(* some registered freeze of this path read, even if receipts were deleted *)
(* and written again between the two digests of one event.                 *)
GateMeansRegisteredBytes ==
  \A s \in Sources : MayRun(s) /\ receipt[s] # None =>
    \E event \in FreezeEvents(s) : source[s] = event.content

(* A receipt whose create_freeze returned Ok has its event in the ledger,  *)
(* sealed with its own core digest, whatever else failed since.            *)
OkMeansRegistered ==
  \A s \in Sources : receipt[s] # None /\ receipt[s].id \in frozen =>
    \E event \in FreezeEvents(s) : event.core = receipt[s].id /\ event.content = receipt[s].content

(* Every revision in the ledger comes after the freeze of its parent that  *)
(* it names.                                                               *)
RevisionFollowsFreeze ==
  \A i \in DOMAIN ledger : ledger[i].type = "REVISION" =>
    \E j \in 1..(i - 1) : /\ ledger[j].type = "FREEZE" /\ ledger[j].subject = ledger[i].parent
                          /\ ledger[j].core = ledger[i].core

Appending(s) == \E p \in Procs : At(p, "freeze_append") /\ job[p].source = s
Orphan(s) == /\ receipt[s] # None /\ ~Appending(s)
             /\ \A event \in FreezeEvents(s) : event.core # receipt[s].id

(* A receipt left without its event by a failed freeze never becomes       *)
(* registered: the path stays refused for as long as the receipt is there. *)
OrphansStayOrphans ==
  [][\A s \in Sources : Orphan(s) => Orphan(s)' \/ receipt'[s] = None]_vars
=============================================================================
