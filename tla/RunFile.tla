------------------------------- MODULE RunFile -------------------------------
(***************************************************************************)
(* One execution of a program: run_file (src/src/runtime.rs) from reading  *)
(* the source to the registered receipt, with the final state of           *)
(* COMPLETELY_MAD (mad.rs), the output streams (batches.rs) and verify_run *)
(* (audit.rs).  Several runs of one source share the custody ledger while  *)
(* the user edits the source.                                              *)
(*                                                                         *)
(* The ledger is taken at the level of EventChain: append() adds one event *)
(* or fails; a failed append may have added its event, and then, or after  *)
(* a torn line, the ledger is damaged for good.  An audit also fails while *)
(* another run is appending: audit() takes no lock.                        *)
(* What a program computes is left out: it opens some output streams,      *)
(* closes some of them, and succeeds or fails.                             *)
(***************************************************************************)
EXTENDS Naturals, Sequences, FiniteSets

CONSTANTS
  Runs,
  Contents,       \* what the source can contain, up to its digest
  Unparsable,     \* the contents that do not parse
  Paranoid,       \* those that declare GO_PARANOID or COMPLETELY_MAD
  Mad,            \* those that declare COMPLETELY_MAD
  Streams,        \* output streams a program can open
  None,
  MaxEdits,       \* bound on edits by the user
  MaxFaults       \* bound on I/O errors that run_file handles

Steps == {"preflight", "parse", "gate", "evaluate", "observe", "publish", "decide", "write",
          "selfcheck", "register", "appending", "repair", "done", "dead"}
Statuses == {"PASS", "PROTOCOL_VIOLATION", "MACHINERY_FAIL"}
Receipts ==
  [status : Statuses, profile : [paranoid : BOOLEAN, mad : BOOLEAN],
   postflight : {"none", "unavailable", "same", "changed"},
   capture : {"none", "due", "complete", "partial", "refused"},
   listed : [Streams -> {"none", "whole", "partial"}], stderr : Nat]
Records ==
  [step : Steps, bytes : Contents, preflight : BOOLEAN, outcome : Statuses,
   opened : SUBSET Streams, closed : SUBSET Streams, outputs : [Streams -> SUBSET {"whole", "partial"}],
   receipt : Receipts, disk : Receipts \union {None}, stderr : Nat, todo : Seq({"mark", "stderr", "receipt"})]

RunConstants ==
  /\ None \notin Receipts /\ None \notin Records
  /\ Unparsable \subseteq Contents /\ Mad \subseteq Paranoid /\ Paranoid \subseteq Contents
  /\ Paranoid \intersect Unparsable = {} /\ None \notin Contents
  /\ {MaxEdits, MaxFaults} \subseteq Nat

VARIABLES
  source,         \* the bytes on disk, or None
  frozen,         \* the content of its registered freeze receipt, or None
  run,            \* what each run has done so far, or None
  ledger,         \* the runs' events
  damaged,        \* the ledger does not verify
  unpublished,    \* the copy of a stream has failed
  edits, faults

vars == <<source, frozen, run, ledger, damaged, unpublished, edits, faults>>
shared == <<source, frozen, ledger, damaged, unpublished, edits>>

(* What a receipt says about the mode of the program.                      *)
Profile(c) == [paranoid |-> c \in Paranoid, mad |-> c \in Mad]
Everyday == [paranoid |-> FALSE, mad |-> FALSE]

NewReceipt ==
  [status |-> "MACHINERY_FAIL", profile |-> Everyday, postflight |-> "none",
   capture |-> "none", listed |-> [s \in Streams |-> "none"], stderr |-> 0]

Started(r) == run[r] # None
At(r, step) == Started(r) /\ run[r].step = step
Appending(r) == \E q \in Runs \ {r} : At(q, "appending")
Fault == faults < MaxFaults /\ faults' = faults + 1
Go(r, step) == run' = [run EXCEPT ![r].step = step]

(* The remaining steps are skipped and the run is closed with this error.  *)
Fail(r, step, status) == run' = [run EXCEPT ![r].step = step, ![r].outcome = status]

(* ledger::audit: fails on a damaged ledger and during another's append.   *)
AuditVerdicts(r) == (IF damaged THEN {} ELSE {TRUE}) \union (IF damaged \/ Appending(r) THEN {FALSE} ELSE {})

(* enforce_freeze, which reads the source again.                           *)
FreezeVerdicts(r) ==
  IF frozen = None THEN {TRUE} ELSE IF source # frozen THEN {FALSE} ELSE AuditVerdicts(r)

(* verify_run of the directory of run r.                                   *)
Verify(r) ==
  LET receipt == run[r].disk
      content == run[r].bytes
      passed == receipt.status = "PASS"
      Complete(s) == passed /\ s \in run[r].closed
      Name(s) == IF Complete(s) THEN "whole" ELSE "partial"
  IN /\ receipt # None
     /\ receipt.profile = Profile(content)
     /\ content \in Unparsable => ~passed
     /\ IF receipt.profile.mad
        THEN receipt.capture \in (IF passed THEN {"complete"} ELSE {"none", "refused", "partial"})
        ELSE receipt.capture = "none"
     /\ IF receipt.profile.paranoid
        THEN receipt.postflight # "none" /\ (passed => receipt.postflight = "same")
        ELSE receipt.postflight = "none"
     /\ receipt.stderr = run[r].stderr
     /\ \A s \in run[r].opened : receipt.listed[s] = Name(s) /\ Name(s) \in run[r].outputs[s]
     /\ passed => run[r].closed = run[r].opened

-----------------------------------------------------------------------------
Init ==
  /\ source \in Contents /\ frozen \in {None, source}
  /\ run = [r \in Runs |-> None]
  /\ ledger = << >> /\ damaged \in BOOLEAN
  /\ unpublished = FALSE /\ edits = 0 /\ faults = 0

(* The source is read once; its bytes are preserved in a new directory.    *)
Start(r) ==
  /\ ~Started(r) /\ source # None
  /\ run' = [run EXCEPT ![r] =
       [step |-> "preflight", bytes |-> source, preflight |-> FALSE, outcome |-> "PASS",
        opened |-> {}, closed |-> {}, outputs |-> [s \in Streams |-> {}],
        receipt |-> NewReceipt, disk |-> None, stderr |-> 0, todo |-> << >>]]
  /\ UNCHANGED <<shared, faults>>

Preflight(r) ==
  /\ At(r, "preflight")
  /\ \E verdict \in AuditVerdicts(r) :
       run' = [run EXCEPT ![r].step = "parse", ![r].preflight = verdict]
  /\ UNCHANGED <<shared, faults>>

(* "The project custody ledger or head checkpoint is damaged."             *)
RefuseLedger(r) ==
  /\ At(r, "parse") /\ ~run[r].preflight
  /\ Fail(r, "observe", "PROTOCOL_VIOLATION")
  /\ UNCHANGED <<shared, faults>>

(* A source that does not parse is still held against its freeze.          *)
ParseError(r) ==
  /\ At(r, "parse") /\ run[r].preflight /\ run[r].bytes \in Unparsable
  /\ \E verdict \in FreezeVerdicts(r) :
       Fail(r, "observe", IF verdict THEN "MACHINERY_FAIL" ELSE "PROTOCOL_VIOLATION")
  /\ UNCHANGED <<shared, faults>>

Parse(r) ==
  /\ At(r, "parse") /\ run[r].preflight /\ run[r].bytes \notin Unparsable
  /\ run' = [run EXCEPT ![r].step = "gate", ![r].receipt.profile = Profile(run[r].bytes)]
  /\ UNCHANGED <<shared, faults>>

(* Mutant: a verdict on the freeze that nobody looks at.                   *)
GateOpen(r) ==
  /\ At(r, "gate")
  /\ Go(r, "evaluate")
  /\ UNCHANGED <<shared, faults>>

Gate(r) ==
  /\ At(r, "gate")
  /\ \E verdict \in FreezeVerdicts(r) :
       IF verdict THEN Go(r, "evaluate") ELSE Fail(r, "observe", "PROTOCOL_VIOLATION")
  /\ UNCHANGED <<shared, faults>>

(* The bytes read at the start are evaluated, or compiled and evaluated.   *)
(* batches.finish() fails when a stream is left open.                      *)
Evaluate(r) ==
  /\ At(r, "evaluate")
  /\ \E opened \in SUBSET Streams : \E closed \in SUBSET opened :
     \E outcome \in (IF closed = opened THEN {"PASS"} ELSE {}) \union {"MACHINERY_FAIL"} :
       run' = [run EXCEPT ![r].step = "observe", ![r].opened = opened, ![r].closed = closed,
                          ![r].outcome = outcome, ![r].receipt.capture =
                            IF run[r].receipt.profile.mad THEN "due" ELSE "none"]
  /\ UNCHANGED <<shared, faults>>

(* The data, interaction or module evidence cannot be preserved.           *)
EvidenceFails(r) ==
  /\ At(r, "observe") /\ Fault
  /\ Fail(r, "observe", "MACHINERY_FAIL")
  /\ UNCHANGED shared

(* observe_paranoid_source, for a paranoid receipt only.                   *)
Observe(r) ==
  /\ At(r, "observe")
  /\ LET postflight == IF ~run[r].receipt.profile.paranoid THEN "none"
                       ELSE IF source = None THEN "unavailable"
                       ELSE IF source = run[r].bytes THEN "same" ELSE "changed"
     IN run' = [run EXCEPT ![r].step = "publish", ![r].receipt.postflight = postflight,
                           ![r].outcome = IF postflight \in {"none", "same"} THEN @ ELSE "PROTOCOL_VIOLATION"]
  /\ UNCHANGED <<shared, faults>>

ObserveFails(r) ==
  /\ At(r, "observe") /\ run[r].receipt.profile.paranoid /\ Fault
  /\ run' = [run EXCEPT ![r].step = "publish", ![r].receipt.postflight = "unavailable",
                        ![r].outcome = "PROTOCOL_VIOLATION"]
  /\ UNCHANGED shared

(* Mutant: the outcome of the run is not asked.                            *)
PublishClosed(r) ==
  /\ At(r, "publish")
  /\ LET Name(s) == IF s \in run[r].closed THEN "whole" ELSE "partial"
         opened == run[r].opened
     IN run' = [run EXCEPT ![r].step = "decide",
                  ![r].outputs = [s \in Streams |-> IF s \in opened THEN {Name(s)} ELSE {}],
                  ![r].receipt.listed = [s \in Streams |-> IF s \in opened THEN Name(s) ELSE "none"]]
  /\ UNCHANGED <<shared, faults>>

(* batches.publish copies every stream to outputs/, under its own name     *)
(* only if the run succeeds and the stream was closed.                     *)
Publish(r) ==
  /\ At(r, "publish")
  /\ LET Name(s) == IF run[r].outcome = "PASS" /\ s \in run[r].closed THEN "whole" ELSE "partial"
         opened == run[r].opened
     IN run' = [run EXCEPT ![r].step = "decide",
                  ![r].outputs = [s \in Streams |-> IF s \in opened THEN {Name(s)} ELSE {}],
                  ![r].receipt.listed = [s \in Streams |-> IF s \in opened THEN Name(s) ELSE "none"]]
  /\ UNCHANGED <<shared, faults>>

(* A copy fails: those made before it stay, and no stream is listed.       *)
PublishFails(r) ==
  /\ At(r, "publish") /\ Fault /\ unpublished' = TRUE
  /\ \E copied \in SUBSET run[r].opened :
     LET Name(s) == IF run[r].outcome = "PASS" /\ s \in run[r].closed THEN "whole" ELSE "partial"
     IN run' = [run EXCEPT ![r].step = "decide", ![r].outcome = "MACHINERY_FAIL",
                  ![r].outputs = [s \in Streams |-> IF s \in copied THEN {Name(s)} ELSE {}]]
  /\ run[r].opened # {}
  /\ UNCHANGED <<source, frozen, ledger, damaged, edits>>

(* The status, then mad::preserve of the final state.                      *)
Decide(r) ==
  /\ At(r, "decide")
  /\ run' = [run EXCEPT ![r].step = "write", ![r].receipt.status = run[r].outcome,
               ![r].receipt.capture =
                 IF @ # "due" THEN @ ELSE IF run[r].outcome = "PASS" THEN "complete" ELSE "partial"]
  /\ UNCHANGED <<shared, faults>>

(* mark_incomplete: every stream listed as complete is renamed.            *)
Incomplete(outputs, listed) ==
  [s \in Streams |-> IF listed[s] = "whole" THEN (outputs[s] \ {"whole"}) \union {"partial"} ELSE outputs[s]]
Partials(listed) == [s \in Streams |-> IF listed[s] = "whole" THEN "partial" ELSE listed[s]]

(* The final state is too large or cannot be written.                      *)
CaptureRefused(r) ==
  /\ At(r, "decide") /\ run[r].receipt.capture = "due"
  /\ run' = [run EXCEPT ![r].step = "write", ![r].outcome = "MACHINERY_FAIL",
               ![r].receipt = [run[r].receipt EXCEPT !.status = "MACHINERY_FAIL", !.capture = "refused",
                                                     !.listed = Partials(run[r].receipt.listed)],
               ![r].outputs = Incomplete(@, run[r].receipt.listed)]
  /\ UNCHANGED <<shared, faults>>

(* stdout.log, stderr.log and then receipt.json with their digests.        *)
Write(r) ==
  /\ At(r, "write")
  /\ LET receipt == [run[r].receipt EXCEPT !.stderr = 1]
     IN run' = [run EXCEPT ![r].stderr = 1, ![r].receipt = receipt, ![r].disk = receipt,
                  ![r].step = IF receipt.profile.paranoid THEN "selfcheck"
                              ELSE IF run[r].preflight THEN "register" ELSE "done"]
  /\ UNCHANGED <<shared, faults>>

(* The order of mark_incomplete, stderr.log and receipt.json differs.      *)
SelfCheckRepair == <<"mark", "stderr", "receipt">>
RegistrationRepair == <<"stderr", "mark", "receipt">>
Repair(r, steps) == run' = [run EXCEPT ![r].step = "repair", ![r].todo = steps]

SelfCheck(r) ==
  /\ At(r, "selfcheck")
  /\ IF Verify(r) THEN Go(r, "register") ELSE Repair(r, SelfCheckRepair)
  /\ UNCHANGED <<shared, faults>>

SelfCheckFails(r) ==
  /\ At(r, "selfcheck") /\ Fault
  /\ Repair(r, SelfCheckRepair)
  /\ UNCHANGED shared

(* ledger::append: it takes the lock and passes its audit, or it refuses.  *)
BeginAppend(r) ==
  /\ At(r, "register") /\ ~damaged /\ ~Appending(r)
  /\ Go(r, "appending")
  /\ UNCHANGED <<shared, faults>>

(* Mutant: the result of append() is ignored.                              *)
AppendRefusalIgnored(r) ==
  /\ At(r, "register") /\ (damaged \/ Appending(r))
  /\ Go(r, "done")
  /\ UNCHANGED <<shared, faults>>

AppendRefused(r) ==
  /\ At(r, "register") /\ (damaged \/ Appending(r))
  /\ Repair(r, RegistrationRepair)
  /\ UNCHANGED <<shared, faults>>

Event(r) == [run |-> r, status |-> run[r].disk.status, receipt |-> run[r].disk.stderr]

EndAppend(r) ==
  /\ At(r, "appending")
  /\ ledger' = Append(ledger, Event(r))
  /\ Go(r, "done")
  /\ UNCHANGED <<source, frozen, damaged, unpublished, edits, faults>>

(* It fails before its line, or with its line or a piece of it written.    *)
AppendFails(r) ==
  /\ At(r, "appending") /\ Fault
  /\ \/ UNCHANGED <<ledger, damaged>>
     \/ damaged' = TRUE /\ ledger' \in {ledger, Append(ledger, Event(r))}
  /\ Repair(r, RegistrationRepair)
  /\ UNCHANGED <<source, frozen, unpublished, edits>>

-----------------------------------------------------------------------------
(* The steps that turn a run whose self-check or registration failed into  *)
(* a failed one.                                                           *)
RepairStep(r, step) == At(r, "repair") /\ Head(run[r].todo) = step
Rest(r) == Tail(run[r].todo)

MarkIncomplete(r) ==
  /\ RepairStep(r, "mark")
  /\ run' = [run EXCEPT ![r].todo = Rest(r), ![r].receipt.listed = Partials(@),
               ![r].outputs = Incomplete(@, run[r].receipt.listed)]
  /\ UNCHANGED <<shared, faults>>

AppendStderr(r) ==
  /\ RepairStep(r, "stderr")
  /\ run' = [run EXCEPT ![r].todo = Rest(r), ![r].stderr = @ + 1]
  /\ UNCHANGED <<shared, faults>>

(* Mutants: the digest of stderr.log is not taken again; or the receipt    *)
(* keeps its status.                                                       *)
ResealOldStderr(r) ==
  /\ RepairStep(r, "receipt")
  /\ LET receipt == [run[r].receipt EXCEPT !.status = "MACHINERY_FAIL",
                       !.capture = IF @ = "complete" THEN "partial" ELSE @]
     IN run' = [run EXCEPT ![r].step = "done", ![r].todo = << >>, ![r].receipt = receipt, ![r].disk = receipt]
  /\ UNCHANGED <<shared, faults>>
ResealKeepsStatus(r) ==
  /\ RepairStep(r, "receipt")
  /\ LET receipt == [run[r].receipt EXCEPT !.stderr = run[r].stderr]
     IN run' = [run EXCEPT ![r].step = "done", ![r].todo = << >>, ![r].receipt = receipt, ![r].disk = receipt]
  /\ UNCHANGED <<shared, faults>>

(* downgrade_self_check, or the same in run_file: the receipt is sealed    *)
(* again and written over the old one.                                     *)
Reseal(r) ==
  /\ RepairStep(r, "receipt")
  /\ LET receipt == [run[r].receipt EXCEPT !.status = "MACHINERY_FAIL", !.stderr = run[r].stderr,
                       !.capture = IF @ = "complete" THEN "partial" ELSE @]
     IN run' = [run EXCEPT ![r].step = "done", ![r].todo = << >>, ![r].receipt = receipt, ![r].disk = receipt]
  /\ UNCHANGED <<shared, faults>>

(* A kill, or an error that leaves run_file by `?`: whatever is on disk    *)
(* stays.  The receipt is truncated before it is written again.            *)
Die(r) ==
  /\ Started(r) /\ run[r].step \notin {"done", "dead"}
  /\ \E disk \in {run[r].disk} \union (IF RepairStep(r, "receipt") THEN {None} ELSE {}) :
       run' = [run EXCEPT ![r].step = "dead", ![r].disk = disk]
  /\ IF At(r, "appending")
     THEN \/ UNCHANGED <<ledger, damaged>>
          \/ damaged' = TRUE /\ ledger' \in {ledger, Append(ledger, Event(r))}
     ELSE UNCHANGED <<ledger, damaged>>
  /\ UNCHANGED <<source, frozen, unpublished, edits, faults>>

Edit(c) ==
  /\ edits < MaxEdits /\ c # source
  /\ source' = c /\ edits' = edits + 1
  /\ UNCHANGED <<frozen, run, ledger, damaged, unpublished, faults>>

Execute(r) ==
  \/ Start(r) \/ Preflight(r) \/ RefuseLedger(r) \/ ParseError(r) \/ Parse(r) \/ Gate(r)
  \/ Evaluate(r) \/ Observe(r) \/ Publish(r) \/ Decide(r) \/ CaptureRefused(r) \/ Write(r)
  \/ SelfCheck(r) \/ BeginAppend(r) \/ AppendRefused(r) \/ EndAppend(r)
  \/ MarkIncomplete(r) \/ AppendStderr(r) \/ Reseal(r)

Errors(r) ==
  EvidenceFails(r) \/ ObserveFails(r) \/ PublishFails(r) \/ SelfCheckFails(r) \/ AppendFails(r) \/ Die(r)

Next == (\E r \in Runs : Execute(r) \/ Errors(r)) \/ (\E c \in Contents \union {None} : Edit(c))

Spec == Init /\ [][Next]_vars

-----------------------------------------------------------------------------
Done(r) == At(r, "done")

(* Every variable stays in its domain.                                     *)
TypeOK ==
  /\ source \in Contents \union {None} /\ frozen \in Contents \union {None}
  /\ run \in [Runs -> Records \union {None}]
  /\ ledger \in Seq([run : Runs, status : Statuses, receipt : Nat]) /\ damaged \in BOOLEAN
  /\ edits \in 0..MaxEdits /\ faults \in 0..MaxFaults /\ unpublished \in BOOLEAN

(* A run that run_file returns verifies, whatever it stopped at, if its    *)
(* preflight audit passed and no copy of a stream failed: also after its   *)
(* registration or its own self-check failed and its receipt was sealed    *)
(* again.                                                                  *)
ReturnedRunsVerify ==
  ~unpublished => \A r \in Runs : Done(r) /\ run[r].preflight => Verify(r)

(* A run returned with PASS is in the ledger, with this very receipt.      *)
PassIsRegistered ==
  \A r \in Runs : Done(r) /\ run[r].disk.status = "PASS" =>
    \E i \in DOMAIN ledger : ledger[i] = Event(r)

(* An event's receipt is the one on disk, or has become a failure: no      *)
(* receipt passes that the ledger registered otherwise.                    *)
RegisteredOrFailed ==
  \A i \in DOMAIN ledger : LET receipt == run[ledger[i].run].disk IN
    receipt # None /\ ledger[i] # Event(ledger[i].run) => receipt.status = "MACHINERY_FAIL"

(* A receipt passes only if the ledger has it, and no receipt passes that  *)
(* the ledger has otherwise.                                               *)
LedgerAgrees == PassIsRegistered /\ RegisteredOrFailed

(* "Failed stream outputs carry `.partial` names, including late ledger    *)
(* failures": beside a receipt that says fail no stream has its own name.  *)
FailedOutputsPartial ==
  \A r \in Runs : Started(r) /\ run[r].disk # None /\ run[r].disk.status # "PASS" =>
    \A s \in Streams : "whole" \notin run[r].outputs[s]

(* The same unless the copy of a stream failed, also when the run is       *)
(* killed or its repair is interrupted.                                    *)
LateFailuresPartial == ~unpublished => FailedOutputsPartial

(* "Frozen source changes fail before evaluation": what is evaluated are   *)
(* the frozen bytes, although the gate reads the source a second time;     *)
(* a change that is undone between the two reads is not noticed.           *)
FrozenBytesEvaluated ==
  edits <= 1 => \A r \in Runs : At(r, "evaluate") /\ frozen # None => run[r].bytes = frozen
=============================================================================
