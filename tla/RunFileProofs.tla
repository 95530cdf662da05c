----------------------------- MODULE RunFileProofs -----------------------------
(* Proofs about RunFile: for any number of runs, streams, edits and errors *)
(* a run that is returned verifies, a receipt passes only if the ledger    *)
(* has it, and a failed run leaves no output under its complete name.      *)
EXTENDS RunFile, TLAPS

-----------------------------------------------------------------------------
(* What the record of a run says at each of its steps.  "passed" is the    *)
(* outcome until the receipt has a status, and the status from then on.    *)
Out(v) == v.outcome = "PASS"
Sealed(v) == v.receipt.status = "PASS"
Fresh(v) ==
  /\ v.disk = None /\ v.stderr = 0 /\ v.outcome = "PASS" /\ v.opened = {} /\ v.closed = {}
  /\ v.outputs = [s \in Streams |-> {}] /\ v.receipt.listed = [s \in Streams |-> "none"]
  /\ v.receipt.postflight = "none" /\ v.receipt.capture = "none"
Unwritten(v) == v.disk = None /\ v.stderr = 0
Unlisted(v) == \A s \in Streams : v.outputs[s] = {} /\ v.receipt.listed[s] = "none"
Mode(v, passed) ==
  /\ passed => v.preflight = TRUE /\ v.closed = v.opened /\ v.bytes \notin Unparsable
  /\ v.preflight = TRUE => v.receipt.profile = Profile(v.bytes)
Post(v, passed) ==
  IF v.receipt.profile.paranoid = TRUE
  THEN v.receipt.postflight # "none" /\ (passed => v.receipt.postflight = "same")
  ELSE v.receipt.postflight = "none"
Due(v) ==
  IF v.receipt.profile.mad = TRUE
  THEN v.receipt.capture \in {"none", "due"} /\ (Out(v) => v.receipt.capture = "due")
  ELSE v.receipt.capture = "none"
Captured(v) ==
  IF v.receipt.profile.mad = TRUE
  THEN IF Sealed(v) THEN v.receipt.capture = "complete" ELSE v.receipt.capture \in {"none", "refused", "partial"}
  ELSE v.receipt.capture = "none"
StreamName(v, s, passed) == IF passed /\ s \in v.closed THEN "whole" ELSE "partial"
Names(v, passed) ==
  \A s \in Streams :
    IF s \in v.opened THEN v.receipt.listed[s] = StreamName(v, s, passed) /\ v.outputs[s] = {StreamName(v, s, passed)}
                      ELSE v.receipt.listed[s] = "none" /\ v.outputs[s] = {}
NoWhole(v) == \A s \in Streams : "whole" \notin v.outputs[s]
Marks == {SelfCheckRepair, RegistrationRepair, <<"mark", "receipt">>}
Marked == {<<"stderr", "receipt">>, <<"receipt">>}
Published == unpublished = FALSE

Beginning(v) == v.step \in {"preflight", "parse"} => Fresh(v) /\ v.receipt.profile = Everyday
Parsed(v) ==
  v.step \in {"gate", "evaluate"} =>
    Fresh(v) /\ v.preflight = TRUE /\ v.receipt.profile = Profile(v.bytes) /\ v.bytes \notin Unparsable
Evaluated(v) ==
  /\ v.step \in {"observe", "publish", "decide"} => Unwritten(v) /\ Mode(v, Out(v)) /\ Due(v)
  /\ v.step \in {"observe", "publish"} => Unlisted(v)
  /\ v.step = "observe" => v.receipt.postflight = "none"
  /\ v.step \in {"publish", "decide"} => Post(v, Out(v))
  /\ v.step = "decide" /\ Published => Names(v, Out(v))
Decided(v) ==
  /\ v.step \in {"write", "selfcheck", "register", "appending", "repair"} =>
       Mode(v, Sealed(v)) /\ Post(v, Sealed(v)) /\ Captured(v)
  /\ v.step \in {"write", "selfcheck", "register", "appending"} /\ Published => Names(v, Sealed(v))
  /\ v.step = "write" => Unwritten(v)
  /\ v.step \in {"selfcheck", "register", "appending"} => v.disk = v.receipt /\ v.receipt.stderr = v.stderr
Repaired(v) ==
  v.step = "repair" =>
    /\ v.disk # None /\ v.disk.status = v.receipt.status /\ v.todo \in Marks \union Marked
    /\ Published => Names(v, Sealed(v) /\ v.todo \in Marks)
Closed(r) == LET v == run[r] IN
  /\ v.step = "done" => v.disk # None /\ (Published /\ v.preflight = TRUE => Verify(r))
  /\ v.step \in {"done", "dead"} /\ v.disk # None /\ v.disk.status # "PASS" /\ Published => NoWhole(v)
Good(r) == Beginning(run[r]) /\ Parsed(run[r]) /\ Evaluated(run[r]) /\ Decided(run[r]) /\ Repaired(run[r]) /\ Closed(r)
RunsGood == \A r \in Runs : Started(r) => Good(r)

(* What the ledger says of a run, and what a run says that the ledger has. *)
LedgerOK ==
  \A i \in DOMAIN ledger : LET q == ledger[i].run IN
    /\ q \in Runs /\ Started(q) /\ run[q].step \in {"repair", "done", "dead"}
    /\ run[q].disk = None \/ ledger[i] = Event(q) \/ run[q].disk.status = "MACHINERY_FAIL"

(* With one edit a frozen source that is as it was frozen was never other. *)
FreezeOK ==
  frozen # None =>
    /\ edits = 0 => source = frozen /\ \A r \in Runs : Started(r) => run[r].bytes = frozen
    /\ edits = 1 => source # frozen
    /\ edits <= 1 => \A r \in Runs : At(r, "evaluate") => run[r].bytes = frozen

IInv == TypeOK /\ RunsGood /\ LedgerOK /\ PassIsRegistered /\ FreezeOK

-----------------------------------------------------------------------------
Own(r) == Execute(r) \/ Errors(r)

(* A step of a run writes one record.                                      *)
Became(r, rec) == run' = [run EXCEPT ![r] = rec]
LEMMA BecameFacts ==
  ASSUME TypeOK, NEW r \in Runs, NEW rec \in Records, Became(r, rec)
  PROVE  /\ run' \in [Runs -> Records \union {None}] /\ run'[r] = rec
         /\ \A q \in Runs : q # r => run'[q] = run[q]
  BY DEF TypeOK, Became

LEMMA RecordFacts ==
  ASSUME RunConstants, TypeOK, NEW r \in Runs, Started(r)
  PROVE  /\ run[r] \in Records /\ run[r].receipt \in Receipts
         /\ run[r].disk # None => run[r].disk \in Receipts
  BY DEF TypeOK, Started, Records

(* The records a run's step can leave.                                     *)
LEMMA StartRecord ==
  ASSUME RunConstants, TypeOK, NEW r \in Runs, Start(r)
  PROVE  \E rec \in Records : Became(r, rec) /\ rec.step = "preflight" /\ rec.bytes = source /\ Fresh(rec)
                              /\ rec.preflight = FALSE /\ rec.receipt = NewReceipt
<1> DEFINE rec == [step |-> "preflight", bytes |-> source, preflight |-> FALSE, outcome |-> "PASS",
        opened |-> {}, closed |-> {}, outputs |-> [s \in Streams |-> {}],
        receipt |-> NewReceipt, disk |-> None, stderr |-> 0, todo |-> << >>]
<1>1. NewReceipt \in Receipts
  BY DEF NewReceipt, Receipts, Everyday, Statuses
<1>2. source \in Contents /\ [s \in Streams |-> {}] \in [Streams -> SUBSET {"whole", "partial"}]
  BY DEF Start, TypeOK
<1>3. << >> \in Seq({"mark", "stderr", "receipt"})
  OBVIOUS
<1>4. rec \in Records
  BY <1>1, <1>2, <1>3 DEF Records, Steps, Statuses
<1>5. Became(r, rec)
  BY DEF Start, Became
<1>6. Fresh(rec)
  BY DEF Fresh, NewReceipt
<1> QED
  BY <1>4, <1>5, <1>6

(* verify_run accepts a sealed record of a run whose preflight passed.     *)
Verifies(v) ==
  LET passed == v.disk.status = "PASS"
      Name(s) == IF passed /\ s \in v.closed THEN "whole" ELSE "partial"
  IN /\ v.disk # None
     /\ v.disk.profile = Profile(v.bytes)
     /\ v.bytes \in Unparsable => ~passed
     /\ IF v.disk.profile.mad
        THEN v.disk.capture \in (IF passed THEN {"complete"} ELSE {"none", "refused", "partial"})
        ELSE v.disk.capture = "none"
     /\ IF v.disk.profile.paranoid
        THEN v.disk.postflight # "none" /\ (passed => v.disk.postflight = "same")
        ELSE v.disk.postflight = "none"
     /\ v.disk.stderr = v.stderr
     /\ \A s \in v.opened : v.disk.listed[s] = Name(s) /\ Name(s) \in v.outputs[s]
     /\ passed => v.closed = v.opened
Complete(v) ==
  /\ v.disk = v.receipt /\ v.receipt.stderr = v.stderr
  /\ Mode(v, Sealed(v)) /\ Captured(v) /\ Post(v, Sealed(v))
LEMMA CompleteVerifies ==
  ASSUME RunConstants, NEW v \in Records, Complete(v), Names(v, Sealed(v)), v.preflight = TRUE
  PROVE  Verifies(v)
<1>1. v.receipt \in Receipts /\ v.opened \subseteq Streams
  BY DEF Records
<1>2. v.receipt.profile.mad \in BOOLEAN /\ v.receipt.profile.paranoid \in BOOLEAN /\ v.receipt # None
  BY <1>1 DEF Receipts, RunConstants
<1>3. \A s \in v.opened : v.receipt.listed[s] = StreamName(v, s, Sealed(v)) /\ StreamName(v, s, Sealed(v)) \in v.outputs[s]
  BY <1>1 DEF Names
<1>4. v.receipt.profile = Profile(v.bytes)
  BY DEF Complete, Mode
<1> QED
  BY <1>2, <1>3, <1>4 DEF Verifies, Complete, Mode, Captured, Post, Sealed, StreamName

LEMMA CompletePartial ==
  ASSUME NEW v, Complete(v), Names(v, Sealed(v)), v.disk.status # "PASS"
  PROVE  NoWhole(v)
  BY DEF Complete, Names, StreamName, Sealed, NoWhole

(* What a run's step has to leave, by the step that the run is then at.    *)
Moved(r) ==
  /\ run' \in [Runs -> Records \union {None}] /\ \A q \in Runs : q # r => run'[q] = run[q]
  /\ run'[r] # None /\ Good(r)' /\ (Started(r) => run'[r].bytes = run[r].bytes)
LEMMA MovedTo ==
  ASSUME RunConstants, TypeOK, NEW r \in Runs, NEW rec \in Records, Became(r, rec), Started(r) => rec.bytes = run[r].bytes
  PROVE  /\ rec.step \in {"preflight", "parse"} /\ Fresh(rec) /\ rec.receipt.profile = Everyday => Moved(r)
         /\ rec.step \in {"gate", "evaluate"} /\ Fresh(rec) /\ rec.preflight = TRUE /\ rec.receipt.profile = Profile(rec.bytes)
            /\ rec.bytes \notin Unparsable => Moved(r)
         /\ rec.step = "observe" /\ Unwritten(rec) /\ Mode(rec, Out(rec)) /\ Due(rec) /\ Unlisted(rec)
            /\ rec.receipt.postflight = "none" => Moved(r)
         /\ rec.step = "publish" /\ Unwritten(rec) /\ Mode(rec, Out(rec)) /\ Due(rec) /\ Unlisted(rec) /\ Post(rec, Out(rec)) => Moved(r)
         /\ rec.step = "decide" /\ Unwritten(rec) /\ Mode(rec, Out(rec)) /\ Due(rec) /\ Post(rec, Out(rec))
            /\ (Published' => Names(rec, Out(rec))) => Moved(r)
         /\ rec.step = "write" /\ Unwritten(rec) /\ Mode(rec, Sealed(rec)) /\ Captured(rec) /\ Post(rec, Sealed(rec))
            /\ (Published' => Names(rec, Sealed(rec))) => Moved(r)
         /\ rec.step \in {"selfcheck", "register", "appending", "done"} /\ Complete(rec)
            /\ (Published' => Names(rec, Sealed(rec))) => Moved(r)
         /\ rec.step = "repair" /\ Mode(rec, Sealed(rec)) /\ Captured(rec) /\ Post(rec, Sealed(rec))
            /\ rec.disk # None /\ rec.disk.status = rec.receipt.status /\ rec.todo \in Marks \union Marked
            /\ (Published' => Names(rec, Sealed(rec) /\ rec.todo \in Marks)) => Moved(r)
         /\ rec.step = "dead" /\ (rec.disk # None /\ rec.disk.status # "PASS" /\ Published' => NoWhole(rec)) => Moved(r)
<1>1. rec # None
  BY DEF RunConstants
<1>2. run' \in [Runs -> Records \union {None}] /\ run'[r] = rec /\ \A q \in Runs : q # r => run'[q] = run[q]
  BY BecameFacts
<1>3. Good(r)' => Moved(r)
  BY <1>1, <1>2 DEF Moved
<1>4. Verify(r)' <=> Verifies(rec)
  BY <1>2 DEF Verify, Verifies
<1>5. ASSUME rec.step = "done", Complete(rec), Published' => Names(rec, Sealed(rec))
      PROVE  Moved(r)
  <2>1. rec.disk # None
    BY <1>5 DEF Complete, Records, RunConstants
  <2>2. Published' /\ rec.preflight = TRUE => Verify(r)'
    BY <1>4, <1>5, CompleteVerifies
  <2>3. rec.disk.status # "PASS" /\ Published' => NoWhole(rec)
    BY <1>5, CompletePartial
  <2> QED
    BY <1>2, <1>3, <1>5, <2>1, <2>2, <2>3 DEF Good, Beginning, Parsed, Evaluated, Decided, Repaired, Closed
<1> QED
  BY <1>2, <1>3, <1>5 DEF Good, Beginning, Parsed, Evaluated, Decided, Repaired, Closed, Complete

LEMMA PreflightGood ==
  ASSUME RunConstants, TypeOK, NEW r \in Runs, Good(r), Preflight(r)
  PROVE  Moved(r)
<1> DEFINE v == run[r]
<1>1. v \in Records /\ v.receipt \in Receipts /\ v.step = "preflight" /\ Started(r)
  BY RecordFacts DEF Preflight, At
<1>2. PICK verdict \in BOOLEAN : run' = [run EXCEPT ![r].step = "parse", ![r].preflight = verdict]
  BY DEF Preflight, AuditVerdicts
<1> DEFINE rec == [v EXCEPT !.step = "parse", !.preflight = verdict]
<1>3. rec \in Records /\ Became(r, rec)
  BY <1>1, <1>2 DEF Records, Steps, Became, TypeOK
<1>4. rec.step = "parse" /\ rec.bytes = v.bytes /\ Fresh(rec) /\ rec.receipt.profile = Everyday
  BY <1>1 DEF Records, Good, Beginning, Fresh
<1> HIDE DEF rec
<1> QED
  BY <1>3, <1>4, MovedTo

(* The steps that end in a failure before the receipt is begun.            *)
LEMMA FailedGood ==
  ASSUME RunConstants, TypeOK, NEW r \in Runs, Started(r), NEW status \in Statuses \ {"PASS"}, Fail(r, "observe", status),
         Unwritten(run[r]), Mode(run[r], FALSE), Unlisted(run[r]), run[r].receipt.postflight = "none",
         IF run[r].receipt.profile.mad = TRUE THEN run[r].receipt.capture \in {"none", "due"} ELSE run[r].receipt.capture = "none"
  PROVE  Moved(r)
<1> DEFINE v == run[r]
           rec == [v EXCEPT !.step = "observe", !.outcome = status]
<1>1. v \in Records /\ v.receipt \in Receipts
  BY RecordFacts
<1>2. rec \in Records /\ Became(r, rec)
  BY <1>1 DEF Records, Steps, Statuses, Became, TypeOK, Fail
<1>3. rec.step = "observe" /\ rec.bytes = v.bytes /\ Unwritten(rec) /\ Mode(rec, Out(rec)) /\ Due(rec) /\ Unlisted(rec) /\ rec.receipt.postflight = "none"
  BY <1>1 DEF Records, Unwritten, Mode, Due, Unlisted, Out
<1> HIDE DEF rec
<1> QED
  BY <1>2, <1>3, MovedTo

LEMMA FreshFacts ==
  ASSUME NEW v, Fresh(v)
  PROVE  /\ Unwritten(v) /\ Unlisted(v) /\ v.receipt.postflight = "none"
         /\ v.receipt.capture = "none" /\ v.outcome = "PASS" /\ v.closed = v.opened
  BY DEF Fresh, Unwritten, Unlisted

LEMMA EarlyFailuresGood ==
  ASSUME RunConstants, TypeOK, NEW r \in Runs, Good(r), RefuseLedger(r) \/ ParseError(r) \/ EvidenceFails(r)
  PROVE  Moved(r)
<1> DEFINE v == run[r]
<1>1. v \in Records /\ v.receipt \in Receipts /\ Started(r) /\ v.preflight \in BOOLEAN
  BY RecordFacts DEF RefuseLedger, ParseError, EvidenceFails, At, Records
<1>2. CASE RefuseLedger(r)
  <2>1. Fresh(v) /\ v.preflight = FALSE
    BY <1>1, <1>2 DEF RefuseLedger, At, Good, Beginning
  <2> QED
    BY <1>1, <1>2, <2>1, FreshFacts, FailedGood DEF RefuseLedger, Mode, Statuses
<1>3. CASE ParseError(r)
  <2>1. Fresh(v) /\ v.receipt.profile = Everyday /\ v.bytes \in Unparsable
    BY <1>1, <1>3 DEF ParseError, At, Good, Beginning
  <2>2. Everyday = Profile(v.bytes)
    <3>1. v.bytes \notin Paranoid /\ v.bytes \notin Mad
      BY <2>1 DEF RunConstants
    <3>2. (v.bytes \in Paranoid) = FALSE /\ (v.bytes \in Mad) = FALSE
      BY <3>1, SMT
    <3> QED
      BY <3>2 DEF Everyday, Profile
  <2> QED
    BY <1>1, <1>3, <2>1, <2>2, FreshFacts, FailedGood DEF ParseError, Mode, Statuses
<1>4. CASE EvidenceFails(r)
  <2>1. Unwritten(v) /\ Mode(v, Out(v)) /\ Due(v) /\ Unlisted(v) /\ v.receipt.postflight = "none"
    BY <1>1, <1>4 DEF EvidenceFails, At, Good, Evaluated
  <2> QED
    BY <1>1, <1>4, <2>1, FailedGood DEF EvidenceFails, Mode, Due, Statuses
<1> QED
  BY <1>2, <1>3, <1>4

LEMMA ParseGood ==
  ASSUME RunConstants, TypeOK, NEW r \in Runs, Good(r), Parse(r)
  PROVE  Moved(r)
<1> DEFINE v == run[r]
           receipt == [v.receipt EXCEPT !.profile = Profile(v.bytes)]
           rec == [v EXCEPT !.step = "gate", !.receipt = receipt]
<1>1. v \in Records /\ v.receipt \in Receipts /\ Started(r)
  BY RecordFacts DEF Parse, At
<1>2. v.step = "parse" /\ v.preflight = TRUE /\ v.bytes \notin Unparsable
  BY <1>1 DEF Parse, At, Records
<1>3. Profile(v.bytes) \in [paranoid : BOOLEAN, mad : BOOLEAN]
  BY DEF Profile
<1>4. receipt \in Receipts
  BY <1>1, <1>3 DEF Receipts
<1>5. rec \in Records
  BY <1>1, <1>4 DEF Records, Steps
<1>6. Became(r, rec)
  BY <1>1 DEF Records, Became, TypeOK, Parse
<1>7. Fresh(v)
  BY <1>2 DEF Good, Beginning
<1>8. rec.step = "gate" /\ rec.bytes = v.bytes /\ Fresh(rec) /\ rec.preflight = TRUE /\ rec.receipt.profile = Profile(v.bytes)
  BY <1>1, <1>2, <1>7 DEF Records, Receipts, Fresh
<1> HIDE DEF rec
<1> QED
  BY <1>2, <1>5, <1>6, <1>8, MovedTo

LEMMA GateGood ==
  ASSUME RunConstants, TypeOK, NEW r \in Runs, Good(r), Gate(r)
  PROVE  Moved(r)
<1> DEFINE v == run[r]
           rec == [v EXCEPT !.step = "evaluate"]
<1>1. v \in Records /\ v.receipt \in Receipts /\ Started(r) /\ v.step = "gate"
  BY RecordFacts DEF Gate, At
<1>2. Fresh(v) /\ v.preflight = TRUE /\ v.receipt.profile = Profile(v.bytes) /\ v.bytes \notin Unparsable
  BY <1>1 DEF Good, Parsed
<1>3. CASE Go(r, "evaluate")
  <2>1. rec \in Records /\ Became(r, rec)
    BY <1>1, <1>3 DEF Records, Steps, Became, TypeOK, Go
  <2>2. rec.step = "evaluate" /\ rec.bytes = v.bytes /\ Fresh(rec) /\ rec.preflight = TRUE /\ rec.receipt.profile = Profile(rec.bytes)
    BY <1>1, <1>2 DEF Records, Fresh
  <2> HIDE DEF rec
  <2> QED
    BY <1>2, <2>1, <2>2, MovedTo
<1>4. CASE Fail(r, "observe", "PROTOCOL_VIOLATION")
  BY <1>1, <1>2, <1>4, FreshFacts, FailedGood DEF Mode, Statuses
<1> QED
  BY <1>3, <1>4 DEF Gate

LEMMA EvaluateGood ==
  ASSUME RunConstants, TypeOK, NEW r \in Runs, Good(r), Evaluate(r)
  PROVE  Moved(r)
<1> DEFINE v == run[r]
<1>1. v \in Records /\ v.receipt \in Receipts /\ Started(r) /\ v.step = "evaluate"
  BY RecordFacts DEF Evaluate, At
<1>2. Fresh(v) /\ v.preflight = TRUE /\ v.receipt.profile = Profile(v.bytes) /\ v.bytes \notin Unparsable
  BY <1>1 DEF Good, Parsed
<1>a. PICK opened \in SUBSET Streams : \E closed \in SUBSET opened :
      \E outcome \in (IF closed = opened THEN {"PASS"} ELSE {}) \union {"MACHINERY_FAIL"} :
        run' = [run EXCEPT ![r].step = "observe", ![r].opened = opened, ![r].closed = closed,
                          ![r].outcome = outcome, ![r].receipt.capture =
                            IF run[r].receipt.profile.mad THEN "due" ELSE "none"]
  BY Zenon DEF Evaluate
<1>b. PICK closed \in SUBSET opened :
      \E outcome \in (IF closed = opened THEN {"PASS"} ELSE {}) \union {"MACHINERY_FAIL"} :
        run' = [run EXCEPT ![r].step = "observe", ![r].opened = opened, ![r].closed = closed,
                          ![r].outcome = outcome, ![r].receipt.capture =
                            IF run[r].receipt.profile.mad THEN "due" ELSE "none"]
  BY <1>a, Zenon
<1>c. PICK outcome \in (IF closed = opened THEN {"PASS"} ELSE {}) \union {"MACHINERY_FAIL"} :
        run' = [run EXCEPT ![r].step = "observe", ![r].opened = opened, ![r].closed = closed,
                          ![r].outcome = outcome, ![r].receipt.capture =
                            IF run[r].receipt.profile.mad THEN "due" ELSE "none"]
  BY <1>b, Zenon
<1>3. outcome \in {"PASS", "MACHINERY_FAIL"} /\ (outcome = "PASS" => closed = opened)
  BY <1>c
<1> DEFINE capture == IF v.receipt.profile.mad THEN "due" ELSE "none"
           receipt == [v.receipt EXCEPT !.capture = capture]
           rec == [v EXCEPT !.step = "observe", !.opened = opened, !.closed = closed, !.outcome = outcome, !.receipt = receipt]
<1>4. receipt \in Receipts
  BY <1>1 DEF Receipts
<1>5. rec \in Records
  BY <1>1, <1>3, <1>4, <1>a, <1>b DEF Records, Steps, Statuses
<1>6. Became(r, rec)
  BY <1>1, <1>c DEF Records, Became, TypeOK
<1>7. /\ rec.step = "observe" /\ rec.bytes = v.bytes /\ rec.preflight = v.preflight /\ rec.outputs = v.outputs
      /\ rec.disk = v.disk /\ rec.stderr = v.stderr /\ rec.outcome = outcome /\ rec.opened = opened /\ rec.closed = closed
      /\ rec.receipt.profile = v.receipt.profile /\ rec.receipt.postflight = v.receipt.postflight
      /\ rec.receipt.listed = v.receipt.listed /\ rec.receipt.capture = capture
      /\ v.receipt.profile.mad \in BOOLEAN
  BY <1>1 DEF Records, Receipts
<1> HIDE DEF rec
<1>8. Unwritten(rec) /\ Unlisted(rec) /\ rec.receipt.postflight = "none"
  BY <1>2, <1>7 DEF Fresh, Unwritten, Unlisted
<1>9. Mode(rec, Out(rec)) /\ Due(rec)
  BY <1>2, <1>3, <1>7 DEF Mode, Due, Out
<1> QED
  BY <1>5, <1>6, <1>7, <1>8, <1>9, MovedTo

(* observe_paranoid_source, whether or not it can read the source.         *)
LEMMA ObservedGood ==
  ASSUME RunConstants, TypeOK, NEW r \in Runs, Good(r), At(r, "observe"),
         NEW postflight \in {"none", "unavailable", "same", "changed"}, NEW outcome \in Statuses,
         run' = [run EXCEPT ![r].step = "publish", ![r].receipt.postflight = postflight, ![r].outcome = outcome],
         postflight = "none" <=> run[r].receipt.profile.paranoid = FALSE,
         outcome = "PASS" => run[r].outcome = "PASS" /\ postflight \in {"none", "same"}
  PROVE  Moved(r)
<1> DEFINE v == run[r]
           receipt == [v.receipt EXCEPT !.postflight = postflight]
           rec == [v EXCEPT !.step = "publish", !.receipt = receipt, !.outcome = outcome]
<1>1. v \in Records /\ v.receipt \in Receipts /\ v.step = "observe" /\ Started(r) /\ v.receipt.profile.paranoid \in BOOLEAN
  BY RecordFacts DEF At, Receipts
<1>2. Unwritten(v) /\ Mode(v, Out(v)) /\ Due(v) /\ Unlisted(v) /\ v.receipt.postflight = "none"
  BY <1>1 DEF Good, Evaluated
<1>3. receipt \in Receipts
  BY <1>1 DEF Receipts
<1>4. rec \in Records
  BY <1>1, <1>3 DEF Records, Steps
<1>5. Became(r, rec)
  BY <1>1 DEF Became, TypeOK, Records
<1>6. /\ rec.step = "publish" /\ rec.bytes = v.bytes /\ rec.preflight = v.preflight /\ rec.opened = v.opened /\ rec.closed = v.closed
      /\ rec.outputs = v.outputs /\ rec.disk = v.disk /\ rec.stderr = v.stderr /\ rec.outcome = outcome
      /\ rec.receipt.profile = v.receipt.profile /\ rec.receipt.postflight = postflight
      /\ rec.receipt.capture = v.receipt.capture /\ rec.receipt.listed = v.receipt.listed
  BY <1>1 DEF Records, Receipts
<1> HIDE DEF rec
<1>7. Unwritten(rec) /\ Mode(rec, Out(rec)) /\ Due(rec) /\ Unlisted(rec) /\ Post(rec, Out(rec))
  BY <1>1, <1>2, <1>6 DEF Unwritten, Mode, Due, Unlisted, Post, Out
<1> QED
  BY <1>4, <1>5, <1>6, <1>7, MovedTo

LEMMA ObserveGood ==
  ASSUME RunConstants, TypeOK, NEW r \in Runs, Good(r), Observe(r) \/ ObserveFails(r)
  PROVE  Moved(r)
<1>1. At(r, "observe") /\ run[r] \in Records /\ run[r].receipt \in Receipts
  BY RecordFacts DEF Observe, ObserveFails, At
<1>2. run[r].receipt.profile.paranoid \in BOOLEAN /\ run[r].outcome \in Statuses
  BY <1>1 DEF Receipts, Records
<1>3. CASE Observe(r)
  <2> DEFINE postflight == IF ~run[r].receipt.profile.paranoid THEN "none"
                           ELSE IF source = None THEN "unavailable"
                           ELSE IF source = run[r].bytes THEN "same" ELSE "changed"
             outcome == IF postflight \in {"none", "same"} THEN run[r].outcome ELSE "PROTOCOL_VIOLATION"
  <2>1. postflight \in {"none", "unavailable", "same", "changed"} /\ outcome \in Statuses
    BY <1>2 DEF Statuses
  <2>2. run' = [run EXCEPT ![r].step = "publish", ![r].receipt.postflight = postflight, ![r].outcome = outcome]
    BY <1>1, <1>3 DEF Observe, TypeOK, Records
  <2>3. /\ postflight = "none" <=> run[r].receipt.profile.paranoid = FALSE
        /\ outcome = "PASS" => run[r].outcome = "PASS" /\ postflight \in {"none", "same"}
    BY <1>2
  <2> HIDE DEF postflight, outcome
  <2> QED
    BY <1>1, <2>1, <2>2, <2>3, ObservedGood
<1>4. CASE ObserveFails(r)
  <2>1. run[r].receipt.profile.paranoid # FALSE
    BY <1>2, <1>4 DEF ObserveFails
  <2> QED
    BY <1>1, <1>4, <2>1, ObservedGood DEF ObserveFails, Statuses
<1> QED
  BY <1>3, <1>4

LEMMA PublishGood ==
  ASSUME RunConstants, TypeOK, NEW r \in Runs, Good(r), Publish(r)
  PROVE  Moved(r)
<1> DEFINE v == run[r]
           Name(s) == IF v.outcome = "PASS" /\ s \in v.closed THEN "whole" ELSE "partial"
           outputs == [s \in Streams |-> IF s \in v.opened THEN {Name(s)} ELSE {}]
           listed == [s \in Streams |-> IF s \in v.opened THEN Name(s) ELSE "none"]
           receipt == [v.receipt EXCEPT !.listed = listed]
           rec == [v EXCEPT !.step = "decide", !.outputs = outputs, !.receipt = receipt]
<1>1. v \in Records /\ v.receipt \in Receipts /\ v.step = "publish" /\ Started(r)
  BY RecordFacts DEF Publish, At
<1>2. Unwritten(v) /\ Mode(v, Out(v)) /\ Due(v) /\ Post(v, Out(v))
  BY <1>1 DEF Good, Evaluated
<1>3. receipt \in Receipts
  BY <1>1 DEF Receipts
<1>4. rec \in Records
  <2>1. outputs \in [Streams -> SUBSET {"whole", "partial"}]
    OBVIOUS
  <2> HIDE DEF outputs, receipt
  <2> QED
    BY <1>1, <1>3, <2>1 DEF Records, Steps
<1>5. Became(r, rec)
  BY <1>1 DEF Became, TypeOK, Records, Publish
<1>6. /\ rec.step = "decide" /\ rec.bytes = v.bytes /\ rec.preflight = v.preflight /\ rec.opened = v.opened /\ rec.closed = v.closed
      /\ rec.outputs = outputs /\ rec.disk = v.disk /\ rec.stderr = v.stderr /\ rec.outcome = v.outcome
      /\ rec.receipt.profile = v.receipt.profile /\ rec.receipt.postflight = v.receipt.postflight
      /\ rec.receipt.capture = v.receipt.capture /\ rec.receipt.listed = listed
  BY <1>1 DEF Records, Receipts
<1> HIDE DEF rec
<1>7. Unwritten(rec) /\ Mode(rec, Out(rec)) /\ Due(rec) /\ Post(rec, Out(rec))
  BY <1>1, <1>2, <1>6 DEF Unwritten, Mode, Due, Post, Out
<1>8. Names(rec, Out(rec))
  BY <1>6 DEF Names, StreamName, Out
<1> QED
  BY <1>4, <1>5, <1>6, <1>7, <1>8, MovedTo

LEMMA PublishFailsGood ==
  ASSUME RunConstants, TypeOK, NEW r \in Runs, Good(r), PublishFails(r)
  PROVE  Moved(r)
<1> DEFINE v == run[r]
           Name(s) == IF v.outcome = "PASS" /\ s \in v.closed THEN "whole" ELSE "partial"
<1>1. v \in Records /\ v.receipt \in Receipts /\ v.step = "publish" /\ Started(r)
  BY RecordFacts DEF PublishFails, At
<1>2. Unwritten(v) /\ Mode(v, Out(v)) /\ Due(v) /\ Post(v, Out(v))
  BY <1>1 DEF Good, Evaluated
<1>3. PICK copied \in SUBSET v.opened :
        run' = [run EXCEPT ![r].step = "decide", ![r].outcome = "MACHINERY_FAIL",
                           ![r].outputs = [s \in Streams |-> IF s \in copied THEN {Name(s)} ELSE {}]]
  BY DEF PublishFails
<1> DEFINE outputs == [s \in Streams |-> IF s \in copied THEN {Name(s)} ELSE {}]
           rec == [v EXCEPT !.step = "decide", !.outcome = "MACHINERY_FAIL", !.outputs = outputs]
<1>4. rec \in Records
  <2>1. outputs \in [Streams -> SUBSET {"whole", "partial"}]
    OBVIOUS
  <2> HIDE DEF outputs
  <2> QED
    BY <1>1, <2>1 DEF Records, Steps, Statuses
<1>5. Became(r, rec)
  BY <1>1, <1>3 DEF Became, TypeOK, Records
<1>6. /\ rec.step = "decide" /\ rec.bytes = v.bytes /\ rec.preflight = v.preflight /\ rec.opened = v.opened /\ rec.closed = v.closed
      /\ rec.disk = v.disk /\ rec.stderr = v.stderr /\ rec.outcome = "MACHINERY_FAIL" /\ rec.receipt = v.receipt
  BY <1>1 DEF Records, Receipts
<1> HIDE DEF rec
<1>7. Unwritten(rec) /\ Mode(rec, Out(rec)) /\ Due(rec) /\ Post(rec, Out(rec))
  BY <1>1, <1>2, <1>6 DEF Unwritten, Mode, Due, Post, Out
<1>8. ~Published'
  BY DEF Published, PublishFails
<1> QED
  BY <1>4, <1>5, <1>6, <1>7, <1>8, MovedTo

(* The status, which is the outcome, and the capture of the final state.   *)
LEMMA DecideGood ==
  ASSUME RunConstants, TypeOK, NEW r \in Runs, Good(r), Decide(r)
  PROVE  Moved(r)
<1> DEFINE v == run[r]
           capture == IF v.receipt.capture # "due" THEN v.receipt.capture ELSE IF v.outcome = "PASS" THEN "complete" ELSE "partial"
           receipt == [v.receipt EXCEPT !.status = v.outcome, !.capture = capture]
           rec == [v EXCEPT !.step = "write", !.receipt = receipt]
<1>1. v \in Records /\ v.receipt \in Receipts /\ v.step = "decide" /\ Started(r)
  BY RecordFacts DEF Decide, At
<1>2. Unwritten(v) /\ Mode(v, Out(v)) /\ Due(v) /\ Post(v, Out(v)) /\ (Published => Names(v, Out(v)))
  BY <1>1 DEF Good, Evaluated
<1>3. receipt \in Receipts
  BY <1>1 DEF Receipts, Records
<1>4. rec \in Records
  BY <1>1, <1>3 DEF Records, Steps
<1>5. Became(r, rec)
  BY <1>1 DEF Became, TypeOK, Records, Decide
<1>6. /\ rec.step = "write" /\ rec.bytes = v.bytes /\ rec.preflight = v.preflight /\ rec.opened = v.opened /\ rec.closed = v.closed
      /\ rec.outputs = v.outputs /\ rec.disk = v.disk /\ rec.stderr = v.stderr
      /\ rec.receipt.status = v.outcome
      /\ rec.receipt.profile = v.receipt.profile /\ rec.receipt.postflight = v.receipt.postflight
      /\ rec.receipt.capture = capture /\ rec.receipt.listed = v.receipt.listed
  BY <1>1 DEF Records, Receipts
<1> HIDE DEF rec
<1>7. Unwritten(rec) /\ Mode(rec, Sealed(rec)) /\ Post(rec, Sealed(rec))
  BY <1>1, <1>2, <1>6 DEF Unwritten, Mode, Post, Out, Sealed
<1>8. Captured(rec)
  BY <1>2, <1>6 DEF Due, Captured, Out, Sealed
<1>9. Published' => Names(rec, Sealed(rec))
  BY <1>2, <1>6 DEF Published, Decide, shared, Names, StreamName, Out, Sealed
<1> QED
  BY <1>4, <1>5, <1>6, <1>7, <1>8, <1>9, MovedTo

(* mark_incomplete leaves no complete stream and lists none.               *)
LEMMA MarkedNames ==
  ASSUME NEW v, NEW rec, NEW passed \in BOOLEAN, Names(v, passed), rec.opened = v.opened,
         rec.receipt.listed = Partials(v.receipt.listed), rec.outputs = Incomplete(v.outputs, v.receipt.listed)
  PROVE  Names(rec, FALSE)
  BY DEF Names, StreamName, Partials, Incomplete

LEMMA MarkedTypes ==
  ASSUME NEW listed \in [Streams -> {"none", "whole", "partial"}], NEW outputs \in [Streams -> SUBSET {"whole", "partial"}]
  PROVE  /\ Partials(listed) \in [Streams -> {"none", "whole", "partial"}]
         /\ Incomplete(outputs, listed) \in [Streams -> SUBSET {"whole", "partial"}]
  BY DEF Partials, Incomplete

LEMMA CaptureRefusedGood ==
  ASSUME RunConstants, TypeOK, NEW r \in Runs, Good(r), CaptureRefused(r)
  PROVE  Moved(r)
<1> DEFINE v == run[r]
           listed == Partials(v.receipt.listed)
           outputs == Incomplete(v.outputs, v.receipt.listed)
           receipt == [v.receipt EXCEPT !.status = "MACHINERY_FAIL", !.capture = "refused", !.listed = listed]
           rec == [v EXCEPT !.step = "write", !.outcome = "MACHINERY_FAIL", !.receipt = receipt, !.outputs = outputs]
<1>1. v \in Records /\ v.receipt \in Receipts /\ v.step = "decide" /\ v.receipt.capture = "due" /\ Started(r)
  BY RecordFacts DEF CaptureRefused, At
<1>2. Unwritten(v) /\ Mode(v, Out(v)) /\ Due(v) /\ Post(v, Out(v)) /\ (Published => Names(v, Out(v)))
  BY <1>1 DEF Good, Evaluated
<1>3. listed \in [Streams -> {"none", "whole", "partial"}] /\ outputs \in [Streams -> SUBSET {"whole", "partial"}]
  BY <1>1, MarkedTypes DEF Records, Receipts
<1>b. run' = [run EXCEPT ![r].step = "write", ![r].outcome = "MACHINERY_FAIL", ![r].receipt = receipt, ![r].outputs = outputs]
  BY <1>1 DEF TypeOK, Records, CaptureRefused
<1> HIDE DEF listed, outputs
<1>5. Became(r, rec)
  BY <1>1, <1>b DEF Became, TypeOK, Records
<1>a. receipt \in Receipts
  BY <1>1, <1>3 DEF Receipts, Statuses
<1>4. rec \in Records
  BY <1>1, <1>3, <1>a DEF Records, Steps, Statuses
<1>6. /\ rec.step = "write" /\ rec.bytes = v.bytes /\ rec.preflight = v.preflight /\ rec.opened = v.opened /\ rec.closed = v.closed
      /\ rec.outputs = outputs /\ rec.disk = v.disk /\ rec.stderr = v.stderr
      /\ rec.receipt.status = "MACHINERY_FAIL"
      /\ rec.receipt.profile = v.receipt.profile /\ rec.receipt.postflight = v.receipt.postflight
      /\ rec.receipt.capture = "refused" /\ rec.receipt.listed = listed
  BY <1>1 DEF Records, Receipts
<1> HIDE DEF rec
<1>7. Unwritten(rec) /\ Mode(rec, Sealed(rec)) /\ Post(rec, Sealed(rec)) /\ Captured(rec)
  BY <1>1, <1>2, <1>6 DEF Unwritten, Mode, Post, Sealed, Due, Captured
<1>8. Out(v) \in BOOLEAN /\ Sealed(rec) = FALSE
  BY <1>6 DEF Out, Sealed
<1>9. Published' => Names(rec, Sealed(rec))
  BY <1>2, <1>6, <1>8, MarkedNames DEF Published, CaptureRefused, shared, listed, outputs
<1> QED
  BY <1>4, <1>5, <1>6, <1>7, <1>9, MovedTo

LEMMA WriteGood ==
  ASSUME RunConstants, TypeOK, NEW r \in Runs, Good(r), Write(r)
  PROVE  Moved(r)
<1> DEFINE v == run[r]
           receipt == [v.receipt EXCEPT !.stderr = 1]
           step == IF receipt.profile.paranoid THEN "selfcheck" ELSE IF v.preflight THEN "register" ELSE "done"
           rec == [v EXCEPT !.stderr = 1, !.receipt = receipt, !.disk = receipt, !.step = step]
<1>1. v \in Records /\ v.receipt \in Receipts /\ v.step = "write" /\ Started(r)
  BY RecordFacts DEF Write, At
<1>2. Mode(v, Sealed(v)) /\ Captured(v) /\ Post(v, Sealed(v)) /\ (Published => Names(v, Sealed(v)))
  BY <1>1 DEF Good, Decided
<1>3. receipt \in Receipts
  BY <1>1 DEF Receipts
<1>4. Became(r, rec)
  BY <1>1 DEF Became, TypeOK, Records, Write
<1>5. step \in {"selfcheck", "register", "done"}
  OBVIOUS
<1> HIDE DEF step
<1>6. rec \in Records
  BY <1>1, <1>3, <1>5 DEF Records, Steps
<1>7. /\ rec.step = step /\ rec.bytes = v.bytes /\ rec.preflight = v.preflight /\ rec.opened = v.opened /\ rec.closed = v.closed
      /\ rec.outputs = v.outputs /\ rec.disk = rec.receipt /\ rec.stderr = 1 /\ rec.receipt.stderr = 1
      /\ rec.receipt.status = v.receipt.status /\ rec.receipt.profile = v.receipt.profile
      /\ rec.receipt.postflight = v.receipt.postflight /\ rec.receipt.capture = v.receipt.capture
      /\ rec.receipt.listed = v.receipt.listed
  BY <1>1 DEF Records, Receipts
<1> HIDE DEF rec
<1>8. Complete(rec)
  BY <1>2, <1>7 DEF Complete, Mode, Captured, Post, Sealed
<1>9. Published' => Names(rec, Sealed(rec))
  BY <1>2, <1>7 DEF Published, Write, shared, Names, StreamName, Sealed
<1> QED
  BY <1>4, <1>5, <1>6, <1>7, <1>8, <1>9, MovedTo

(* What is left of a repair after each of its steps.                       *)
Todos == {"mark", "stderr", "receipt"}
LEMMA RepairTodos ==
  /\ SelfCheckRepair \in Seq(Todos) /\ RegistrationRepair \in Seq(Todos)
  /\ SelfCheckRepair \in Marks /\ RegistrationRepair \in Marks
<1>1. \A a, b, c \in Todos : <<a, b, c>> \in Seq(Todos)
  OBVIOUS
<1> QED
  BY <1>1 DEF SelfCheckRepair, RegistrationRepair, Marks, Todos

LEMMA TodoAfter ==
  ASSUME NEW todo \in Marks \union Marked
  PROVE  /\ Head(todo) = "mark" => todo \in Marks /\ Tail(todo) \in Marked /\ Tail(todo) \notin Marks
         /\ Head(todo) = "stderr" => Tail(todo) \in Marks \union Marked /\ (Tail(todo) \in Marks => todo \in Marks)
         /\ Head(todo) = "stderr" => (todo \in Marks => Tail(todo) \in Marks)
         /\ Head(todo) = "receipt" => todo \notin Marks
<1>1. /\ Head(<<"mark", "stderr", "receipt">>) = "mark" /\ Tail(<<"mark", "stderr", "receipt">>) = <<"stderr", "receipt">>
      /\ Head(<<"stderr", "mark", "receipt">>) = "stderr" /\ Tail(<<"stderr", "mark", "receipt">>) = <<"mark", "receipt">>
      /\ Head(<<"mark", "receipt">>) = "mark" /\ Tail(<<"mark", "receipt">>) = <<"receipt">>
      /\ Head(<<"stderr", "receipt">>) = "stderr" /\ Tail(<<"stderr", "receipt">>) = <<"receipt">>
      /\ Head(<<"receipt">>) = "receipt"
  OBVIOUS
<1>2. Marked \intersect Marks = {}
  <2>1. /\ Len(<<"stderr", "receipt">>) = 2 /\ Len(<<"receipt">>) = 1 /\ Len(<<"mark", "receipt">>) = 2
        /\ Len(<<"mark", "stderr", "receipt">>) = 3 /\ Len(<<"stderr", "mark", "receipt">>) = 3
    OBVIOUS
  <2>2. <<"stderr", "receipt">> # <<"mark", "receipt">>
    BY <1>1, Zenon
  <2> QED
    BY <2>1, <2>2, SMT DEF Marks, Marked, SelfCheckRepair, RegistrationRepair
<1>3. CASE todo = <<"mark", "stderr", "receipt">>
  BY <1>1, <1>2, <1>3, Zenon DEF Marks, Marked, SelfCheckRepair, RegistrationRepair
<1>4. CASE todo = <<"stderr", "mark", "receipt">>
  BY <1>1, <1>2, <1>4, Zenon DEF Marks, Marked, SelfCheckRepair, RegistrationRepair
<1>5. CASE todo = <<"mark", "receipt">>
  BY <1>1, <1>2, <1>5, Zenon DEF Marks, Marked, SelfCheckRepair, RegistrationRepair
<1>6. CASE todo = <<"stderr", "receipt">>
  BY <1>1, <1>2, <1>6, Zenon DEF Marks, Marked, SelfCheckRepair, RegistrationRepair
<1>7. CASE todo = <<"receipt">>
  BY <1>1, <1>2, <1>7, Zenon DEF Marks, Marked, SelfCheckRepair, RegistrationRepair
<1> QED
  BY <1>3, <1>4, <1>5, <1>6, <1>7, Zenon DEF Marks, Marked, SelfCheckRepair, RegistrationRepair

(* The steps from the receipt to the registration, and those into repair.  *)
LEMMA SealedGood ==
  ASSUME RunConstants, TypeOK, NEW r \in Runs, Good(r), Started(r),
         run[r].step \in {"selfcheck", "register", "appending"}, UNCHANGED unpublished,
         \/ \E step \in {"register", "appending", "done"} : Go(r, step)
         \/ \E steps \in {SelfCheckRepair, RegistrationRepair} : Repair(r, steps)
  PROVE  Moved(r)
<1> DEFINE v == run[r]
<1>1. v \in Records /\ v.receipt \in Receipts
  BY RecordFacts
<1>2. Complete(v) /\ (Published => Names(v, Sealed(v)))
  BY DEF Good, Decided, Complete
<1>3. CASE \E step \in {"register", "appending", "done"} : Go(r, step)
  <2>1. PICK step \in {"register", "appending", "done"} : Go(r, step)
    BY <1>3
  <2> DEFINE rec == [v EXCEPT !.step = step]
  <2>2. rec \in Records /\ Became(r, rec)
    BY <1>1, <2>1 DEF Records, Steps, Became, TypeOK, Go
  <2>3. /\ rec.step = step /\ rec.bytes = v.bytes /\ rec.preflight = v.preflight /\ rec.opened = v.opened /\ rec.closed = v.closed
        /\ rec.outputs = v.outputs /\ rec.disk = v.disk /\ rec.stderr = v.stderr /\ rec.receipt = v.receipt
    BY <1>1 DEF Records
  <2> HIDE DEF rec
  <2>4. Complete(rec)
    BY <1>2, <2>3 DEF Complete, Mode, Captured, Post, Sealed
  <2>5. Published' => Names(rec, Sealed(rec))
    BY <1>2, <2>3 DEF Published, Names, StreamName, Sealed
  <2> QED
    BY <2>2, <2>3, <2>4, <2>5, MovedTo
<1>4. CASE \E steps \in {SelfCheckRepair, RegistrationRepair} : Repair(r, steps)
  <2>1. PICK steps \in {SelfCheckRepair, RegistrationRepair} : Repair(r, steps)
    BY <1>4
  <2> DEFINE rec == [v EXCEPT !.step = "repair", !.todo = steps]
  <2>2. steps \in Seq({"mark", "stderr", "receipt"}) /\ steps \in Marks
    BY RepairTodos DEF Todos
  <2>3. rec \in Records /\ Became(r, rec)
    BY <1>1, <2>1, <2>2 DEF Records, Steps, Became, TypeOK, Repair
  <2>4. /\ rec.step = "repair" /\ rec.bytes = v.bytes /\ rec.preflight = v.preflight /\ rec.opened = v.opened /\ rec.closed = v.closed
        /\ rec.outputs = v.outputs /\ rec.disk = v.disk /\ rec.stderr = v.stderr /\ rec.receipt = v.receipt /\ rec.todo = steps
    BY <1>1 DEF Records
  <2> HIDE DEF rec
  <2>5. Mode(rec, Sealed(rec)) /\ Captured(rec) /\ Post(rec, Sealed(rec))
    BY <1>2, <2>4 DEF Complete, Mode, Captured, Post, Sealed
  <2>6. rec.disk # None /\ rec.disk.status = rec.receipt.status /\ rec.todo \in Marks \union Marked
    BY <1>1, <1>2, <2>2, <2>4 DEF Complete, RunConstants
  <2>7. Published' => Names(rec, Sealed(rec) /\ rec.todo \in Marks)
    BY <1>2, <2>2, <2>4 DEF Published, Names, StreamName, Sealed
  <2> QED
    BY <2>3, <2>4, <2>5, <2>6, <2>7, MovedTo
<1> QED
  BY <1>3, <1>4

Registering(r) ==
  SelfCheck(r) \/ SelfCheckFails(r) \/ BeginAppend(r) \/ AppendRefused(r) \/ EndAppend(r) \/ AppendFails(r)
LEMMA RegisteringGood ==
  ASSUME RunConstants, TypeOK, NEW r \in Runs, Good(r), Registering(r)
  PROVE  Moved(r)
<1>1. Started(r) /\ run[r].step \in {"selfcheck", "register", "appending"}
  BY DEF Registering, SelfCheck, SelfCheckFails, BeginAppend, AppendRefused, EndAppend, AppendFails, At
<1>2. UNCHANGED unpublished
  BY DEF Registering, SelfCheck, SelfCheckFails, BeginAppend, AppendRefused, EndAppend, AppendFails, shared
<1>3. \/ Go(r, "register") \/ Go(r, "appending") \/ Go(r, "done")
      \/ Repair(r, SelfCheckRepair) \/ Repair(r, RegistrationRepair)
  BY DEF Registering, SelfCheck, SelfCheckFails, BeginAppend, AppendRefused, EndAppend, AppendFails
<1> QED
  BY <1>1, <1>2, <1>3, SealedGood

(* What holds of a run under repair.                                       *)
LEMMA RepairFacts ==
  ASSUME RunConstants, TypeOK, NEW r \in Runs, Good(r), At(r, "repair")
  PROVE  LET v == run[r] IN
         /\ v \in Records /\ v.receipt \in Receipts /\ v.step = "repair" /\ Started(r)
         /\ Mode(v, Sealed(v)) /\ Captured(v) /\ Post(v, Sealed(v)) /\ v.disk # None /\ v.disk.status = v.receipt.status
         /\ v.todo \in Marks \union Marked /\ v.todo \in Seq({"mark", "stderr", "receipt"}) /\ v.todo # << >>
         /\ Published => Names(v, Sealed(v) /\ v.todo \in Marks)
<1> DEFINE v == run[r]
<1>1. v \in Records /\ v.receipt \in Receipts /\ v.step = "repair" /\ Started(r)
  BY RecordFacts DEF At
<1>2. /\ Mode(v, Sealed(v)) /\ Captured(v) /\ Post(v, Sealed(v)) /\ v.disk # None /\ v.disk.status = v.receipt.status
      /\ v.todo \in Marks \union Marked
      /\ Published => Names(v, Sealed(v) /\ v.todo \in Marks)
  BY <1>1 DEF Good, Decided, Repaired
<1>3. v.todo \in Seq({"mark", "stderr", "receipt"})
  BY <1>1 DEF Records
<1>4. v.todo # << >>
  <2>1. /\ Len(<<"stderr", "receipt">>) # 0 /\ Len(<<"receipt">>) # 0 /\ Len(<<"mark", "receipt">>) # 0
        /\ Len(<<"mark", "stderr", "receipt">>) # 0 /\ Len(<<"stderr", "mark", "receipt">>) # 0 /\ Len(<< >>) = 0
    OBVIOUS
  <2> QED
    BY <1>2, <2>1, SMT DEF Marks, Marked, SelfCheckRepair, RegistrationRepair
<1> QED
  BY <1>1, <1>2, <1>3, <1>4

LEMMA MarkIncompleteGood ==
  ASSUME RunConstants, TypeOK, NEW r \in Runs, Good(r), MarkIncomplete(r)
  PROVE  Moved(r)
<1> DEFINE v == run[r]
           listed == Partials(v.receipt.listed)
           outputs == Incomplete(v.outputs, v.receipt.listed)
           rest == Tail(v.todo)
           receipt == [v.receipt EXCEPT !.listed = listed]
           rec == [v EXCEPT !.todo = rest, !.receipt = receipt, !.outputs = outputs]
<1>1. At(r, "repair") /\ Head(v.todo) = "mark"
  BY DEF MarkIncomplete, RepairStep
<1>2. /\ v \in Records /\ v.receipt \in Receipts /\ v.step = "repair" /\ Started(r)
      /\ Mode(v, Sealed(v)) /\ Captured(v) /\ Post(v, Sealed(v)) /\ v.disk # None /\ v.disk.status = v.receipt.status
      /\ v.todo \in Marks \union Marked /\ v.todo \in Seq({"mark", "stderr", "receipt"}) /\ v.todo # << >>
      /\ Published => Names(v, Sealed(v) /\ v.todo \in Marks)
  BY <1>1, RepairFacts
<1>3. rest \in Marked /\ rest \notin Marks /\ v.todo \in Marks
  BY <1>1, <1>2, TodoAfter
<1>4. rest \in Seq({"mark", "stderr", "receipt"})
  BY <1>2
<1>5. listed \in [Streams -> {"none", "whole", "partial"}] /\ outputs \in [Streams -> SUBSET {"whole", "partial"}]
  BY <1>2, MarkedTypes DEF Records, Receipts
<1>6. run' = [run EXCEPT ![r].todo = rest, ![r].receipt.listed = listed, ![r].outputs = outputs]
  BY <1>2 DEF TypeOK, Records, Receipts, MarkIncomplete, Rest
<1> HIDE DEF listed, outputs, rest
<1>7. receipt \in Receipts
  BY <1>2, <1>5 DEF Receipts
<1>8. rec \in Records /\ Became(r, rec)
  BY <1>2, <1>4, <1>5, <1>6, <1>7 DEF Records, Became, TypeOK
<1>9. /\ rec.step = "repair" /\ rec.bytes = v.bytes /\ rec.preflight = v.preflight /\ rec.opened = v.opened /\ rec.closed = v.closed
      /\ rec.outputs = outputs /\ rec.disk = v.disk /\ rec.stderr = v.stderr /\ rec.todo = rest
      /\ rec.receipt.status = v.receipt.status /\ rec.receipt.profile = v.receipt.profile
      /\ rec.receipt.postflight = v.receipt.postflight /\ rec.receipt.capture = v.receipt.capture
      /\ rec.receipt.listed = listed
  BY <1>2 DEF Records, Receipts
<1> HIDE DEF rec
<1>10. Mode(rec, Sealed(rec)) /\ Captured(rec) /\ Post(rec, Sealed(rec))
  BY <1>2, <1>9 DEF Mode, Captured, Post, Sealed
<1>11. (Sealed(v) /\ v.todo \in Marks) \in BOOLEAN /\ (Sealed(rec) /\ rec.todo \in Marks) = FALSE
  BY <1>3, <1>9, SMT
<1>12. Published' => Names(rec, Sealed(rec) /\ rec.todo \in Marks)
  BY <1>2, <1>9, <1>11, MarkedNames DEF Published, MarkIncomplete, shared, listed, outputs
<1> QED
  BY <1>2, <1>3, <1>8, <1>9, <1>10, <1>12, MovedTo

LEMMA AppendStderrGood ==
  ASSUME RunConstants, TypeOK, NEW r \in Runs, Good(r), AppendStderr(r)
  PROVE  Moved(r)
<1> DEFINE v == run[r]
           rest == Tail(v.todo)
           rec == [v EXCEPT !.todo = rest, !.stderr = v.stderr + 1]
<1>1. At(r, "repair") /\ Head(v.todo) = "stderr"
  BY DEF AppendStderr, RepairStep
<1>2. /\ v \in Records /\ v.receipt \in Receipts /\ v.step = "repair" /\ Started(r)
      /\ Mode(v, Sealed(v)) /\ Captured(v) /\ Post(v, Sealed(v)) /\ v.disk # None /\ v.disk.status = v.receipt.status
      /\ v.todo \in Marks \union Marked /\ v.todo \in Seq({"mark", "stderr", "receipt"}) /\ v.todo # << >>
      /\ Published => Names(v, Sealed(v) /\ v.todo \in Marks)
  BY <1>1, RepairFacts
<1>3. rest \in Marks \union Marked /\ (rest \in Marks <=> v.todo \in Marks)
  BY <1>1, <1>2, TodoAfter
<1>4. rest \in Seq({"mark", "stderr", "receipt"})
  BY <1>2
<1>5. run' = [run EXCEPT ![r].todo = rest, ![r].stderr = v.stderr + 1]
  BY <1>2 DEF TypeOK, Records, AppendStderr, Rest
<1> HIDE DEF rest
<1>6. rec \in Records /\ Became(r, rec)
  BY <1>2, <1>4, <1>5 DEF Records, Became, TypeOK
<1>7. /\ rec.step = "repair" /\ rec.bytes = v.bytes /\ rec.preflight = v.preflight /\ rec.opened = v.opened /\ rec.closed = v.closed
      /\ rec.outputs = v.outputs /\ rec.disk = v.disk /\ rec.todo = rest /\ rec.receipt = v.receipt
  BY <1>2 DEF Records, Receipts
<1> HIDE DEF rec
<1>8. Mode(rec, Sealed(rec)) /\ Captured(rec) /\ Post(rec, Sealed(rec))
  BY <1>2, <1>7 DEF Mode, Captured, Post, Sealed
<1>9. Published' => Names(rec, Sealed(rec) /\ rec.todo \in Marks)
  BY <1>2, <1>3, <1>7 DEF Published, AppendStderr, shared, Names, StreamName, Sealed
<1> QED
  BY <1>2, <1>3, <1>6, <1>7, <1>8, <1>9, MovedTo

LEMMA ResealGood ==
  ASSUME RunConstants, TypeOK, NEW r \in Runs, Good(r), Reseal(r)
  PROVE  Moved(r)
<1> DEFINE v == run[r]
           capture == IF v.receipt.capture = "complete" THEN "partial" ELSE v.receipt.capture
           receipt == [v.receipt EXCEPT !.status = "MACHINERY_FAIL", !.stderr = v.stderr, !.capture = capture]
           rec == [v EXCEPT !.step = "done", !.todo = << >>, !.receipt = receipt, !.disk = receipt]
<1>1. At(r, "repair") /\ Head(v.todo) = "receipt"
  BY DEF Reseal, RepairStep
<1>2. /\ v \in Records /\ v.receipt \in Receipts /\ v.step = "repair" /\ Started(r)
      /\ Mode(v, Sealed(v)) /\ Captured(v) /\ Post(v, Sealed(v)) /\ v.disk # None /\ v.disk.status = v.receipt.status
      /\ v.todo \in Marks \union Marked /\ v.todo \in Seq({"mark", "stderr", "receipt"}) /\ v.todo # << >>
      /\ Published => Names(v, Sealed(v) /\ v.todo \in Marks)
  BY <1>1, RepairFacts
<1>3. v.todo \notin Marks
  BY <1>1, <1>2, TodoAfter
<1>4. receipt \in Receipts
  BY <1>2 DEF Receipts, Records, Statuses
<1>5. << >> \in Seq({"mark", "stderr", "receipt"})
  OBVIOUS
<1>6. Became(r, rec)
  BY <1>2 DEF Became, TypeOK, Records, Reseal
<1> HIDE DEF receipt
<1>7. rec \in Records
  BY <1>2, <1>4, <1>5 DEF Records, Steps
<1>8. /\ rec.step = "done" /\ rec.bytes = v.bytes /\ rec.preflight = v.preflight /\ rec.opened = v.opened /\ rec.closed = v.closed
      /\ rec.outputs = v.outputs /\ rec.disk = receipt /\ rec.receipt = receipt /\ rec.stderr = v.stderr
  BY <1>2 DEF Records
<1>9. /\ receipt.status = "MACHINERY_FAIL" /\ receipt.stderr = v.stderr /\ receipt.capture = capture
      /\ receipt.profile = v.receipt.profile /\ receipt.postflight = v.receipt.postflight /\ receipt.listed = v.receipt.listed
  BY <1>2 DEF Receipts, receipt
<1> HIDE DEF rec
<1>10. Complete(rec)
  BY <1>2, <1>8, <1>9 DEF Complete, Mode, Captured, Post, Sealed
<1>11. Published' => Names(rec, Sealed(rec))
  BY <1>2, <1>3, <1>8, <1>9 DEF Published, Reseal, shared, Names, StreamName, Sealed
<1> QED
  BY <1>7, <1>6, <1>8, <1>10, <1>11, MovedTo

(* A kill leaves what is on disk, or no receipt.                           *)
LEMMA DieGood ==
  ASSUME RunConstants, TypeOK, NEW r \in Runs, Good(r), Die(r)
  PROVE  Moved(r)
<1> DEFINE v == run[r]
<1>1. v \in Records /\ v.receipt \in Receipts /\ Started(r) /\ v.step \in Steps \ {"done", "dead"}
  BY RecordFacts DEF Die, Records
<1>2. PICK disk \in {v.disk, None} : run' = [run EXCEPT ![r].step = "dead", ![r].disk = disk]
  BY DEF Die
<1> DEFINE rec == [v EXCEPT !.step = "dead", !.disk = disk]
<1>3. rec \in Records /\ Became(r, rec)
  BY <1>1, <1>2 DEF Records, Steps, Became, TypeOK
<1>4. rec.step = "dead" /\ rec.bytes = v.bytes /\ rec.disk = disk /\ rec.outputs = v.outputs
  BY <1>1 DEF Records
<1> HIDE DEF rec
<1>5. v.disk # None /\ v.disk.status # "PASS" /\ Published => NoWhole(v)
  <2>1. CASE v.step \in {"preflight", "parse", "gate", "evaluate", "observe", "publish", "decide", "write"}
    BY <2>1 DEF Good, Beginning, Parsed, Evaluated, Decided, Fresh, Unwritten
  <2>2. CASE v.step \in {"selfcheck", "register", "appending"}
    BY <2>2, CompletePartial DEF Good, Decided, Complete
  <2>3. CASE v.step = "repair"
    BY <2>3 DEF Good, Repaired, Names, StreamName, NoWhole, Sealed
  <2> QED
    BY <1>1, <2>1, <2>2, <2>3 DEF Steps
<1>6. Published' => Published
  BY DEF Published, Die
<1>7. rec.disk # None /\ rec.disk.status # "PASS" /\ Published' => NoWhole(rec)
  BY <1>2, <1>4, <1>5, <1>6 DEF NoWhole
<1> QED
  BY <1>3, <1>4, <1>7, MovedTo

LEMMA StartGood ==
  ASSUME RunConstants, TypeOK, NEW r \in Runs, Start(r)
  PROVE  Moved(r)
<1>1. PICK rec \in Records : Became(r, rec) /\ rec.step = "preflight" /\ rec.bytes = source /\ Fresh(rec)
                             /\ rec.preflight = FALSE /\ rec.receipt = NewReceipt
  BY StartRecord
<1>2. rec.receipt.profile = Everyday /\ ~Started(r)
  BY <1>1 DEF NewReceipt, Start
<1> QED
  BY <1>1, <1>2, MovedTo

LEMMA OwnGood ==
  ASSUME RunConstants, TypeOK, NEW r \in Runs, Started(r) => Good(r), Own(r)
  PROVE  Moved(r)
<1>1. CASE Start(r)
  BY <1>1, StartGood
<1>2. ~Start(r) => Started(r)
  BY DEF Own, Execute, Errors, Preflight, RefuseLedger, ParseError, Parse, Gate, Evaluate, Observe, Publish, Decide, CaptureRefused,
         Write, SelfCheck, BeginAppend, AppendRefused, EndAppend, MarkIncomplete, AppendStderr, Reseal, EvidenceFails,
         ObserveFails, PublishFails, SelfCheckFails, AppendFails, Die, RepairStep, At
<1>3. CASE ~Start(r)
  BY <1>2, <1>3, PreflightGood, EarlyFailuresGood, ParseGood, GateGood, EvaluateGood, ObserveGood, PublishGood, PublishFailsGood,
     DecideGood, CaptureRefusedGood, WriteGood, RegisteringGood, MarkIncompleteGood, AppendStderrGood, ResealGood, DieGood
     DEF Own, Execute, Errors, Registering
<1> QED
  BY <1>1, <1>3

(* What the shared state is after a step of a run.                         *)
LEMMA OwnShared ==
  ASSUME RunConstants, TypeOK, NEW r \in Runs, Own(r)
  PROVE  /\ source' = source /\ frozen' = frozen /\ edits' = edits
         /\ unpublished' \in BOOLEAN /\ (Published' => Published)
         /\ faults' \in 0..MaxFaults /\ damaged' \in BOOLEAN
         /\ ledger' = ledger \/ (At(r, "appending") /\ ledger' = Append(ledger, Event(r)))
<1>1. unpublished \in BOOLEAN /\ faults \in 0..MaxFaults /\ damaged \in BOOLEAN
  BY DEF TypeOK
<1>7. Fault => faults' \in 0..MaxFaults
  BY <1>1 DEF Fault, RunConstants
<1>2. CASE Execute(r)
  <2>1. UNCHANGED <<source, frozen, edits, unpublished, faults, damaged>>
    BY <1>2 DEF Execute, Start, Preflight, RefuseLedger, ParseError, Parse, Gate, Evaluate, Observe, Publish, Decide, CaptureRefused,
         Write, SelfCheck, BeginAppend, AppendRefused, EndAppend, MarkIncomplete, AppendStderr, Reseal, shared
  <2>2. ledger' = ledger \/ EndAppend(r)
    BY <1>2 DEF Execute, Start, Preflight, RefuseLedger, ParseError, Parse, Gate, Evaluate, Observe, Publish, Decide, CaptureRefused,
         Write, SelfCheck, BeginAppend, AppendRefused, MarkIncomplete, AppendStderr, Reseal, shared
  <2> QED
    BY <1>1, <2>1, <2>2 DEF Published, EndAppend
<1>3. CASE EvidenceFails(r) \/ ObserveFails(r) \/ SelfCheckFails(r)
  BY <1>1, <1>3, <1>7 DEF EvidenceFails, ObserveFails, SelfCheckFails, shared, Published
<1>4. CASE PublishFails(r)
  BY <1>1, <1>4, <1>7 DEF PublishFails, Published
<1>5. CASE AppendFails(r)
  BY <1>1, <1>5, <1>7 DEF AppendFails, Published
<1>6. CASE Die(r)
  BY <1>1, <1>6 DEF Die, Published
<1> QED
  BY <1>2, <1>3, <1>4, <1>5, <1>6 DEF Own, Errors

LEMMA OthersGood ==
  ASSUME NEW q \in Runs, Started(q), Good(q), run'[q] = run[q], Published' => Published
  PROVE  Started(q)' /\ Good(q)'
<1>1. Verify(q)' <=> Verify(q)
  BY DEF Verify
<1> QED
  BY <1>1 DEF Started, Good, Beginning, Parsed, Evaluated, Decided, Repaired, Closed

LEMMA RunsStayGood ==
  ASSUME RunConstants, TypeOK, RunsGood, NEW r \in Runs, Own(r)
  PROVE  RunsGood' /\ Moved(r)
<1>1. Moved(r)
  BY OwnGood DEF RunsGood
<1>2. ASSUME NEW q \in Runs, q # r, Started(q)' PROVE Good(q)'
  <2>1. run'[q] = run[q]
    BY <1>1, <1>2 DEF Moved
  <2> QED
    BY <1>2, <2>1, OwnShared, OthersGood DEF RunsGood, Started
<1>3. Good(r)'
  BY <1>1 DEF Moved
<1> QED
  BY <1>1, <1>2, <1>3 DEF RunsGood

LEMMA EventType ==
  ASSUME RunConstants, TypeOK, NEW r \in Runs, Good(r), At(r, "appending")
  PROVE  Event(r) \in [run : Runs, status : Statuses, receipt : Nat] /\ Event(r).run = r
<1>1. run[r].disk \in Receipts
  BY RecordFacts DEF At, Good, Decided
<1> QED
  BY <1>1 DEF Event, Receipts

LEMMA TypesStay ==
  ASSUME RunConstants, TypeOK, NEW r \in Runs, Own(r), Moved(r), Started(r) => Good(r)
  PROVE  TypeOK'
<1>1. ledger' \in Seq([run : Runs, status : Statuses, receipt : Nat])
  <2>1. ledger \in Seq([run : Runs, status : Statuses, receipt : Nat])
    BY DEF TypeOK
  <2>2. CASE ledger' = ledger
    BY <2>1, <2>2
  <2>3. CASE At(r, "appending") /\ ledger' = Append(ledger, Event(r))
    <3>1. Event(r) \in [run : Runs, status : Statuses, receipt : Nat]
      BY <2>3, EventType DEF At
    <3> HIDE DEF Event
    <3> QED
      BY <2>1, <2>3, <3>1
  <2> QED
    BY <2>2, <2>3, OwnShared
<1> QED
  BY <1>1, OwnShared DEF TypeOK, Moved

-----------------------------------------------------------------------------
(* Which steps begin and end where.                                        *)
Early(r) ==
  \/ Preflight(r) \/ RefuseLedger(r) \/ ParseError(r) \/ Parse(r) \/ Evaluate(r) \/ EvidenceFails(r) \/ Observe(r)
  \/ ObserveFails(r) \/ Publish(r) \/ PublishFails(r) \/ Decide(r) \/ CaptureRefused(r)
LEMMA OwnSteps ==
  ASSUME NEW r \in Runs, Own(r)
  PROVE  Start(r) \/ Early(r) \/ Gate(r) \/ Write(r) \/ Registering(r) \/ MarkIncomplete(r) \/ AppendStderr(r) \/ Reseal(r) \/ Die(r)
  BY DEF Own, Execute, Errors, Early, Registering

LEMMA StepBefore ==
  ASSUME NEW r \in Runs, Started(r), Own(r)
  PROVE  /\ run[r].step \notin {"done", "dead"}
         /\ run[r].step = "repair" => MarkIncomplete(r) \/ AppendStderr(r) \/ Reseal(r) \/ Die(r)
         /\ run[r].step = "appending" => EndAppend(r) \/ AppendFails(r) \/ Die(r)
<1>1. CASE Start(r) \/ Early(r) \/ Gate(r) \/ Write(r)
  BY <1>1 DEF Start, Early, Preflight, RefuseLedger, ParseError, Parse, Gate, Evaluate, EvidenceFails, Observe, ObserveFails, Publish,
     PublishFails, Decide, CaptureRefused, Write, At
<1>2. CASE Registering(r)
  BY <1>2 DEF Registering, SelfCheck, SelfCheckFails, BeginAppend, AppendRefused, EndAppend, AppendFails, At
<1>3. CASE MarkIncomplete(r) \/ AppendStderr(r) \/ Reseal(r) \/ Die(r)
  BY <1>3 DEF MarkIncomplete, AppendStderr, Reseal, Die, RepairStep, At
<1> QED
  BY <1>1, <1>2, <1>3, OwnSteps

(* The steps before the gate and after it.                                 *)
LEMMA EarlyAfter ==
  ASSUME RunConstants, TypeOK, NEW r \in Runs, Early(r)
  PROVE  run'[r].step \notin {"evaluate", "done"}
<1>1. run \in [Runs -> Records \union {None}] /\ run[r] \in Records /\ run[r].receipt \in Receipts
  <2>1. Started(r)
    BY DEF Early, Preflight, RefuseLedger, ParseError, Parse, Evaluate, EvidenceFails, Observe, ObserveFails, Publish,
       PublishFails, Decide, CaptureRefused, At
  <2> QED
    BY <2>1, RecordFacts DEF TypeOK
<1>2. CASE Preflight(r)
  BY <1>1, <1>2 DEF Preflight, Records
<1>3. CASE RefuseLedger(r) \/ ParseError(r) \/ EvidenceFails(r)
  BY <1>1, <1>3 DEF RefuseLedger, ParseError, EvidenceFails, Fail, Records
<1>4. CASE Parse(r)
  BY <1>1, <1>4 DEF Parse, Records
<1>5. CASE Evaluate(r)
  BY <1>1, <1>5 DEF Evaluate, Records
<1>6. CASE Observe(r) \/ ObserveFails(r)
  BY <1>1, <1>6 DEF Observe, ObserveFails, Records
<1>7. CASE Publish(r)
  BY <1>1, <1>7 DEF Publish, Records
<1>8. CASE PublishFails(r)
  BY <1>1, <1>8 DEF PublishFails, Records
<1>9. CASE Decide(r)
  BY <1>1, <1>9 DEF Decide, Records
<1>10. CASE CaptureRefused(r)
  BY <1>1, <1>10 DEF CaptureRefused, Records
<1> QED
  BY <1>2, <1>3, <1>4, <1>5, <1>6, <1>7, <1>8, <1>9, <1>10 DEF Early

(* The receipt on disk after the run has begun to register it.             *)
LEMMA LateAfter ==
  ASSUME RunConstants, TypeOK, NEW r \in Runs, Started(r), Own(r), run[r].step \in {"appending", "repair"}
  PROVE  /\ run'[r].step \in {"repair", "done", "dead"}
         /\ run[r].step = "appending" => run'[r].disk = run[r].disk
         /\ run'[r].disk = run[r].disk \/ run'[r].disk = None \/ run'[r].disk.status = "MACHINERY_FAIL"
         /\ run'[r].step = "done" => EndAppend(r) \/ run'[r].disk.status = "MACHINERY_FAIL"
<1>1. run \in [Runs -> Records \union {None}] /\ run[r] \in Records /\ run[r].receipt \in Receipts
  BY RecordFacts DEF TypeOK
<1>2. CASE EndAppend(r) \/ AppendFails(r)
  BY <1>1, <1>2 DEF EndAppend, AppendFails, Go, Repair, Records
<1>3. CASE MarkIncomplete(r) \/ AppendStderr(r)
  BY <1>1, <1>3 DEF MarkIncomplete, AppendStderr, RepairStep, At, Records
<1>4. CASE Reseal(r)
  BY <1>1, <1>4 DEF Reseal, RepairStep, At, Records, Receipts
<1>5. CASE Die(r)
  BY <1>1, <1>5 DEF Die, RepairStep, At, Records
<1> QED
  BY <1>2, <1>3, <1>4, <1>5, StepBefore

(* A run is done once it is registered, or it is no pass.                  *)
LEMMA DoneAfter ==
  ASSUME RunConstants, TypeOK, NEW r \in Runs, Started(r) => Good(r), Own(r), Done(r)'
  PROVE  EndAppend(r) \/ run'[r].disk.status # "PASS"
<1>1. CASE Start(r)
  BY <1>1, StartRecord, BecameFacts DEF Done, At
<1>2. CASE Early(r)
  BY <1>2, EarlyAfter DEF Done, At
<1>4. CASE Gate(r)
  BY <1>4, RecordFacts DEF Gate, Go, Fail, Done, At, TypeOK, Records
<1>5. CASE Write(r)
  <2>1. Started(r) /\ run[r].step = "write" /\ run[r] \in Records /\ run[r].receipt \in Receipts
    BY <1>5, RecordFacts DEF Write, At
  <2>2. run[r].preflight # TRUE
    BY <1>5, <2>1 DEF Write, Done, At, TypeOK, Records, Receipts
  <2>3. run[r].receipt.status # "PASS"
    BY <2>1, <2>2 DEF Good, Decided, Mode, Sealed
  <2> QED
    BY <1>5, <2>1, <2>3 DEF Write, TypeOK, Records, Receipts
<1>6. CASE Registering(r) /\ ~EndAppend(r) /\ ~AppendFails(r)
  BY <1>6, RecordFacts DEF Registering, SelfCheck, SelfCheckFails, BeginAppend, AppendRefused, Go, Repair, Done, At, TypeOK, Records
<1>7. CASE EndAppend(r) \/ AppendFails(r) \/ MarkIncomplete(r) \/ AppendStderr(r) \/ Reseal(r)
  <2>1. Started(r) /\ run[r].step \in {"appending", "repair"}
    BY <1>7 DEF EndAppend, AppendFails, MarkIncomplete, AppendStderr, Reseal, RepairStep, At
  <2> QED
    BY <2>1, LateAfter DEF Done, At
<1>8. CASE Die(r)
  <2>1. Started(r) /\ run[r] \in Records
    BY <1>8, RecordFacts DEF Die
  <2> QED
    BY <1>8, <2>1 DEF Die, Done, At, TypeOK, Records
<1> QED
  BY <1>1, <1>2, <1>4, <1>5, <1>6, <1>7, <1>8, OwnSteps

-----------------------------------------------------------------------------
(* The ledger.                                                             *)
LEMMA AppendEntries ==
  ASSUME TypeOK, NEW e
  PROVE  /\ DOMAIN ledger \subseteq DOMAIN Append(ledger, e) /\ Len(ledger) + 1 \in DOMAIN Append(ledger, e)
         /\ \A i \in DOMAIN ledger : Append(ledger, e)[i] = ledger[i]
         /\ \A i \in DOMAIN Append(ledger, e) : i \in DOMAIN ledger \/ Append(ledger, e)[i] = e
         /\ Append(ledger, e)[Len(ledger) + 1] = e
<1>1. ledger \in Seq([run : Runs, status : Statuses, receipt : Nat])
  BY DEF TypeOK
<1>2. Len(ledger) \in Nat /\ DOMAIN ledger = 1..Len(ledger) /\ DOMAIN Append(ledger, e) = 1..(Len(ledger) + 1)
  BY <1>1
<1> QED
  BY <1>1, <1>2

LEMMA LedgerStays ==
  ASSUME RunConstants, TypeOK, RunsGood, LedgerOK, NEW r \in Runs, Own(r), Moved(r)
  PROVE  LedgerOK'
<1> DEFINE EventAfter(q) == [run |-> q, status |-> run'[q].disk.status, receipt |-> run'[q].disk.stderr]
           Fits(e, q) == /\ q \in Runs /\ run'[q] # None /\ run'[q].step \in {"repair", "done", "dead"}
                         /\ run'[q].disk = None \/ e = EventAfter(q) \/ run'[q].disk.status = "MACHINERY_FAIL"
<1>1. ASSUME NEW i \in DOMAIN ledger PROVE Fits(ledger[i], ledger[i].run)
  <2>1. PICK q : q = ledger[i].run
    OBVIOUS
  <2>2. /\ q \in Runs /\ Started(q) /\ run[q].step \in {"repair", "done", "dead"}
        /\ run[q].disk = None \/ ledger[i] = Event(q) \/ run[q].disk.status = "MACHINERY_FAIL"
    BY <1>1, <2>1 DEF LedgerOK
  <2>3. run'[q].disk = run[q].disk => Event(q) = EventAfter(q)
    BY DEF Event
  <2> HIDE DEF EventAfter
  <2>4. CASE q # r
    BY <2>1, <2>2, <2>3, <2>4 DEF Moved, Started
  <2>5. CASE q = r
    <3>1. run[r].step = "repair" /\ Started(r)
      BY <2>2, <2>5, StepBefore
    <3>2. /\ run'[r].step \in {"repair", "done", "dead"}
          /\ run'[r].disk = run[r].disk \/ run'[r].disk = None \/ run'[r].disk.status = "MACHINERY_FAIL"
      BY <3>1, LateAfter
    <3> QED
      BY <2>1, <2>2, <2>3, <2>5, <3>2 DEF Moved
  <2> QED
    BY <2>4, <2>5
<1>2. \A i \in DOMAIN ledger' : Fits(ledger'[i], ledger'[i].run)
  <2>1. CASE ledger' = ledger
    BY <1>1, <2>1
  <2>2. CASE At(r, "appending") /\ ledger' = Append(ledger, Event(r))
    <3>1. Started(r) /\ run[r].step = "appending" /\ Event(r).run = r
      BY <2>2, EventType DEF At, RunsGood
    <3>2. run'[r].step \in {"repair", "done", "dead"} /\ run'[r].disk = run[r].disk
      BY <3>1, LateAfter
    <3>3. Event(r) = EventAfter(r) /\ run'[r] # None
      BY <3>2 DEF Event, Moved
    <3>4. Fits(Event(r), r)
      BY <3>2, <3>3
    <3> HIDE DEF Fits
    <3> QED
      BY <1>1, <2>2, <3>1, <3>4, AppendEntries
  <2> QED
    BY <2>1, <2>2, OwnShared
<1> QED
  BY <1>2 DEF LedgerOK, Started, Event

LEMMA PassStays ==
  ASSUME RunConstants, TypeOK, RunsGood, PassIsRegistered, NEW r \in Runs, Own(r), Moved(r)
  PROVE  PassIsRegistered'
<1>1. ASSUME NEW q \in Runs, Done(q)', run'[q].disk.status = "PASS"
      PROVE  \E i \in DOMAIN ledger' : ledger'[i] = Event(q)'
  <2>1. CASE q # r
    <3>1. run'[q] = run[q] /\ Done(q) /\ Event(q)' = Event(q)
      BY <1>1, <2>1 DEF Moved, Done, At, Started, Event
    <3>2. PICK i \in DOMAIN ledger : ledger[i] = Event(q)
      BY <1>1, <3>1 DEF PassIsRegistered
    <3>3. i \in DOMAIN ledger' /\ ledger'[i] = ledger[i]
      BY AppendEntries, OwnShared
    <3> QED
      BY <3>1, <3>2, <3>3
  <2>2. CASE q = r
    <3>1. EndAppend(r) /\ Started(r) /\ run[r].step = "appending"
      BY <1>1, <2>2, DoneAfter DEF RunsGood, EndAppend, At
    <3>2. Event(r)' = Event(r)
      BY <3>1, LateAfter DEF Event
    <3>3. ledger' = Append(ledger, Event(r))
      BY <3>1 DEF EndAppend
    <3>4. Len(ledger) + 1 \in DOMAIN ledger' /\ ledger'[Len(ledger) + 1] = Event(r)
      BY <3>3, AppendEntries
    <3> QED
      BY <2>2, <3>2, <3>4
  <2> QED
    BY <2>1, <2>2
<1> QED
  BY <1>1 DEF PassIsRegistered

-----------------------------------------------------------------------------
(* The freeze.                                                             *)
LEMMA EvaluateAfter ==
  ASSUME RunConstants, TypeOK, NEW r \in Runs, Own(r), At(r, "evaluate")'
  PROVE  Gate(r) /\ (frozen # None => source = frozen)
<1>1. Gate(r)
  <2>1. CASE Start(r)
    BY <2>1, StartRecord, BecameFacts DEF At
  <2>2. CASE Early(r)
    BY <2>2, EarlyAfter DEF At
  <2>3. CASE Write(r)
    BY <2>3, RecordFacts DEF Write, At, TypeOK, Records
  <2>4. CASE Registering(r)
    BY <2>4, RecordFacts DEF Registering, SelfCheck, SelfCheckFails, BeginAppend, AppendRefused, EndAppend, AppendFails, Go, Repair,
       At, TypeOK, Records
  <2>5. CASE MarkIncomplete(r) \/ AppendStderr(r) \/ Reseal(r)
    <3>1. Started(r) /\ run[r].step = "repair"
      BY <2>5 DEF MarkIncomplete, AppendStderr, Reseal, RepairStep, At
    <3> QED
      BY <3>1, LateAfter DEF At
  <2>6. CASE Die(r)
    BY <2>6, RecordFacts DEF Die, At, TypeOK, Records
  <2> QED
    BY <2>1, <2>2, <2>3, <2>4, <2>5, <2>6, OwnSteps
<1>2. ASSUME frozen # None, source # frozen PROVE FALSE
  <2>1. Fail(r, "observe", "PROTOCOL_VIOLATION") /\ run[r] \in Records
    BY <1>1, <1>2, RecordFacts DEF Gate, FreezeVerdicts, At
  <2> QED
    BY <2>1 DEF Fail, At, TypeOK, Records
<1> QED
  BY <1>1, <1>2

LEMMA FreezeStays ==
  ASSUME RunConstants, TypeOK, FreezeOK, NEW r \in Runs, Own(r), Moved(r)
  PROVE  FreezeOK'
<1>1. source' = source /\ frozen' = frozen /\ edits' = edits /\ edits \in Nat
  BY OwnShared DEF TypeOK
<1>2. ASSUME frozen # None, edits = 0, NEW q \in Runs, Started(q)' PROVE run'[q].bytes = frozen
  <2>1. CASE q # r
    BY <1>2, <2>1 DEF Moved, FreezeOK, Started
  <2>2. CASE Started(r)
    BY <1>2, <2>1, <2>2 DEF Moved, FreezeOK
  <2>3. CASE Start(r)
    BY <1>2, <2>1, <2>3, StartRecord, BecameFacts DEF FreezeOK
  <2> QED
    BY <2>1, <2>2, <2>3, OwnSteps DEF Early, Preflight, RefuseLedger, ParseError, Parse, Evaluate, EvidenceFails, Observe, ObserveFails,
       Publish, PublishFails, Decide, CaptureRefused, Gate, Write, Registering, SelfCheck, SelfCheckFails, BeginAppend, AppendRefused,
       EndAppend, AppendFails, MarkIncomplete, AppendStderr, Reseal, Die, RepairStep, At
<1>3. ASSUME frozen # None, edits <= 1, NEW q \in Runs, At(q, "evaluate")' PROVE run'[q].bytes = frozen
  <2>1. CASE q # r
    BY <1>3, <2>1 DEF Moved, FreezeOK, At, Started
  <2>2. CASE q = r
    <3>1. source = frozen
      BY <1>3, <2>2, EvaluateAfter
    <3>2. edits = 0
      BY <1>1, <1>3, <3>1 DEF FreezeOK
    <3> QED
      BY <1>2, <1>3, <2>2, <3>2 DEF At
  <2> QED
    BY <2>1, <2>2
<1> QED
  BY <1>1, <1>2, <1>3 DEF FreezeOK

LEMMA EditStays ==
  ASSUME RunConstants, IInv, NEW c \in Contents \union {None}, Edit(c)
  PROVE  IInv'
<1>1. UNCHANGED <<frozen, run, ledger, damaged, unpublished, faults>> /\ source' = c /\ c # source
      /\ edits < MaxEdits /\ edits' = edits + 1 /\ edits \in 0..MaxEdits /\ MaxEdits \in Nat
  BY DEF Edit, IInv, TypeOK, RunConstants
<1>2. TypeOK'
  BY <1>1 DEF IInv, TypeOK
<1>3. RunsGood'
  BY <1>1, OthersGood DEF IInv, RunsGood, Started, Published
<1>4. LedgerOK' /\ PassIsRegistered'
  BY <1>1 DEF IInv, LedgerOK, PassIsRegistered, Event, Started, Done, At
<1>5. FreezeOK'
  BY <1>1 DEF IInv, FreezeOK, At, Started
<1> QED
  BY <1>2, <1>3, <1>4, <1>5 DEF IInv

-----------------------------------------------------------------------------
LEMMA InitIInv ==
  ASSUME RunConstants, Init
  PROVE  IInv
<1>1. TypeOK
  <2>1. << >> \in Seq([run : Runs, status : Statuses, receipt : Nat])
    OBVIOUS
  <2>2. source \in Contents /\ frozen \in Contents \union {None} /\ 0 \in 0..MaxEdits /\ 0 \in 0..MaxFaults
    BY DEF Init, RunConstants
  <2>3. run \in [Runs -> Records \union {None}]
    BY DEF Init
  <2> QED
    BY <2>1, <2>2, <2>3 DEF Init, TypeOK
<1>2. (\A r \in Runs : ~Started(r)) /\ ledger = << >> /\ edits = 0
  BY DEF Init, Started
<1>3. frozen # None => source = frozen
  BY DEF Init
<1> QED
  BY <1>1, <1>2, <1>3 DEF IInv, RunsGood, LedgerOK, PassIsRegistered, FreezeOK, Done, At

LEMMA NextIInv ==
  ASSUME RunConstants, IInv, [Next]_vars
  PROVE  IInv'
<1>1. ASSUME NEW r \in Runs, Own(r) PROVE IInv'
  <2>1. RunsGood' /\ Moved(r) /\ (Started(r) => Good(r))
    BY <1>1, RunsStayGood DEF IInv, RunsGood
  <2>2. TypeOK'
    BY <1>1, <2>1, TypesStay DEF IInv
  <2>3. LedgerOK' /\ PassIsRegistered'
    BY <1>1, <2>1, LedgerStays, PassStays DEF IInv
  <2>4. FreezeOK'
    BY <1>1, <2>1, FreezeStays DEF IInv
  <2> QED
    BY <2>1, <2>2, <2>3, <2>4 DEF IInv
<1>2. CASE UNCHANGED vars
  <2>1. \A r \in Runs : Verify(r)' <=> Verify(r)
    BY <1>2 DEF vars, Verify
  <2>2. RunsGood'
    BY <1>2, <2>1 DEF vars, IInv, RunsGood, Started, Good, Beginning, Parsed, Evaluated, Decided, Repaired, Closed, Published
  <2> QED
    BY <1>2, <2>2 DEF vars, IInv, TypeOK, LedgerOK, PassIsRegistered, FreezeOK, Started, At, Done, Event
<1> QED
  BY <1>1, <1>2, EditStays DEF Next, Own

LEMMA Inductive ==
  ASSUME RunConstants
  PROVE  Spec => []IInv
  BY InitIInv, NextIInv, PTL DEF Spec

-----------------------------------------------------------------------------
LEMMA IInvAccepted ==
  ASSUME RunConstants
  PROVE  IInv => ReturnedRunsVerify /\ LateFailuresPartial
<1>1. IInv => ReturnedRunsVerify
  BY DEF IInv, RunsGood, Good, Closed, ReturnedRunsVerify, Published, Done, At, TypeOK, Records
<1>2. ASSUME IInv, Published, NEW r \in Runs, Started(r), run[r].disk # None, run[r].disk.status # "PASS"
      PROVE  NoWhole(run[r])
  <2> DEFINE v == run[r]
  <2>1. Good(r) /\ v.step \in Steps
    BY <1>2, RecordFacts DEF IInv, RunsGood, Started, TypeOK, Records
  <2>2. CASE v.step \in {"preflight", "parse", "gate", "evaluate", "observe", "publish", "decide", "write"}
    BY <1>2, <2>1, <2>2 DEF Good, Beginning, Parsed, Evaluated, Decided, Fresh, Unwritten
  <2>3. CASE v.step \in {"selfcheck", "register", "appending"}
    BY <1>2, <2>1, <2>3, CompletePartial DEF Good, Decided, Complete
  <2>4. CASE v.step = "repair"
    BY <1>2, <2>1, <2>4 DEF Good, Repaired, Names, StreamName, NoWhole, Sealed
  <2>5. CASE v.step \in {"done", "dead"}
    BY <1>2, <2>1, <2>5 DEF Good, Closed
  <2> QED
    BY <2>1, <2>2, <2>3, <2>4, <2>5 DEF Steps
<1>3. IInv => LateFailuresPartial
  BY <1>2 DEF LateFailuresPartial, FailedOutputsPartial, Published, NoWhole, IInv, TypeOK
<1> QED
  BY <1>1, <1>3

LEMMA IInvAgrees == IInv => LedgerAgrees
  BY DEF IInv, LedgerOK, LedgerAgrees, RegisteredOrFailed

LEMMA IInvFrozen == IInv => FrozenBytesEvaluated
  BY DEF IInv, FreezeOK, FrozenBytesEvaluated

(* Every variable stays in its domain.                                     *)
THEOREM TypeCorrect ==
  ASSUME RunConstants
  PROVE  Spec => []TypeOK
<1>1. IInv => TypeOK
  BY DEF IInv
<1> QED
  BY <1>1, Inductive, PTL

(* A run that run_file returns after a preflight audit that passed is      *)
(* accepted by verify_run, whatever it stopped at and also after its       *)
(* receipt was sealed again (downgrade_self_check); and beside a receipt   *)
(* that says fail no output has its complete name, killed runs included.   *)
(* Both as long as no copy of a stream failed (batches.publish).           *)
THEOREM ReturnedRunsAccepted ==
  ASSUME RunConstants
  PROVE  Spec => [](ReturnedRunsVerify /\ LateFailuresPartial)
  BY Inductive, IInvAccepted, PTL

(* A receipt that passes is in the ledger as it is, and the ledger has no  *)
(* run otherwise than its receipt, unless that has become a failure or is  *)
(* being written (run_file, ledger::append).                               *)
THEOREM ReceiptsAgree ==
  ASSUME RunConstants
  PROVE  Spec => []LedgerAgrees
  BY Inductive, IInvAgrees, PTL

(* What is evaluated of a frozen source is what was frozen, although       *)
(* enforce_freeze reads the source a second time; with at most one edit.   *)
THEOREM FrozenBytesRun ==
  ASSUME RunConstants
  PROVE  Spec => []FrozenBytesEvaluated
  BY Inductive, IInvFrozen, PTL

=============================================================================
