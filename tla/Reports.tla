------------------------------ MODULE Reports -------------------------------
(* The bundle of an Orbit check (check and verify, src/src/orbit.rs) and   *)
(* the evidence report in it (create_report and verify_report,             *)
(* src/src/evidence_report.rs).  Several processes make a bundle at one    *)
(* destination, a write may be cut off, and a user edits what is there.    *)
(* Digests are the contents they are taken of.                             *)
EXTENDS Naturals, FiniteSets, Sequences

CONSTANTS
  Procs,          \* processes that run orbit check
  Baselines,      \* contents of baseline files
  Observations,   \* what a scan can say
  None,
  Junk,           \* contents that no part of the program writes
  MaxEdits, MaxFaults  \* bounds on edits and on writes that are cut off

VARIABLES
  pinned,         \* the content of the baseline file
  dir, report,    \* the files of the bundle and of its report, or None
  job,            \* what every process has done and holds in memory
  returned,       \* checks that returned Ok, with the bundle as it was then
  edits, faults

vars == <<pinned, dir, report, job, returned, edits, faults>>

(* comparison: the classification is a function of its two inputs.         *)
Comparison(b, o) == [baseline |-> b, observation |-> o]

(* case: declares the three files with their digests.                      *)
Case(p, b, o) == [author |-> p, evidence |-> <<b, o, Comparison(b, o)>>]
Cases == {Case(p, b, o) : p \in Procs, b \in Baselines, o \in Observations}

Render(c, time) == [md |-> [text |-> c, time |-> time], html |-> [page |-> c, time |-> time]]
ReceiptOf(c, evidence, time) == [case |-> c, evidence |-> evidence, time |-> time, outputs |-> Render(c, time)]
Receipts == {ReceiptOf(c, c.evidence, p) : c \in Cases, p \in Procs}

Outer == <<"baseline", "observations", "check", "case">>
Inner == <<"case", "1", "2", "3", "md", "html", "receipt">>
Copies == <<"1", "2", "3">>
Files(order) == {order[i] : i \in DOMAIN order}

(* The names there may be, and what any of these files may hold.           *)
Names == Files(Outer) \union Files(Inner) \union {"unlisted"}
FileContents ==
  {Junk} \union Baselines \union Observations \union {Comparison(b, o) : b \in Baselines, o \in Observations} \union Cases
    \union Receipts \union {Render(c, p).md : c \in Cases, p \in Procs} \union {Render(c, p).html : c \in Cases, p \in Procs}
ReportConstants ==
  /\ {MaxEdits, MaxFaults} \subseteq Nat /\ None \notin Receipts /\ Junk \notin Receipts
  /\ \A names \in SUBSET Names : None \notin [names -> FileContents]

-----------------------------------------------------------------------------
(* Mutant: files that are not listed are not refused.                      *)
ReportVerifiesUnlisted(f, trusted) ==
  /\ f # None /\ Files(Inner) \subseteq DOMAIN f
  /\ f["receipt"] \in Receipts /\ (trusted = None \/ f["receipt"] = trusted)
  /\ f["case"] = f["receipt"].case
  /\ \A i \in DOMAIN Copies : f[Copies[i]] = f["receipt"].evidence[i]
  /\ f["md"] = f["receipt"].outputs.md /\ f["html"] = f["receipt"].outputs.html

(* verify_report of the files f: the receipt is the trusted one, if there  *)
(* is one, and everything else follows from it; nothing else is there.     *)
ReportVerifies(f, trusted) ==
  /\ f # None /\ DOMAIN f = Files(Inner)
  /\ f["receipt"] \in Receipts /\ (trusted = None \/ f["receipt"] = trusted)
  /\ LET r == f["receipt"]
     IN /\ f["case"] \in Cases /\ f["case"] = r.case
        /\ \A i \in DOMAIN Copies : r.evidence[i] = r.case.evidence[i] /\ f[Copies[i]] = r.evidence[i]
        /\ r.outputs = Render(r.case, r.time)
        /\ f["md"] = r.outputs.md /\ f["html"] = r.outputs.html

(* verify: the classification and the case are what the recorded           *)
(* observations give, and the report has copies of the same files.         *)
Verifies(b, trusted) ==
  /\ dir # None /\ report # None /\ DOMAIN dir = Files(Outer)
  /\ dir["baseline"] = b /\ dir["observations"] \in Observations
  /\ dir["check"] = Comparison(b, dir["observations"])
  /\ dir["case"] \in Cases /\ dir["case"] = Case(dir["case"].author, b, dir["observations"])
  /\ ReportVerifies(report, trusted) /\ report["receipt"].case = dir["case"]
  /\ \A i \in DOMAIN Copies : report[Copies[i]] = dir[Outer[i]]

-----------------------------------------------------------------------------
Idle == [step |-> "idle", at |-> 0, baseline |-> None, observation |-> None, case |-> None, evidence |-> << >>]
Set(p, j) == job' = [job EXCEPT ![p] = j]
Fail(p) == Set(p, [job[p] EXCEPT !.step = "failed"])
At(p, step) == job[p].step = step
With(files, f, content) == [g \in DOMAIN files \union {f} |-> IF g = f THEN content ELSE files[g]]

(* check: nothing is at the destination, the baseline is the pinned one;   *)
(* then the scan.                                                          *)
Begin(p) ==
  /\ At(p, "idle")
  /\ \/ /\ dir = None
        /\ \E b \in Baselines, o \in Observations :
             pinned = b /\ Set(p, [Idle EXCEPT !.step = "create", !.baseline = b, !.observation = o])
     \/ (dir # None \/ pinned \notin Baselines) /\ Fail(p)
  /\ UNCHANGED <<pinned, dir, report, returned, edits, faults>>

(* new_directory: there is one, or this process made it.                   *)
Create(p) ==
  /\ At(p, "create")
  /\ IF dir = None THEN dir' = << >> /\ Set(p, [job[p] EXCEPT !.step = "outer", !.at = 1])
                   ELSE Fail(p) /\ UNCHANGED dir
  /\ UNCHANGED <<pinned, report, returned, edits, faults>>

OuterContent(j, p, f) ==
  CASE f = "baseline" -> j.baseline
    [] f = "observations" -> j.observation
    [] f = "check" -> Comparison(j.baseline, j.observation)
    [] f = "case" -> Case(p, j.baseline, j.observation)
InnerContent(j, p, f) ==
  LET r == ReceiptOf(j.case, j.evidence, p)
  IN CASE f = "case" -> j.case
       [] f = "md" -> r.outputs.md
       [] f = "html" -> r.outputs.html
       [] f = "receipt" -> r
       [] OTHER -> j.evidence[CHOOSE i \in DOMAIN Copies : Copies[i] = f]

(* write, write_new: the next file, which must not be there; it may be cut *)
(* off.                                                                    *)
Advance(p, order, step) == Set(p, [job[p] EXCEPT !.at = @ + 1, !.step = IF job[p].at = Len(order) THEN step ELSE @])
WriteOuter(p) ==
  LET f == Outer[job[p].at]
  IN /\ At(p, "outer")
     /\ \/ /\ f \notin DOMAIN dir
           /\ dir' = With(dir, f, OuterContent(job[p], p, f)) /\ Advance(p, Outer, "preflight") /\ UNCHANGED faults
        \/ f \in DOMAIN dir /\ Fail(p) /\ UNCHANGED <<dir, faults>>
        \/ /\ f \notin DOMAIN dir /\ faults < MaxFaults /\ faults' = faults + 1
           /\ dir' = With(dir, f, Junk) /\ Fail(p)
     /\ UNCHANGED <<pinned, report, returned, edits>>

(* create_report: all inputs are read and compared with their digests      *)
(* before the directory is made.                                           *)
Sound(files) ==
  /\ "case" \in DOMAIN files /\ files["case"] \in Cases
  /\ \A i \in DOMAIN Copies : Outer[i] \in DOMAIN files /\ files[Outer[i]] = files["case"].evidence[i]
Preflight(p) ==
  /\ At(p, "preflight")
  /\ IF Sound(dir) /\ report = None
       THEN /\ report' = << >>
            /\ Set(p, [job[p] EXCEPT !.step = "inner", !.at = 1, !.case = dir["case"], !.evidence = dir["case"].evidence])
       ELSE Fail(p) /\ UNCHANGED report
  /\ UNCHANGED <<pinned, dir, returned, edits, faults>>
WriteInner(p) ==
  LET f == Inner[job[p].at]
  IN /\ At(p, "inner")
     /\ \/ /\ f \notin DOMAIN report
           /\ report' = With(report, f, InnerContent(job[p], p, f)) /\ Advance(p, Inner, "verify") /\ UNCHANGED faults
        \/ f \in DOMAIN report /\ Fail(p) /\ UNCHANGED <<report, faults>>
        \/ /\ f \notin DOMAIN report /\ faults < MaxFaults /\ faults' = faults + 1
           /\ report' = With(report, f, Junk) /\ Fail(p)
     /\ UNCHANGED <<pinned, dir, returned, edits>>

(* create_report and check verify what they made, with its own receipt.    *)
Return(p) ==
  LET r == ReceiptOf(job[p].case, job[p].evidence, p)
  IN /\ At(p, "verify")
     /\ IF Verifies(job[p].baseline, r)
          THEN /\ returned' = returned \union {[proc |-> p, baseline |-> job[p].baseline, receipt |-> r, dir |-> dir, report |-> report]}
               /\ Set(p, [job[p] EXCEPT !.step = "returned"])
          ELSE Fail(p) /\ UNCHANGED returned
     /\ UNCHANGED <<pinned, dir, report, edits, faults>>
Die(p) ==
  /\ job[p].step \notin {"idle", "failed", "returned"} /\ faults < MaxFaults
  /\ faults' = faults + 1 /\ Fail(p) /\ UNCHANGED <<pinned, dir, report, returned, edits>>

(* The user removes a file or directory, or writes something else there.   *)
Written(f) ==
  {Junk} \union (CASE f = "baseline" -> Baselines
                   [] f = "observations" -> Observations
                   [] f = "check" -> {Comparison(b, o) : b \in Baselines, o \in Observations}
                   [] f = "case" -> Cases
                   [] f = "receipt" -> Receipts
                   [] OTHER -> {})
Edited(files, order) ==
  {With(files, f, c) : f \in {"unlisted"}, c \in {Junk}}
    \union (UNION {{With(files, f, c) : c \in Written(f)} : f \in Files(order) \intersect DOMAIN files})
    \union {[g \in DOMAIN files \ {f} |-> files[g]] : f \in DOMAIN files}
Edit ==
  /\ edits < MaxEdits /\ edits' = edits + 1
  /\ \/ dir # None /\ dir' \in Edited(dir, Outer) /\ UNCHANGED <<pinned, report>>
     \/ report # None /\ report' \in Edited(report, Inner) /\ UNCHANGED <<pinned, dir>>
     \/ pinned' \in {Junk} \union Baselines /\ UNCHANGED <<dir, report>>
  /\ UNCHANGED <<job, returned, faults>>

Init ==
  /\ pinned \in Baselines /\ dir = None /\ report = None
  /\ job = [p \in Procs |-> Idle] /\ returned = {} /\ edits = 0 /\ faults = 0
Next ==
  \/ \E p \in Procs :
       Begin(p) \/ Create(p) \/ WriteOuter(p) \/ Preflight(p) \/ WriteInner(p) \/ Return(p) \/ Die(p)
  \/ Edit
Spec == Init /\ [][Next]_vars

-----------------------------------------------------------------------------
(* A bundle that verifies against the receipt of a check that returned is  *)
(* that check's, file by file, whatever was done to it since; and as long  *)
(* as nobody edits it, the bundle that a check returned goes on verifying  *)
(* and shows what that check observed, and what verifies without a trusted *)
(* receipt was finished by one process.                                    *)
BundlesAreWhole ==
  /\ \A r \in returned : Verifies(r.baseline, r.receipt) => dir = r.dir /\ report = r.report
  /\ edits = 0 =>
       /\ \A r \in returned :
            Verifies(r.baseline, r.receipt) /\ dir["observations"] = job[r.proc].observation /\ dir["case"].author = r.proc
       /\ \A b \in Baselines : Verifies(b, None) =>
            \E p \in Procs : job[p].at > Len(Inner) /\ dir["case"].author = p /\ dir["observations"] = job[p].observation
=============================================================================
