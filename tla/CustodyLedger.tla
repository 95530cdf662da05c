---------------------------- MODULE CustodyLedger ----------------------------
(***************************************************************************)
(* The custody ledger (src/src/ledger.rs): a JSON-lines file of hash-      *)
(* chained events, a head checkpoint written beside it by rename, and a    *)
(* lock file that only appenders take.  Several processes append and audit *)
(* concurrently; each file-system call is one step, so that another        *)
(* process, an I/O error or a crash can come between any two of them.      *)
(*                                                                         *)
(* Sources of loss: an I/O error makes append() return Err (and drop the   *)
(* lock); a crash, or a lock file that cannot be unlinked, leaves the lock *)
(* behind.  Nothing in the program ever clears a stale lock or repairs a   *)
(* ledger whose head checkpoint lags.                                      *)
(***************************************************************************)
EXTENDS Integers, Sequences, SequencesExt

CONSTANTS
  Procs,          \* operating-system processes, each with its own pid
  Payloads,       \* event type, subject and payload
  None,           \* no lock holder
  MaxEvents,      \* bound: no append starts once the log has this many events
  MaxErrors,      \* bound on I/O errors
  MaxCrashes      \* bound on crashes and lock files that cannot be removed

ASSUME LedgerConstants ==
  /\ None \notin Procs
  /\ MaxEvents \in Nat /\ MaxErrors \in Nat /\ MaxCrashes \in Nat

VARIABLES
  log,            \* the complete lines of custody-ledger.jsonl
  exists,         \* the file exists (open(create) precedes its first byte)
  torn,           \* an incomplete last line follows them
  head,           \* custody-ledger-head.json, or NoHead
  temporaries,    \* pids whose head temporary file exists
  lock,           \* holder of custody-ledger.lock, or None
  pc,             \* where each process is in append() or audit()
  op,             \* which of the two it runs
  payload,        \* the event it was asked to append
  view,           \* the events its audit read
  verified,       \* its audit's verdict
  answer,         \* what append() is about to return
  acked,          \* events whose append() returned Ok
  errors, crashes

files == <<log, exists, torn, head, temporaries>>
vars == <<log, exists, torn, head, temporaries, lock, pc, op, payload, view,
          verified, answer, acked, errors, crashes>>

Events == INSTANCE EventChain WITH chain <- log

NoHead == [sequence |-> 0, sha256 |-> <<"missing">>]

(* The head checkpoint that covers exactly these events.                   *)
HeadOf(events) == [sequence |-> Len(events), sha256 |-> Events!HashOf(events)]

(* audit()'s verdict on the events it read and the checkpoint it read      *)
(* afterwards; a missing checkpoint agrees with nothing.                   *)
Verdict(events, incomplete, checkpoint) ==
  /\ Events!Linked(events)
  /\ ~incomplete
  /\ checkpoint = HeadOf(events)

(* Mutant: every event starts a chain of its own.                          *)
NewEventUnlinked(p) == Events!Seal(Len(view[p]) + 1, Events!NoHash, payload[p])

NewEvent(p) == Events!NextEvent(view[p], payload[p])

Goto(p, label) == pc' = [pc EXCEPT ![p] = label]

Finish(p, result) ==
  /\ Goto(p, "release")
  /\ answer' = [answer EXCEPT ![p] = result]

-----------------------------------------------------------------------------
Init ==
  /\ log = << >> /\ exists = FALSE /\ torn = FALSE /\ head = NoHead /\ temporaries = {}
  /\ lock = None
  /\ pc = [p \in Procs |-> "idle"]
  /\ op = [p \in Procs |-> "audit"]
  /\ payload = [p \in Procs |-> None]
  /\ view = [p \in Procs |-> << >>]
  /\ verified = [p \in Procs |-> FALSE]
  /\ answer = [p \in Procs |-> "none"]
  /\ acked = {} /\ errors = 0 /\ crashes = 0

(* append() is called; bounded by MaxEvents.                               *)
StartAppend(p, e) ==
  /\ pc[p] = "idle" /\ Len(log) < MaxEvents
  /\ Goto(p, "acquire")
  /\ op' = [op EXCEPT ![p] = "append"]
  /\ payload' = [payload EXCEPT ![p] = e]
  /\ verified' = [verified EXCEPT ![p] = FALSE]
  /\ UNCHANGED <<files, lock, view, answer, acked, errors, crashes>>

(* audit() is called on its own (status, audit-ledger, run, freeze): it    *)
(* takes no lock.                                                          *)
StartAudit(p) ==
  /\ pc[p] = "idle"
  /\ Goto(p, "readlog")
  /\ op' = [op EXCEPT ![p] = "audit"]
  /\ verified' = [verified EXCEPT ![p] = FALSE]
  /\ UNCHANGED <<files, lock, payload, view, answer, acked, errors, crashes>>

(* LedgerLock::acquire: create_new on the lock file.                       *)
Acquire(p) ==
  /\ pc[p] = "acquire" /\ lock = None
  /\ lock' = p
  /\ Goto(p, "readlog")
  /\ UNCHANGED <<files, op, payload, view, verified, answer, acked, errors, crashes>>

(* The lock file is there: append() fails at once, it never waits.         *)
Contended(p) ==
  /\ pc[p] = "acquire" /\ lock # None
  /\ Goto(p, "idle")
  /\ answer' = [answer EXCEPT ![p] = "locked"]
  /\ UNCHANGED <<files, lock, op, payload, view, verified, acked, errors, crashes>>

AfterAudit(p) == Goto(p, IF op[p] = "append" THEN "decide" ELSE "idle")

(* audit(): a ledger file that does not exist is verified and empty.       *)
AuditMissing(p) ==
  /\ pc[p] = "readlog" /\ ~exists
  /\ view' = [view EXCEPT ![p] = << >>]
  /\ verified' = [verified EXCEPT ![p] = TRUE]
  /\ AfterAudit(p)
  /\ UNCHANGED <<files, lock, op, payload, answer, acked, errors, crashes>>

(* audit(): the lines up to the end of the file, at the moment the end is  *)
(* read.  An incomplete line fails EVENT_JSON; the checkpoint comes later. *)
ReadLog(p) ==
  /\ pc[p] = "readlog" /\ exists
  /\ view' = [view EXCEPT ![p] = log]
  /\ Goto(p, IF torn THEN "readhead_torn" ELSE "readhead")
  /\ UNCHANGED <<files, lock, op, payload, verified, answer, acked, errors, crashes>>

(* audit(): the checkpoint, read after the log and not under the same lock.*)
ReadHead(p) ==
  /\ pc[p] \in {"readhead", "readhead_torn"}
  /\ verified' = [verified EXCEPT ![p] = Verdict(view[p], pc[p] = "readhead_torn", head)]
  /\ AfterAudit(p)
  /\ UNCHANGED <<files, lock, op, payload, view, answer, acked, errors, crashes>>

(* Mutant: the refusal returns past the guard that drops the lock.         *)
RefuseKeepsLock(p) ==
  /\ pc[p] = "decide" /\ ~verified[p]
  /\ Goto(p, "idle")
  /\ answer' = [answer EXCEPT ![p] = "refused"]
  /\ UNCHANGED <<files, lock, op, payload, view, verified, acked, errors, crashes>>

(* "Refusing to append to a damaged custody ledger."                       *)
Refuse(p) ==
  /\ pc[p] = "decide" /\ ~verified[p]
  /\ Finish(p, "refused")
  /\ UNCHANGED <<files, lock, op, payload, view, verified, acked, errors, crashes>>

(* Mutant: the audit's verdict is not looked at.                           *)
OpenLogUnaudited(p) ==
  /\ pc[p] = "decide"
  /\ exists' = TRUE
  /\ Goto(p, "write")
  /\ UNCHANGED <<log, torn, head, temporaries, lock, op, payload, view, verified,
                 answer, acked, errors, crashes>>

(* The event is built from the audit's report; the file is opened for      *)
(* append, and created if it is missing.                                   *)
OpenLog(p) ==
  /\ pc[p] = "decide" /\ verified[p]
  /\ exists' = TRUE
  /\ Goto(p, "write")
  /\ UNCHANGED <<log, torn, head, temporaries, lock, op, payload, view, verified,
                 answer, acked, errors, crashes>>

(* serde_json::to_writer writes straight to the file, piece by piece: an   *)
(* incomplete line is visible to a concurrent audit.                       *)
BeginLine(p) ==
  /\ pc[p] = "write"
  /\ torn' = TRUE
  /\ Goto(p, "writing")
  /\ UNCHANGED <<log, exists, head, temporaries, lock, op, payload, view, verified,
                 answer, acked, errors, crashes>>

(* The last byte of the JSON; the newline and sync_all that follow change  *)
(* nothing that an audit sees.                                             *)
EndLine(p) ==
  /\ pc[p] = "writing"
  /\ torn' = FALSE
  /\ log' = Append(log, NewEvent(p))
  /\ Goto(p, "temporary")
  /\ UNCHANGED <<exists, head, temporaries, lock, op, payload, view, verified,
                 answer, acked, errors, crashes>>

(* atomic_write_json: create_new on the temporary named after the pid,     *)
(* write and sync it.  (NoLeftoverInTheWay: the file is never there yet.)  *)
WriteTemporary(p) ==
  /\ pc[p] = "temporary" /\ p \notin temporaries
  /\ temporaries' = temporaries \union {p}
  /\ Goto(p, "rename")
  /\ UNCHANGED <<log, exists, torn, head, lock, op, payload, view, verified,
                 answer, acked, errors, crashes>>

(* Mutant: the checkpoint of the log before the append.                    *)
RenameStaleHead(p) ==
  /\ pc[p] = "rename"
  /\ head' = HeadOf(view[p])
  /\ temporaries' = temporaries \ {p}
  /\ Finish(p, "ok")
  /\ UNCHANGED <<log, exists, torn, lock, op, payload, view, verified, acked, errors, crashes>>

RenameHead(p) ==
  /\ pc[p] = "rename"
  /\ head' = [sequence |-> NewEvent(p).sequence, sha256 |-> NewEvent(p).sha256]
  /\ temporaries' = temporaries \ {p}
  /\ Finish(p, "ok")
  /\ UNCHANGED <<log, exists, torn, lock, op, payload, view, verified, acked, errors, crashes>>

(* LedgerLock::drop, on every way out of append() after acquire().         *)
Release(p) ==
  /\ pc[p] = "release"
  /\ lock' = None
  /\ Goto(p, "idle")
  /\ acked' = IF answer[p] = "ok" THEN acked \union {NewEvent(p)} ELSE acked
  /\ UNCHANGED <<files, op, payload, view, verified, answer, errors, crashes>>

(* Drop ignores an error of remove_file: the call returns, the lock file   *)
(* stays.                                                                  *)
ReleaseFails(p) ==
  /\ pc[p] = "release" /\ crashes < MaxCrashes
  /\ crashes' = crashes + 1
  /\ Goto(p, "idle")
  /\ acked' = IF answer[p] = "ok" THEN acked \union {NewEvent(p)} ELSE acked
  /\ UNCHANGED <<files, lock, op, payload, view, verified, answer, errors>>

(* audit() reports an unreadable file as a failed check, not as an error.  *)
AuditReadError(p) ==
  /\ pc[p] \in {"readlog", "readhead", "readhead_torn"} /\ exists /\ errors < MaxErrors
  /\ errors' = errors + 1
  /\ verified' = [verified EXCEPT ![p] = FALSE]
  /\ AfterAudit(p)
  /\ UNCHANGED <<files, lock, op, payload, view, answer, acked, crashes>>

(* An error of open, write, sync, digest, create or rename: `?` returns    *)
(* and the lock is dropped; whatever was written stays.  A failed write of *)
(* the temporary leaves the temporary.                                     *)
WriteError(p) ==
  /\ pc[p] \in {"decide", "write", "writing", "temporary", "rename"} /\ errors < MaxErrors
  /\ pc[p] = "decide" => verified[p]
  /\ errors' = errors + 1
  /\ Finish(p, "error")
  /\ temporaries' \in {temporaries, IF pc[p] = "temporary" THEN temporaries \union {p} ELSE temporaries}
  /\ UNCHANGED <<log, exists, torn, head, lock, op, payload, view, verified, acked, crashes>>

(* The process dies between two system calls; its files stay as they are.  *)
Crash(p) ==
  /\ pc[p] # "idle" /\ crashes < MaxCrashes
  /\ crashes' = crashes + 1
  /\ Goto(p, "idle")
  /\ verified' = [verified EXCEPT ![p] = FALSE]
  /\ UNCHANGED <<files, lock, op, payload, view, answer, acked, errors>>

-----------------------------------------------------------------------------
Start(p) == StartAudit(p) \/ \E e \in Payloads : StartAppend(p, e)

Step(p) ==
  \/ Acquire(p) \/ Contended(p)
  \/ AuditMissing(p) \/ ReadLog(p) \/ ReadHead(p)
  \/ Refuse(p) \/ OpenLog(p) \/ BeginLine(p) \/ EndLine(p)
  \/ WriteTemporary(p) \/ RenameHead(p)
  \/ Release(p)

Fault(p) == ReleaseFails(p) \/ AuditReadError(p) \/ WriteError(p) \/ Crash(p)

Next == \E p \in Procs : Start(p) \/ Step(p) \/ Fault(p)

Spec == Init /\ [][Next]_vars

-----------------------------------------------------------------------------
Labels == {"idle", "acquire", "readlog", "readhead", "readhead_torn", "decide",
           "write", "writing", "temporary", "rename", "release"}

(* p runs append() between acquire() and the drop of its lock.             *)
Holding(p) == op[p] = "append" /\ pc[p] \notin {"idle", "acquire"}

(* p's event is being written, or written but not yet under the head.      *)
Writing(p) == pc[p] \in {"write", "writing", "temporary", "rename"}

(* The log and every view of it are sequences; an event's type is pinned   *)
(* down by the chain it is in.                                             *)
SequencesOK ==
  /\ log \in Seq(ToSet(log))
  /\ view = [p \in Procs |-> view[p]]
  /\ \A p \in Procs : view[p] \in Seq(ToSet(view[p]))

ControlOK ==
  /\ exists \in BOOLEAN /\ torn \in BOOLEAN
  /\ head.sequence \in Nat
  /\ temporaries \subseteq Procs
  /\ lock \in Procs \union {None}
  /\ pc \in [Procs -> Labels]
  /\ op \in [Procs -> {"append", "audit"}]
  /\ payload \in [Procs -> Payloads \union {None}]
  /\ verified \in [Procs -> BOOLEAN]
  /\ answer \in [Procs -> {"none", "locked", "refused", "error", "ok"}]
  /\ errors \in 0..MaxErrors /\ crashes \in 0..MaxCrashes

(* Every variable stays in its domain.                                     *)
TypeOK == SequencesOK /\ ControlOK

(* The lock file keeps every other process out of the read-check-write     *)
(* sequence of append(), through crashes and failed unlinks.               *)
Exclusion == \A p \in Procs : Holding(p) => lock = p

(* The checkpoint never runs ahead of the log or names another event than  *)
(* the one at its sequence, and every event whose append() returned Ok is  *)
(* at or below it: no later fault can take an acknowledged event out of    *)
(* what audits are checked against.                                        *)
AcknowledgedCovered ==
  /\ head # NoHead => /\ head.sequence \in DOMAIN log
                      /\ head.sha256 = log[head.sequence].sha256
  /\ acked \subseteq {log[i] : i \in 1..head.sequence}

(* However many errors and crashes happen, at most one event is ever in    *)
(* the log above the checkpoint: the next append() refuses to add another. *)
AtMostOneUncovered == Len(log) <= head.sequence + 1

(* A head temporary left by a failed or crashed append is never in the way *)
(* of a later one: it is created after the event's line, so its ledger is  *)
(* damaged and append() refuses before it comes to the checkpoint.         *)
NoLeftoverInTheWay == \A p \in Procs : pc[p] = "temporary" => p \notin temporaries

Clean == ~exists \/ Verdict(log, torn, head)

(* Without an error or a crash the ledger always verifies when nobody      *)
(* holds the lock, and no append() is refused as damaged.                  *)
OnlyFaultsDamage ==
  errors + crashes = 0 =>
    /\ lock = None => Clean
    /\ \A p \in Procs : answer[p] # "refused"

Damaged == ~Clean /\ \A p \in Procs : Holding(p) => ~Writing(p)

(* "Refusing to append to a damaged custody ledger": once it is damaged    *)
(* and nobody is in the middle of a write, no sequence of calls ever adds  *)
(* an event again or makes it verify.                                      *)
DamageIsFinal == [][Damaged => Damaged' /\ log' = log]_vars

PassedAgainstChain(p) == IsPrefix(view'[p], log) /\ acked \subseteq ToSet(view'[p])

(* An audit without the lock that reports the ledger verified saw a prefix *)
(* of the true chain that holds every event acknowledged up to the end of  *)
(* the audit, although it reads the log and the checkpoint separately.     *)
VerifiedAuditCurrent ==
  [][\A p \in Procs : ~verified[p] /\ verified'[p] => PassedAgainstChain(p)]_vars

(* The files, the lock and the checkpoint implement one growing chain.     *)
ImplementsEventChain == Events!Spec

(* No way out of append() keeps the lock: while no process has crashed and *)
(* no unlink has failed, the lock file belongs to a process that is still  *)
(* inside, whatever errors append() met.                                   *)
LockGivenBack == crashes = 0 => lock = None \/ Holding(lock)
=============================================================================
