------------------------- MODULE CustodyLedgerProofs -------------------------
(***************************************************************************)
(* Theorems about CustodyLedger for every set of processes, every set of   *)
(* payloads and every bound.  The inductive invariant IInv strengthens the *)
(* safety invariants with what a process that holds the lock knows: from   *)
(* the moment it has audited, its view is the log, and the log is covered  *)
(* by the checkpoint; from the end of its write to the rename, exactly its *)
(* own event is uncovered.                                                 *)
(***************************************************************************)
EXTENDS CustodyLedger, TLAPS

(* No process but the holder is anywhere in append()'s locked part.        *)
OnlyAppendersWrite ==
  \A p \in Procs : pc[p] \in {"acquire", "decide", "write", "writing", "temporary", "rename", "release"}
    => op[p] = "append"

(* An append in progress has an event to write.                            *)
PayloadChosen ==
  \A p \in Procs : pc[p] # "idle" /\ op[p] = "append" => payload[p] \in Payloads

ChainLinked == Events!Linked(log)

MissingIsEmpty == ~exists => log = << >> /\ head = NoHead /\ ~torn

HolderKnows(p) ==
  /\ pc[p] \in {"readhead", "readhead_torn"} => view[p] = log /\ exists
  /\ pc[p] = "readhead" => ~torn
  /\ pc[p] = "decide" /\ verified[p] => view[p] = log /\ head.sequence = Len(log) /\ ~torn
  /\ pc[p] \in {"write", "writing"} => view[p] = log /\ head.sequence = Len(log) /\ exists
  /\ pc[p] = "write" => ~torn
  /\ pc[p] \in {"temporary", "rename"} => /\ log = Append(view[p], NewEvent(p))
                                         /\ head.sequence = Len(view[p]) /\ exists
  /\ pc[p] = "release" /\ answer[p] = "ok" => /\ log = Append(view[p], NewEvent(p))
                                             /\ head.sequence = Len(log)

HolderViewIsLog == \A p \in Procs : Holding(p) => HolderKnows(p)

AuditViewIsPrefix ==
  \A p \in Procs : pc[p] \in {"readhead", "readhead_torn"} =>
    /\ Len(view[p]) <= Len(log)
    /\ \A i \in 1..Len(view[p]) : view[p][i] = log[i]

IInv ==
  /\ TypeOK
  /\ Exclusion
  /\ OnlyAppendersWrite
  /\ PayloadChosen
  /\ ChainLinked
  /\ MissingIsEmpty
  /\ AcknowledgedCovered
  /\ AtMostOneUncovered
  /\ HolderViewIsLog
  /\ AuditViewIsPrefix

-----------------------------------------------------------------------------
(* Appending to a well-formed sequence gives a well-formed one, with the   *)
(* old elements in place and the new one at the end.                       *)
LEMMA AppendFacts ==
  ASSUME NEW s, s \in Seq(ToSet(s)), NEW e
  PROVE  /\ Append(s, e) \in Seq(ToSet(Append(s, e)))
         /\ Len(s) \in Nat /\ DOMAIN s = 1..Len(s)
         /\ Len(Append(s, e)) = Len(s) + 1
         /\ DOMAIN Append(s, e) = 1..(Len(s) + 1)
         /\ \A i \in 1..Len(s) : Append(s, e)[i] = s[i]
         /\ Append(s, e)[Len(s) + 1] = e
<1> DEFINE S == ToSet(s) \union {e}
<1>1. s \in Seq(S) /\ e \in S
  BY SMT DEF ToSet
<1>2. /\ Append(s, e) \in Seq(S) /\ Len(s) \in Nat /\ DOMAIN s = 1..Len(s)
      /\ Len(Append(s, e)) = Len(s) + 1
      /\ DOMAIN Append(s, e) = 1..(Len(s) + 1)
      /\ \A i \in 1..Len(s) : Append(s, e)[i] = s[i]
      /\ Append(s, e)[Len(s) + 1] = e
  BY <1>1, SMT
<1>3. S = ToSet(Append(s, e))
  BY <1>2, SMT DEF ToSet
<1> QED BY <1>2, <1>3

LEMMA EmptyIsSequence == << >> \in Seq(ToSet(<< >>)) /\ Len(<< >>) = 0
BY SMT DEF ToSet

(* A sequence that agrees with another up to its own length is a prefix.   *)
LEMMA PrefixFact ==
  ASSUME NEW s, s \in Seq(ToSet(s)), NEW t, t \in Seq(ToSet(t)),
         Len(s) <= Len(t), \A i \in 1..Len(s) : s[i] = t[i]
  PROVE  IsPrefix(s, t)
BY SMT DEF IsPrefix

LEMMA LogFacts ==
  ASSUME TypeOK
  PROVE  Len(log) \in Nat /\ DOMAIN log = 1..Len(log)
BY SMT DEF TypeOK, SequencesOK

(* Only AuditMissing, ReadLog and EndLine change a sequence.               *)
LEMMA SequencesStep == SequencesOK /\ [Next]_vars => SequencesOK'
<1> SUFFICES ASSUME SequencesOK, [Next]_vars PROVE SequencesOK'
  OBVIOUS
<1>1. ASSUME NEW p \in Procs, AuditMissing(p) \/ ReadLog(p) PROVE SequencesOK'
  <2>1. /\ view' = [q \in Procs |-> view'[q]]
        /\ \A q \in Procs : view'[q] \in Seq(ToSet(view'[q]))
    BY <1>1, EmptyIsSequence, Zenon DEF SequencesOK, AuditMissing, ReadLog
  <2>2. log' = log
    BY <1>1 DEF AuditMissing, ReadLog, files
  <2> QED BY <2>1, <2>2 DEF SequencesOK
<1>2. ASSUME NEW p \in Procs, EndLine(p) PROVE SequencesOK'
  <2>1. log' = Append(log, NewEvent(p)) /\ view' = view
    BY <1>2 DEF EndLine
  <2>2. log' \in Seq(ToSet(log'))
    BY <2>1, AppendFacts DEF SequencesOK
  <2> QED BY <2>1, <2>2 DEF SequencesOK
<1>3. CASE UNCHANGED <<log, view>>
  BY <1>3 DEF SequencesOK
<1> QED
  BY <1>1, <1>2, <1>3 DEF Next, Start, Step, Fault, vars, files, StartAppend, StartAudit, Acquire,
     Contended, ReadHead, Refuse, OpenLog, BeginLine, WriteTemporary,
     RenameHead, Release, ReleaseFails, AuditReadError, WriteError, Crash

LEMMA ControlStep == TypeOK /\ [Next]_vars => ControlOK'
<1> SUFFICES ASSUME SequencesOK, ControlOK, [Next]_vars PROVE ControlOK'
  BY DEF TypeOK
<1> USE LedgerConstants
<1>1. ASSUME NEW p \in Procs, Start(p) PROVE ControlOK'
  <2>1. CASE StartAudit(p)
    BY <2>1, SMT DEF ControlOK, StartAudit, Goto, files, Labels
  <2>2. ASSUME NEW e \in Payloads, StartAppend(p, e) PROVE ControlOK'
    BY <2>2, SMT DEF ControlOK, StartAppend, Goto, files, Labels
  <2> QED BY <1>1, <2>1, <2>2 DEF Start
<1>2. ASSUME NEW p \in Procs, Acquire(p) PROVE ControlOK'
  BY <1>2, SMT DEF ControlOK, Acquire, Goto, files, Labels
<1>3. ASSUME NEW p \in Procs, Contended(p) PROVE ControlOK'
  BY <1>3, SMT DEF ControlOK, Contended, Goto, files, Labels
<1>4. ASSUME NEW p \in Procs, AuditMissing(p) PROVE ControlOK'
  BY <1>4, SMT DEF ControlOK, AuditMissing, AfterAudit, Goto, files, Labels
<1>5. ASSUME NEW p \in Procs, ReadLog(p) PROVE ControlOK'
  BY <1>5, SMT DEF ControlOK, ReadLog, Goto, files, Labels
<1>6. ASSUME NEW p \in Procs, ReadHead(p) PROVE ControlOK'
  BY <1>6, SMT DEF ControlOK, ReadHead, AfterAudit, Verdict, Goto, files, Labels
<1>7. ASSUME NEW p \in Procs, Refuse(p) PROVE ControlOK'
  BY <1>7, SMT DEF ControlOK, Refuse, Finish, Goto, files, Labels
<1>8. ASSUME NEW p \in Procs, OpenLog(p) PROVE ControlOK'
  BY <1>8, SMT DEF ControlOK, OpenLog, Goto, files, Labels
<1>9. ASSUME NEW p \in Procs, BeginLine(p) PROVE ControlOK'
  BY <1>9, SMT DEF ControlOK, BeginLine, Goto, files, Labels
<1>10. ASSUME NEW p \in Procs, EndLine(p) PROVE ControlOK'
  <2>1. /\ torn' \in BOOLEAN /\ pc' = [pc EXCEPT ![p] = "temporary"]
        /\ UNCHANGED <<exists, head, temporaries, lock, op, payload, verified, answer, errors, crashes>>
    BY <1>10, Zenon DEF EndLine, Goto
  <2> QED BY <2>1, SMT DEF ControlOK, Labels
<1>11. ASSUME NEW p \in Procs, WriteTemporary(p) PROVE ControlOK'
  BY <1>11, SMT DEF ControlOK, WriteTemporary, Goto, files, Labels
<1>13. ASSUME NEW p \in Procs, RenameHead(p) PROVE ControlOK'
  <2>1. head'.sequence = Len(view[p]) + 1 /\ Len(view[p]) \in Nat
    BY <1>13, SMT DEF SequencesOK, RenameHead, NewEvent, Events!NextEvent, Events!Seal
  <2> QED BY <1>13, <2>1, SMT DEF ControlOK, RenameHead, Finish, Goto, Labels
<1>14. ASSUME NEW p \in Procs, Release(p) PROVE ControlOK'
  BY <1>14, SMT DEF ControlOK, Release, Goto, files, Labels
<1>15. ASSUME NEW p \in Procs, ReleaseFails(p) PROVE ControlOK'
  BY <1>15, SMT DEF ControlOK, ReleaseFails, Goto, files, Labels
<1>16. ASSUME NEW p \in Procs, AuditReadError(p) PROVE ControlOK'
  BY <1>16, SMT DEF ControlOK, AuditReadError, AfterAudit, Goto, files, Labels
<1>17. ASSUME NEW p \in Procs, WriteError(p) PROVE ControlOK'
  BY <1>17, SMT DEF ControlOK, WriteError, Finish, Goto, files, Labels
<1>18. ASSUME NEW p \in Procs, Crash(p) PROVE ControlOK'
  BY <1>18, SMT DEF ControlOK, Crash, Goto, files, Labels
<1>19. CASE UNCHANGED vars
  BY <1>19, SMT DEF ControlOK, vars, files
<1> QED
  BY <1>1, <1>2, <1>3, <1>4, <1>5, <1>6, <1>7, <1>8, <1>9, <1>10, <1>11, <1>13, <1>14, <1>15, <1>16, <1>17, <1>18, <1>19 DEF Next, Step, Fault

LEMMA InitType == Init => TypeOK
<1> SUFFICES ASSUME Init PROVE TypeOK
  OBVIOUS
<1>1. SequencesOK
  <2>1. log = << >> /\ view = [p \in Procs |-> << >>]
    BY DEF Init
  <2>2. view = [p \in Procs |-> view[p]] /\ \A p \in Procs : view[p] = << >>
    BY <2>1, Zenon
  <2> QED BY <2>1, <2>2, EmptyIsSequence DEF SequencesOK
<1>2. ControlOK
  <2>1. exists \in BOOLEAN /\ torn \in BOOLEAN /\ verified \in [Procs -> BOOLEAN]
    BY Zenon DEF Init
  <2>2. /\ head = NoHead /\ temporaries = {} /\ lock = None
        /\ pc = [p \in Procs |-> "idle"] /\ op = [p \in Procs |-> "audit"]
        /\ payload = [p \in Procs |-> None] /\ answer = [p \in Procs |-> "none"]
        /\ errors = 0 /\ crashes = 0
    BY DEF Init
  <2> QED BY <2>1, <2>2, LedgerConstants, SMT DEF ControlOK, NoHead, Labels
<1> QED BY <1>1, <1>2 DEF TypeOK

(* Every reachable state is well typed.                                    *)
THEOREM TypeCorrect == Spec => []TypeOK
<1>1. TypeOK /\ [Next]_vars => TypeOK'
  BY SequencesStep, ControlStep DEF TypeOK
<1> QED BY <1>1, InitType, PTL DEF Spec

(* The lock keeps appenders apart: a process enters the locked part only   *)
(* through Acquire, and only its holder clears the lock.                   *)
LockOK == Exclusion /\ OnlyAppendersWrite /\ PayloadChosen

LEMMA ExclusionStep == TypeOK /\ LockOK /\ [Next]_vars => LockOK'
<1> SUFFICES ASSUME ControlOK, LockOK, [Next]_vars PROVE LockOK'
  BY DEF TypeOK
<1> USE LedgerConstants DEF LockOK, Exclusion, OnlyAppendersWrite, PayloadChosen, Holding, ControlOK
<1>1. ASSUME NEW p \in Procs, NEW e \in Payloads, StartAppend(p, e) PROVE LockOK'
  BY <1>1, SMT DEF StartAppend, Goto
<1>2. ASSUME NEW p \in Procs, StartAudit(p) PROVE LockOK'
  BY <1>2, SMT DEF StartAudit, Goto
<1>3. ASSUME NEW p \in Procs, Acquire(p) PROVE LockOK'
  BY <1>3, SMT DEF Acquire, Goto
<1>4. ASSUME NEW p \in Procs, Contended(p) PROVE LockOK'
  BY <1>4, SMT DEF Contended, Goto
<1>5. ASSUME NEW p \in Procs, AuditMissing(p) PROVE LockOK'
  BY <1>5, SMT DEF AuditMissing, AfterAudit, Goto
<1>6. ASSUME NEW p \in Procs, ReadLog(p) PROVE LockOK'
  BY <1>6, SMT DEF ReadLog, Goto
<1>7. ASSUME NEW p \in Procs, ReadHead(p) PROVE LockOK'
  BY <1>7, SMT DEF ReadHead, AfterAudit, Goto
<1>8. ASSUME NEW p \in Procs, Refuse(p) PROVE LockOK'
  BY <1>8, SMT DEF Refuse, Finish, Goto
<1>9. ASSUME NEW p \in Procs, OpenLog(p) PROVE LockOK'
  BY <1>9, SMT DEF OpenLog, Goto
<1>10. ASSUME NEW p \in Procs, BeginLine(p) PROVE LockOK'
  BY <1>10, SMT DEF BeginLine, Goto
<1>11. ASSUME NEW p \in Procs, EndLine(p) PROVE LockOK'
  BY <1>11, SMT DEF EndLine, Goto
<1>12. ASSUME NEW p \in Procs, WriteTemporary(p) PROVE LockOK'
  BY <1>12, SMT DEF WriteTemporary, Goto
<1>14. ASSUME NEW p \in Procs, RenameHead(p) PROVE LockOK'
  BY <1>14, SMT DEF RenameHead, Finish, Goto
<1>15. ASSUME NEW p \in Procs, Release(p) PROVE LockOK'
  BY <1>15, SMT DEF Release, Goto
<1>16. ASSUME NEW p \in Procs, ReleaseFails(p) PROVE LockOK'
  BY <1>16, SMT DEF ReleaseFails, Goto
<1>17. ASSUME NEW p \in Procs, AuditReadError(p) PROVE LockOK'
  BY <1>17, SMT DEF AuditReadError, AfterAudit, Goto
<1>18. ASSUME NEW p \in Procs, WriteError(p) PROVE LockOK'
  BY <1>18, SMT DEF WriteError, Finish, Goto
<1>19. ASSUME NEW p \in Procs, Crash(p) PROVE LockOK'
  BY <1>19, SMT DEF Crash, Goto
<1>20. CASE UNCHANGED vars
  BY <1>20 DEF vars
<1> QED
  BY <1>1, <1>2, <1>3, <1>4, <1>5, <1>6, <1>7, <1>8, <1>9, <1>10, <1>11, <1>12, <1>14, <1>15, <1>16, <1>17, <1>18, <1>19, <1>20 DEF Next, Start, Step, Fault

(* An action of one process leaves the local state of the others alone, and*)
(* changes the files only while the process holds the lock.                *)
Act(p) == Start(p) \/ Step(p) \/ Fault(p)

LEMMA OthersUntouched ==
  ASSUME TypeOK, NEW p \in Procs, NEW q \in Procs, p # q, Act(p)
  PROVE  /\ pc'[q] = pc[q] /\ op'[q] = op[q] /\ view'[q] = view[q] /\ payload'[q] = payload[q]
         /\ verified'[q] = verified[q] /\ answer'[q] = answer[q]
<1>1. view \in [Procs -> {view[r] : r \in Procs}]
  BY DEF TypeOK, SequencesOK
<1>2. /\ pc'[q] = pc[q] /\ op'[q] = op[q] /\ payload'[q] = payload[q] /\ answer'[q] = answer[q]
  BY SMT DEF TypeOK, ControlOK, Act, Start, Step, Fault, Goto, AfterAudit, Finish, 
  StartAppend, StartAudit, Acquire, Contended, AuditMissing, ReadLog, ReadHead,
  Refuse, OpenLog, BeginLine, EndLine, WriteTemporary, RenameHead,
  Release, ReleaseFails, AuditReadError, WriteError, Crash
<1>3. view'[q] = view[q]
  BY <1>1, SMT DEF Act, Start, Step, Fault,
  StartAppend, StartAudit, Acquire, Contended, AuditMissing, ReadLog, ReadHead,
  Refuse, OpenLog, BeginLine, EndLine, WriteTemporary, RenameHead,
  Release, ReleaseFails, AuditReadError, WriteError, Crash
<1>4. verified'[q] = verified[q]
  BY Zenon DEF TypeOK, ControlOK, Act, Start, Step, Fault,
  StartAppend, StartAudit, Acquire, Contended, AuditMissing, ReadLog, ReadHead,
  Refuse, OpenLog, BeginLine, EndLine, WriteTemporary, RenameHead,
  Release, ReleaseFails, AuditReadError, WriteError, Crash
<1> QED BY <1>2, <1>3, <1>4

LEMMA FilesOnlyByHolder ==
  ASSUME IInv, NEW p \in Procs, Act(p), ~Holding(p)
  PROVE  UNCHANGED files
BY SMT DEF IInv, TypeOK, ControlOK, OnlyAppendersWrite, Holding, files, Act, Start, Step, Fault, 
  StartAppend, StartAudit, Acquire, Contended, AuditMissing, ReadLog, ReadHead,
  Refuse, OpenLog, BeginLine, EndLine, WriteTemporary, RenameHead,
  Release, ReleaseFails, AuditReadError, WriteError, Crash

(* Sealing the next event onto a linked chain leaves a linked chain.       *)
LEMMA LinkedExtension ==
  ASSUME NEW s, s \in Seq(ToSet(s)), Events!Linked(s), NEW e
  PROVE  Events!Linked(Append(s, Events!NextEvent(s, e)))
<1> DEFINE n == Len(s)
           t == Append(s, Events!NextEvent(s, e))
<1>1. /\ n \in Nat /\ DOMAIN s = 1..n /\ DOMAIN t = 1..(n + 1)
      /\ \A i \in 1..n : t[i] = s[i]
      /\ t[n + 1] = Events!NextEvent(s, e)
  BY AppendFacts
<1>2. (n = 0) <=> (s = << >>)
  BY <1>1, SMT
<1> HIDE DEF n, t
<1>3. Events!NextEvent(s, e) = Events!Seal(n + 1, IF n = 0 THEN Events!NoHash ELSE s[n].sha256, e)
  BY <1>1, <1>2 DEF Events!NextEvent, Events!HashOf, n
<1>4. Events!NextEvent(s, e).payload = e
  BY SMT DEF Events!NextEvent, Events!Seal
<1>5. ASSUME NEW i \in DOMAIN t
      PROVE  t[i] = Events!Seal(i, IF i = 1 THEN Events!NoHash ELSE t[i - 1].sha256, t[i].payload)
  <2>1. CASE i = n + 1
    <3>1. CASE n = 0
      BY <1>1, <1>3, <1>4, <2>1, <3>1, SMT
    <3>2. CASE n # 0
      <4>1. t[i - 1] = s[n] /\ i # 1 /\ t[i] = Events!NextEvent(s, e)
        BY <1>1, <2>1, <3>2, SMT
      <4> QED BY <1>3, <1>4, <2>1, <3>2, <4>1, Zenon
    <3> QED BY <3>1, <3>2
  <2>2. CASE i # n + 1
    <3>1. i \in 1..n /\ t[i] = s[i] /\ (i # 1 => t[i - 1] = s[i - 1])
      BY <1>1, <2>2, SMT
    <3>2. s[i] = Events!Seal(i, IF i = 1 THEN Events!NoHash ELSE s[i - 1].sha256, s[i].payload)
      BY <1>1, <3>1 DEF Events!Linked
    <3> QED BY <3>1, <3>2
  <2> QED BY <2>1, <2>2
<1> QED BY <1>5 DEF Events!Linked, t

(* What a holder appends is the next event of the log it read.             *)
FilesOK == ChainLinked /\ MissingIsEmpty /\ AcknowledgedCovered /\ AtMostOneUncovered

LEMMA FilesStep == IInv /\ [Next]_vars => FilesOK'
<1> SUFFICES ASSUME IInv, [Next]_vars PROVE FilesOK'
  OBVIOUS
<1>0. Len(log) \in Nat /\ DOMAIN log = 1..Len(log) /\ head.sequence \in Nat
  BY LogFacts, SMT DEF IInv, TypeOK, ControlOK
<1>1. ASSUME NEW p \in Procs, EndLine(p) PROVE FilesOK'
  <2>1. view[p] = log /\ head.sequence = Len(log) /\ exists
    BY <1>1, Zenon DEF IInv, HolderViewIsLog, HolderKnows, Holding, OnlyAppendersWrite, EndLine
  <2>2. log' = Append(log, Events!NextEvent(log, payload[p])) /\ UNCHANGED <<head, exists, acked>>
    BY <1>1, <2>1 DEF EndLine, NewEvent
  <2>3. /\ Len(log') = Len(log) + 1 /\ DOMAIN log' = 1..(Len(log) + 1)
        /\ \A i \in 1..Len(log) : log'[i] = log[i]
    BY <2>2, AppendFacts DEF IInv, TypeOK, SequencesOK
  <2>4. ChainLinked'
    BY <2>2, LinkedExtension DEF IInv, TypeOK, SequencesOK, ChainLinked
  <2>5. MissingIsEmpty'
    BY <2>1, <2>2, Zenon DEF MissingIsEmpty
  <2>6. AcknowledgedCovered'
    BY <1>0, <2>1, <2>2, <2>3, SMT DEF IInv, AcknowledgedCovered
  <2>7. AtMostOneUncovered'
    BY <1>0, <2>1, <2>2, <2>3, SMT DEF AtMostOneUncovered
  <2> QED BY <2>4, <2>5, <2>6, <2>7 DEF FilesOK
<1>2. ASSUME NEW p \in Procs, RenameHead(p) PROVE FilesOK'
  <2>1. log = Append(view[p], NewEvent(p)) /\ head.sequence = Len(view[p]) /\ exists
    BY <1>2, Zenon DEF IInv, HolderViewIsLog, HolderKnows, Holding, OnlyAppendersWrite, RenameHead
  <2>2. /\ Len(log) = Len(view[p]) + 1 /\ Len(view[p]) \in Nat /\ log[Len(log)] = NewEvent(p)
    <3>1. view[p] \in Seq(ToSet(view[p]))
      BY DEF IInv, TypeOK, SequencesOK
    <3>2. /\ Len(view[p]) \in Nat
          /\ Len(Append(view[p], NewEvent(p))) = Len(view[p]) + 1
          /\ Append(view[p], NewEvent(p))[Len(view[p]) + 1] = NewEvent(p)
      BY <3>1, AppendFacts
    <3> QED BY <2>1, <3>2, Zenon
  <2>3. /\ head'.sequence = Len(log) /\ head'.sha256 = log[Len(log)].sha256
        /\ UNCHANGED <<log, exists, acked>>
    BY <1>2, <2>2, SMT DEF RenameHead, NewEvent, Events!NextEvent, Events!Seal
  <2>4. ChainLinked' /\ AtMostOneUncovered'
    BY <1>0, <2>3, SMT DEF IInv, ChainLinked, AtMostOneUncovered
  <2>5. MissingIsEmpty'
    BY <2>1, <2>3, Zenon DEF MissingIsEmpty
  <2>6. AcknowledgedCovered'
    BY <1>0, <2>1, <2>2, <2>3, SMT DEF IInv, AcknowledgedCovered
  <2> QED BY <2>4, <2>5, <2>6 DEF FilesOK
<1>3. ASSUME NEW p \in Procs, Release(p) \/ ReleaseFails(p) PROVE FilesOK'
  <2>1. UNCHANGED <<log, exists, torn, head>>
    BY <1>3 DEF Release, ReleaseFails, files
  <2>2. answer[p] = "ok" => NewEvent(p) = log[Len(log)] /\ head.sequence = Len(log) /\ Len(log) # 0
    <3>1. view[p] \in Seq(ToSet(view[p]))
      BY DEF IInv, TypeOK, SequencesOK
    <3>2. /\ Len(view[p]) \in Nat
          /\ Len(Append(view[p], NewEvent(p))) = Len(view[p]) + 1
          /\ Append(view[p], NewEvent(p))[Len(view[p]) + 1] = NewEvent(p)
      BY <3>1, AppendFacts
    <3>3. answer[p] = "ok" => log = Append(view[p], NewEvent(p)) /\ head.sequence = Len(log)
      BY <1>3, Zenon DEF IInv, HolderViewIsLog, HolderKnows, Holding, OnlyAppendersWrite, Release, ReleaseFails
    <3> HIDE DEF NewEvent
    <3> QED BY <3>2, <3>3, SMT
  <2>3. acked' = acked \/ (answer[p] = "ok" /\ acked' = acked \union {NewEvent(p)})
    BY <1>3, Zenon DEF Release, ReleaseFails
  <2>4. AcknowledgedCovered'
    <3>1. acked' \subseteq {log[i] : i \in 1..head.sequence}
      BY <1>0, <2>2, <2>3, SMT DEF IInv, AcknowledgedCovered
    <3> QED BY <2>1, <3>1 DEF IInv, AcknowledgedCovered
  <2>5. ChainLinked' /\ AtMostOneUncovered' /\ MissingIsEmpty'
    BY <2>1 DEF IInv, ChainLinked, AtMostOneUncovered, MissingIsEmpty
  <2> QED BY <2>4, <2>5 DEF FilesOK
<1>4. ASSUME NEW p \in Procs, OpenLog(p) PROVE FilesOK'
  BY <1>4, Zenon DEF OpenLog, IInv, FilesOK, ChainLinked, AtMostOneUncovered, MissingIsEmpty, AcknowledgedCovered
<1>5. ASSUME NEW p \in Procs, BeginLine(p) PROVE FilesOK'
  <2>1. exists /\ UNCHANGED <<log, exists, head, acked>>
    BY <1>5, Zenon DEF IInv, HolderViewIsLog, HolderKnows, Holding, OnlyAppendersWrite, BeginLine
  <2> QED BY <2>1, Zenon DEF IInv, FilesOK, ChainLinked, AtMostOneUncovered, MissingIsEmpty, AcknowledgedCovered
<1>6. CASE UNCHANGED <<log, exists, torn, head, acked>>
  BY <1>6 DEF IInv, FilesOK, ChainLinked, AtMostOneUncovered, MissingIsEmpty, AcknowledgedCovered
<1> QED
  BY <1>1, <1>2, <1>3, <1>4, <1>5, <1>6
  DEF Next, Start, Step, Fault, vars, files, StartAppend, StartAudit, Acquire, Contended, AuditMissing,
      ReadLog, ReadHead, Refuse, WriteTemporary, AuditReadError, WriteError, Crash

(* What the holder knows is true after each of its own steps...            *)
LEMMA HolderOwnStep ==
  ASSUME IInv, NEW p \in Procs, Act(p), Holding(p)'
  PROVE  HolderKnows(p)'
<1> USE DEF HolderKnows
<1>0. Holding(p) => HolderKnows(p)
  BY DEF IInv, HolderViewIsLog
<1>1. ASSUME Start(p) \/ Contended(p) \/ Release(p) \/ ReleaseFails(p) \/ Crash(p) PROVE FALSE
  BY <1>1, SMT DEF IInv, TypeOK, ControlOK, Holding, Start, StartAppend, StartAudit, Contended, Release,
                   ReleaseFails, Crash, Goto
<1>2. ASSUME Acquire(p) PROVE HolderKnows(p)'
  <2>1. pc'[p] = "readlog"
    BY <1>2, SMT DEF IInv, TypeOK, ControlOK, Acquire, Goto
  <2> QED BY <2>1, SMT
<1>3. ASSUME ~Acquire(p) /\ ~Contended(p) /\ ~Start(p) PROVE Holding(p) /\ op'[p] = op[p] /\ op[p] = "append"
  <2>1. op' = op
    BY <1>1, <1>3, Zenon DEF Act, Step, Fault, AuditMissing, ReadLog, ReadHead, Refuse, OpenLog, BeginLine,
       EndLine, WriteTemporary, RenameHead, Release, ReleaseFails, AuditReadError,
       WriteError, Crash
  <2>2. pc[p] \notin {"idle", "acquire"}
    BY <1>1, <1>3, SMT DEF Act, Step, Fault, AuditMissing, ReadLog, ReadHead, Refuse, OpenLog, BeginLine,
       EndLine, WriteTemporary, RenameHead, Release, ReleaseFails, AuditReadError,
       WriteError, Crash
  <2> QED BY <2>1, <2>2, Zenon DEF Holding
<1>4. ASSUME AuditMissing(p), Holding(p), op[p] = "append" PROVE HolderKnows(p)'
  <2>1. /\ pc'[p] = "decide" /\ view'[p] = << >> /\ UNCHANGED files
        /\ log = << >> /\ head = NoHead /\ ~torn
    BY <1>4, SMT DEF IInv, TypeOK, SequencesOK, ControlOK, MissingIsEmpty, AuditMissing, AfterAudit, Goto
  <2>2. view'[p] = log' /\ head'.sequence = Len(log') /\ ~torn'
    BY <2>1, EmptyIsSequence DEF files, NoHead
  <2> QED BY <2>1, <2>2, SMT
<1>5. ASSUME ReadLog(p), Holding(p) PROVE HolderKnows(p)'
  <2>1. /\ view'[p] = log /\ exists /\ UNCHANGED files
        /\ pc'[p] = IF torn THEN "readhead_torn" ELSE "readhead"
    BY <1>5, Zenon DEF IInv, TypeOK, SequencesOK, ControlOK, ReadLog, Goto
  <2>2. view'[p] = log' /\ exists' /\ (torn' <=> torn)
    BY <2>1 DEF files
  <2> QED BY <2>1, <2>2, SMT
<1>6. ASSUME ReadHead(p), Holding(p), op[p] = "append" PROVE HolderKnows(p)'
  <2>1. /\ pc'[p] = "decide" /\ UNCHANGED <<files, view>> /\ view[p] = log
        /\ pc[p] = "readhead" => ~torn
        /\ pc[p] \in {"readhead", "readhead_torn"}
    BY <1>0, <1>6, SMT DEF IInv, TypeOK, ControlOK, ReadHead, AfterAudit, Goto
  <2>2. verified'[p] => Verdict(log, pc[p] = "readhead_torn", head)
    BY <1>6, <2>1, Zenon DEF IInv, TypeOK, ControlOK, ReadHead
  <2>3. verified'[p] => head.sequence = Len(log) /\ ~torn
    <3>1. verified'[p] => pc[p] # "readhead_torn" /\ head = HeadOf(log)
      BY <2>2, Zenon DEF Verdict
    <3> QED BY <2>1, <3>1, SMT DEF HeadOf
  <2>4. verified'[p] => view'[p] = log' /\ head'.sequence = Len(log') /\ ~torn'
    BY <2>1, <2>3, Zenon DEF files
  <2> QED BY <2>1, <2>4, SMT
<1>7. ASSUME Refuse(p) \/ WriteError(p) PROVE HolderKnows(p)'
  <2>1. pc'[p] = "release" /\ answer'[p] # "ok"
    BY <1>7, SMT DEF IInv, TypeOK, ControlOK, Refuse, WriteError, Finish, Goto
  <2> QED BY <2>1, SMT
<1>8. ASSUME OpenLog(p), Holding(p) PROVE HolderKnows(p)'
  <2>1. /\ view[p] = log /\ head.sequence = Len(log) /\ ~torn
        /\ UNCHANGED <<log, torn, head, view>> /\ exists' = TRUE
    BY <1>0, <1>8, Zenon DEF OpenLog
  <2>2. pc'[p] = "write"
    BY <1>8, SMT DEF IInv, TypeOK, ControlOK, OpenLog, Goto
  <2>3. view'[p] = log' /\ head'.sequence = Len(log') /\ ~torn' /\ exists'
    BY <2>1, Zenon
  <2> QED BY <2>2, <2>3, SMT
<1>9. ASSUME BeginLine(p), Holding(p) PROVE HolderKnows(p)'
  <2>1. /\ view[p] = log /\ head.sequence = Len(log) /\ exists
        /\ UNCHANGED <<log, exists, head, view>>
    BY <1>0, <1>9, Zenon DEF BeginLine
  <2>2. pc'[p] = "writing"
    BY <1>9, SMT DEF IInv, TypeOK, ControlOK, BeginLine, Goto
  <2>3. view'[p] = log' /\ head'.sequence = Len(log') /\ exists'
    BY <2>1, Zenon
  <2> QED BY <2>2, <2>3, SMT
<1>10. ASSUME EndLine(p), Holding(p) PROVE HolderKnows(p)'
  <2>1. /\ view[p] = log /\ head.sequence = Len(log) /\ exists
        /\ UNCHANGED <<exists, head, view, payload>> /\ log' = Append(log, NewEvent(p))
    BY <1>0, <1>10, Zenon DEF EndLine
  <2>2. pc'[p] = "temporary"
    BY <1>10, SMT DEF IInv, TypeOK, ControlOK, EndLine, Goto
  <2>3. log' = Append(view'[p], NewEvent(p)') /\ head'.sequence = Len(view'[p]) /\ exists'
    BY <2>1, Zenon DEF NewEvent
  <2> QED BY <2>2, <2>3, SMT
<1>11. ASSUME WriteTemporary(p), Holding(p) PROVE HolderKnows(p)'
  <2>1. /\ log = Append(view[p], NewEvent(p)) /\ head.sequence = Len(view[p]) /\ exists
        /\ UNCHANGED <<log, exists, head, view, payload>>
    BY <1>0, <1>11, Zenon DEF WriteTemporary
  <2>2. pc'[p] = "rename"
    BY <1>11, SMT DEF IInv, TypeOK, ControlOK, WriteTemporary, Goto
  <2>3. log' = Append(view'[p], NewEvent(p)') /\ head'.sequence = Len(view'[p]) /\ exists'
    BY <2>1, Zenon DEF NewEvent
  <2> QED BY <2>2, <2>3, SMT
<1>12. ASSUME RenameHead(p), Holding(p) PROVE HolderKnows(p)'
  <2>1. /\ log = Append(view[p], NewEvent(p)) /\ UNCHANGED <<log, view, payload>>
        /\ head'.sequence = Len(view[p]) + 1
    <3>1. /\ log = Append(view[p], NewEvent(p)) /\ UNCHANGED <<log, view, payload>>
          /\ head'.sequence = NewEvent(p).sequence
      BY <1>0, <1>12, Zenon DEF RenameHead
    <3>2. NewEvent(p).sequence = Len(view[p]) + 1
      BY SMT DEF NewEvent, Events!NextEvent, Events!Seal
    <3> QED BY <3>1, <3>2
  <2>2. pc'[p] = "release"
    BY <1>12, SMT DEF IInv, TypeOK, ControlOK, RenameHead, Finish, Goto
  <2>3. Len(Append(view[p], NewEvent(p))) = Len(view[p]) + 1
    BY AppendFacts DEF IInv, TypeOK, SequencesOK
  <2>4. log' = Append(view'[p], NewEvent(p)') /\ head'.sequence = Len(log')
    BY <2>1, <2>3, Zenon DEF NewEvent
  <2> QED BY <2>2, <2>4, SMT
<1>13. ASSUME AuditReadError(p), Holding(p), op[p] = "append" PROVE HolderKnows(p)'
  <2>1. pc'[p] = "decide"
    BY <1>13, SMT DEF IInv, TypeOK, ControlOK, AuditReadError, AfterAudit, Goto
  <2>2. ~verified'[p]
    BY <1>13, Zenon DEF IInv, TypeOK, ControlOK, AuditReadError
  <2> QED BY <2>1, <2>2, SMT
<1> QED
  BY <1>1, <1>2, <1>3, <1>4, <1>5, <1>6, <1>7, <1>8, <1>9, <1>10, <1>11, <1>12, <1>13 DEF Act, Step, Fault

(* ... and after every step of another process, which cannot write while   *)
(* the lock is held.                                                       *)
LEMMA HolderStep == IInv /\ [Next]_vars => HolderViewIsLog'
<1> SUFFICES ASSUME IInv, [Next]_vars, NEW q \in Procs, Holding(q)' PROVE HolderKnows(q)'
  BY DEF HolderViewIsLog
<1>1. ASSUME NEW p \in Procs, Act(p) PROVE HolderKnows(q)'
  <2>1. CASE p = q
    BY <1>1, <2>1, HolderOwnStep
  <2>2. CASE p # q
    <3>1. /\ pc'[q] = pc[q] /\ op'[q] = op[q] /\ view'[q] = view[q] /\ payload'[q] = payload[q]
          /\ verified'[q] = verified[q] /\ answer'[q] = answer[q]
      BY <1>1, <2>2, OthersUntouched DEF IInv
    <3>2. Holding(q)
      BY <3>1 DEF Holding
    <3>3. lock = q
      BY <3>2 DEF IInv, Exclusion
    <3>4. ~Holding(p)
      BY <2>2, <3>3 DEF IInv, Exclusion
    <3>5. UNCHANGED files
      BY <1>1, <3>4, FilesOnlyByHolder
    <3>6. HolderKnows(q)
      BY <3>2 DEF IInv, HolderViewIsLog
    <3> QED BY <3>1, <3>5, <3>6, Zenon DEF HolderKnows, files, NewEvent
  <2> QED BY <2>1, <2>2
<1>2. CASE UNCHANGED vars
  <2>1. Holding(q) /\ HolderKnows(q)
    BY <1>2, Zenon DEF IInv, HolderViewIsLog, Holding, vars
  <2> QED BY <1>2, <2>1, Zenon DEF HolderKnows, vars, NewEvent
<1> QED BY <1>1, <1>2 DEF Next, Act

(* Only EndLine changes the log, and it keeps what was read as a prefix.   *)
LEMMA PrefixStep == IInv /\ [Next]_vars => AuditViewIsPrefix'
<1> SUFFICES ASSUME IInv, [Next]_vars PROVE AuditViewIsPrefix'
  OBVIOUS
<1>0. Len(log) \in Nat /\ \A q \in Procs : Len(view[q]) \in Nat
  BY LogFacts, SMT DEF IInv, TypeOK, SequencesOK
<1>1. ASSUME NEW p \in Procs, EndLine(p) PROVE AuditViewIsPrefix'
  <2>1. /\ Len(log') = Len(log) + 1 /\ \A i \in 1..Len(log) : log'[i] = log[i]
    BY <1>1, AppendFacts DEF IInv, TypeOK, SequencesOK, EndLine
  <2>2. view' = view /\ \A q \in Procs : pc'[q] \in {"readhead", "readhead_torn"} => pc'[q] = pc[q]
    BY <1>1, SMT DEF IInv, TypeOK, ControlOK, EndLine, Goto
  <2> QED BY <1>0, <2>1, <2>2, SMT DEF IInv, AuditViewIsPrefix
<1>2. ASSUME NEW p \in Procs, Act(p), log' = log, NEW q \in Procs, pc'[q] \in {"readhead", "readhead_torn"}
      PROVE  /\ Len(view'[q]) <= Len(log')
             /\ \A i \in 1..Len(view'[q]) : view'[q][i] = log'[i]
  <2>1. CASE p # q
    <3>1. pc'[q] = pc[q] /\ view'[q] = view[q]
      BY <1>2, <2>1, OthersUntouched DEF IInv
    <3> QED BY <1>2, <3>1 DEF IInv, AuditViewIsPrefix
  <2>2. CASE p = q
    <3>1. ReadLog(p)
      BY <1>2, <2>2, SMT DEF IInv, TypeOK, ControlOK, Act, Start, Step, Fault, Goto, AfterAudit, Finish,
         StartAppend, StartAudit, Acquire, Contended, AuditMissing, ReadHead, Refuse, OpenLog, BeginLine,
         EndLine, WriteTemporary, RenameHead, Release, ReleaseFails, AuditReadError,
         WriteError, Crash
    <3>2. view'[q] = log
      BY <2>2, <3>1, Zenon DEF IInv, TypeOK, SequencesOK, ReadLog
    <3> QED BY <1>0, <1>2, <3>2, SMT
  <2> QED BY <2>1, <2>2
<1>3. ASSUME NEW p \in Procs, Act(p), ~EndLine(p) PROVE log' = log
  BY <1>3 DEF Act, Start, Step, Fault, files, StartAppend, StartAudit, Acquire, Contended, AuditMissing,
       ReadLog, ReadHead, Refuse, OpenLog, BeginLine, WriteTemporary, RenameHead,
       Release, ReleaseFails, AuditReadError, WriteError, Crash
<1>4. CASE UNCHANGED vars
  BY <1>4 DEF IInv, AuditViewIsPrefix, vars
<1>5. ASSUME NEW p \in Procs, Act(p), ~EndLine(p) PROVE AuditViewIsPrefix'
  BY <1>2, <1>3, <1>5 DEF AuditViewIsPrefix
<1> QED BY <1>1, <1>4, <1>5 DEF Next, Act

(* IInv holds in every reachable state.                                    *)
LEMMA Inductive == Spec => []IInv
<1>1. Init => IInv
  <2> SUFFICES ASSUME Init PROVE IInv
    OBVIOUS
  <2>1. TypeOK
    BY InitType
  <2>2. /\ log = << >> /\ exists = FALSE /\ torn = FALSE /\ head = NoHead /\ acked = {}
        /\ \A p \in Procs : pc[p] = "idle" /\ op[p] = "audit"
    BY Zenon DEF Init
  <2>3. LockOK /\ HolderViewIsLog /\ AuditViewIsPrefix
    BY <2>2, SMT DEF LockOK, Exclusion, OnlyAppendersWrite, PayloadChosen, HolderViewIsLog, AuditViewIsPrefix, Holding
  <2>4. ChainLinked
    BY <2>2, SMT DEF ChainLinked, Events!Linked
  <2>5. MissingIsEmpty
    BY <2>2, Zenon DEF MissingIsEmpty
  <2>6. AcknowledgedCovered /\ AtMostOneUncovered
    BY <2>2, EmptyIsSequence, SMT DEF AcknowledgedCovered, AtMostOneUncovered, NoHead
  <2> QED BY <2>1, <2>3, <2>4, <2>5, <2>6 DEF IInv, LockOK
<1>2. IInv /\ [Next]_vars => IInv'
  <2> SUFFICES ASSUME IInv, [Next]_vars PROVE IInv'
    OBVIOUS
  <2>1. TypeOK'
    BY SequencesStep, ControlStep DEF IInv, TypeOK
  <2>2. LockOK'
    BY ExclusionStep DEF IInv, LockOK
  <2>3. FilesOK'
    BY FilesStep
  <2>4. HolderViewIsLog' /\ AuditViewIsPrefix'
    BY HolderStep, PrefixStep
  <2> QED BY <2>1, <2>2, <2>3, <2>4 DEF IInv, LockOK, FilesOK
<1> QED BY <1>1, <1>2, PTL DEF Spec

(* The lock file keeps every other process out of the locked part of       *)
(* append(), whatever fails.                                               *)
THEOREM ExclusionHolds == Spec => []Exclusion
<1>1. IInv => Exclusion
  BY DEF IInv
<1> QED BY <1>1, Inductive, PTL

(* Acknowledged events stay in the log, at or below the checkpoint.        *)
THEOREM AcknowledgedEventsCovered == Spec => []AcknowledgedCovered
<1>1. IInv => AcknowledgedCovered
  BY DEF IInv
<1> QED BY <1>1, Inductive, PTL

(* At most one event is ever above the checkpoint, whatever fails.         *)
THEOREM OneUncoveredAtMost == Spec => []AtMostOneUncovered
<1>1. IInv => AtMostOneUncovered
  BY DEF IInv
<1> QED BY <1>1, Inductive, PTL

(* Every step of the ledger maps to a step of EventChain or to a stutter:  *)
(* EndLine to Extend, a Release after Ok to Acknowledge.                   *)
LEMMA StepRefines == IInv /\ [Next]_vars => [Events!Next]_<<log, acked>>
<1> SUFFICES ASSUME IInv, [Next]_vars PROVE [Events!Next]_<<log, acked>>
  OBVIOUS
<1>1. ASSUME NEW p \in Procs, EndLine(p) PROVE Events!Next
  <2>1. view[p] = log
    BY <1>1, Zenon DEF IInv, HolderViewIsLog, HolderKnows, Holding, OnlyAppendersWrite, EndLine
  <2>2. payload[p] \in Payloads
    BY <1>1, Zenon DEF IInv, PayloadChosen, OnlyAppendersWrite, EndLine
  <2>3. Events!Extend(payload[p])
    BY <1>1, <2>1 DEF EndLine, NewEvent, Events!Extend
  <2> QED BY <2>2, <2>3 DEF Events!Next
<1>2. ASSUME NEW p \in Procs, Release(p) \/ ReleaseFails(p) PROVE [Events!Next]_<<log, acked>>
  <2>1. log' = log
    BY <1>2 DEF Release, ReleaseFails, files
  <2>2. answer[p] = "ok" => NewEvent(p) \in ToSet(log)
    <3>1. answer[p] = "ok" => log = Append(view[p], NewEvent(p))
      BY <1>2, Zenon DEF IInv, HolderViewIsLog, HolderKnows, Holding, OnlyAppendersWrite, Release, ReleaseFails
    <3>2. view[p] \in Seq(ToSet(view[p]))
      BY DEF IInv, TypeOK, SequencesOK
    <3>3. NewEvent(p) \in ToSet(Append(view[p], NewEvent(p)))
      <4> HIDE DEF NewEvent
      <4> DEFINE n == Len(view[p]) + 1
      <4>1. /\ n \in DOMAIN Append(view[p], NewEvent(p))
            /\ Append(view[p], NewEvent(p))[n] = NewEvent(p)
        BY <3>2, AppendFacts, SMT
      <4> QED BY <4>1, Zenon DEF ToSet
    <3> QED BY <3>1, <3>3
  <2>3. acked' = acked \/ (answer[p] = "ok" /\ acked' = acked \union {NewEvent(p)})
    BY <1>2, Zenon DEF Release, ReleaseFails
  <2> QED BY <2>1, <2>2, <2>3, Zenon DEF Events!Next, Events!Acknowledge, Events!ToSet, ToSet
<1>3. CASE UNCHANGED <<log, acked>>
  BY <1>3
<1> QED
  BY <1>1, <1>2, <1>3
  DEF Next, Start, Step, Fault, vars, files, StartAppend, StartAudit, Acquire, Contended, AuditMissing,
      ReadLog, ReadHead, Refuse, OpenLog, BeginLine, WriteTemporary, RenameHead,
      AuditReadError, WriteError, Crash

(* The files, the lock and the checkpoint implement the abstract chain:    *)
(* what append() and audit() promise does not depend on how it is kept.    *)
THEOREM Refinement == Spec => ImplementsEventChain
<1>1. Init => Events!Init
  BY DEF Init, Events!Init
<1> QED BY <1>1, Inductive, StepRefines, PTL DEF Spec, ImplementsEventChain, Events!Spec

(* A passing audit, with or without the lock, saw a prefix of the chain    *)
(* with every event acknowledged by the time it ended.                     *)
LEMMA AuditStep ==
  IInv /\ [Next]_vars =>
    \A p \in Procs : ~verified[p] /\ verified'[p] => PassedAgainstChain(p)
<1> SUFFICES ASSUME IInv, [Next]_vars, NEW p \in Procs, ~verified[p], verified'[p]
             PROVE  IsPrefix(view'[p], log) /\ acked \subseteq ToSet(view'[p])
  BY DEF PassedAgainstChain
<1>0. /\ Len(log) \in Nat /\ log \in Seq(ToSet(log)) /\ view[p] \in Seq(ToSet(view[p]))
      /\ DOMAIN view[p] = 1..Len(view[p]) /\ Len(view[p]) \in Nat
  BY LogFacts, SMT DEF IInv, TypeOK, SequencesOK
<1>1. AuditMissing(p) \/ ReadHead(p)
  <2>1. PICK q \in Procs : Act(q)
    BY Zenon DEF Next, Act, vars
  <2>2. p = q
    BY <2>1, OthersUntouched, Zenon DEF IInv
  <2>3. ~(Start(p) \/ AuditReadError(p) \/ Crash(p))
    BY Zenon DEF IInv, TypeOK, ControlOK, Start, StartAppend, StartAudit, AuditReadError, Crash
  <2>4. AuditMissing(p) \/ ReadHead(p) \/ verified' = verified
    BY <2>1, <2>2, <2>3, Zenon DEF Act, Step, Fault, Acquire, Contended, ReadLog, Refuse, OpenLog, BeginLine,
       EndLine, WriteTemporary, RenameHead, Release, ReleaseFails, WriteError
  <2> QED BY <2>4
<1>2. CASE AuditMissing(p)
  <2>1. view'[p] = << >> /\ log = << >> /\ head = NoHead
    BY <1>2, Zenon DEF IInv, TypeOK, SequencesOK, MissingIsEmpty, AuditMissing
  <2>2. acked = {}
    BY <2>1, SMT DEF IInv, AcknowledgedCovered, NoHead
  <2> QED BY <2>1, <2>2, <1>0, SMT DEF IsPrefix
<1>3. CASE ReadHead(p)
  <2>1. view' = view /\ head = HeadOf(view[p])
    BY <1>3, Zenon DEF IInv, TypeOK, ControlOK, ReadHead, Verdict
  <2>2. head.sequence = Len(view[p])
    BY <2>1, SMT DEF HeadOf
  <2>3. Len(view[p]) <= Len(log) /\ \A i \in 1..Len(view[p]) : view[p][i] = log[i]
    BY <1>3 DEF IInv, AuditViewIsPrefix, ReadHead
  <2>4. acked \subseteq ToSet(view[p])
    <3> SUFFICES ASSUME NEW e \in acked PROVE e \in ToSet(view[p])
      OBVIOUS
    <3>1. PICK i \in 1..head.sequence : e = log[i]
      BY DEF IInv, AcknowledgedCovered
    <3>2. i \in DOMAIN view[p] /\ view[p][i] = e
      BY <1>0, <2>2, <2>3, <3>1
    <3> QED BY <3>2, Zenon DEF ToSet
  <2>5. IsPrefix(view[p], log)
    BY <1>0, <2>3, PrefixFact
  <2> QED BY <2>1, <2>4, <2>5
<1> QED BY <1>1, <1>2, <1>3

THEOREM VerifiedAuditsAreCurrent == Spec => VerifiedAuditCurrent
<1>1. IInv /\ [Next]_vars =>
        [\A p \in Procs : ~verified[p] /\ verified'[p] => PassedAgainstChain(p)]_vars
  BY AuditStep
<1> QED BY <1>1, Inductive, PTL DEF Spec, VerifiedAuditCurrent

(* The second stage: a head temporary exists only while its writer is      *)
(* about to rename it or when the ledger has an uncovered event for good.  *)
TemporariesOK ==
  /\ temporaries # {} => Len(log) = head.sequence + 1
  /\ \A p \in Procs : pc[p] = "temporary" => temporaries = {}
  /\ \A p \in Procs : pc[p] = "rename" => temporaries = {p}

LEMMA TemporariesStep == IInv /\ TemporariesOK /\ [Next]_vars => TemporariesOK'
<1> SUFFICES ASSUME IInv, TemporariesOK, [Next]_vars PROVE TemporariesOK'
  OBVIOUS
<1>0. /\ pc \in [Procs -> Labels] /\ None \notin Procs
      /\ \A q, r \in Procs : pc[q] \in {"decide", "write", "writing", "temporary", "rename"}
                            /\ pc[r] \in {"temporary", "rename"} => q = r
  BY LedgerConstants, SMT DEF IInv, TypeOK, ControlOK, Exclusion, Holding, OnlyAppendersWrite
<1>1. ASSUME NEW p \in Procs, pc[p] \in {"temporary", "rename"}
      PROVE  Len(log) = head.sequence + 1 /\ Len(log) \in Nat
  <2>1. log = Append(view[p], NewEvent(p)) /\ head.sequence = Len(view[p])
    BY <1>1, Zenon DEF IInv, HolderViewIsLog, HolderKnows, Holding, OnlyAppendersWrite
  <2>2. Len(Append(view[p], NewEvent(p))) = Len(view[p]) + 1 /\ Len(view[p]) \in Nat
    BY AppendFacts DEF IInv, TypeOK, SequencesOK
  <2> QED BY <2>1, <2>2
<1>2. ASSUME NEW p \in Procs, EndLine(p) PROVE TemporariesOK'
  <2>1. head.sequence = Len(log) /\ temporaries' = temporaries /\ pc[p] = "writing"
    BY <1>2, Zenon DEF IInv, HolderViewIsLog, HolderKnows, Holding, OnlyAppendersWrite, EndLine
  <2>2. Len(log) \in Nat
    BY LogFacts DEF IInv
  <2>3. temporaries' = {}
    BY <2>1, <2>2, SMT DEF TemporariesOK
  <2>4. pc' = [pc EXCEPT ![p] = "temporary"]
    BY <1>2 DEF EndLine, Goto
  <2> QED BY <1>0, <2>1, <2>3, <2>4, SMT DEF TemporariesOK
<1>3. ASSUME NEW p \in Procs, WriteTemporary(p) PROVE TemporariesOK'
  <2>1. /\ UNCHANGED <<log, head>> /\ pc' = [pc EXCEPT ![p] = "rename"]
        /\ pc[p] = "temporary" /\ temporaries = {} /\ temporaries' = {p}
    BY <1>3, SMT DEF TemporariesOK, WriteTemporary, Goto
  <2> QED BY <1>0, <1>1, <2>1, SMT DEF TemporariesOK
<1>4. ASSUME NEW p \in Procs, RenameHead(p) PROVE TemporariesOK'
  <2>1. temporaries' = {} /\ pc' = [pc EXCEPT ![p] = "release"] /\ pc[p] = "rename"
    BY <1>4, SMT DEF TemporariesOK, RenameHead, Finish, Goto
  <2> QED BY <1>0, <2>1, SMT DEF TemporariesOK
<1>5. ASSUME NEW p \in Procs, WriteError(p) PROVE TemporariesOK'
  <2>1. /\ UNCHANGED <<log, head>> /\ pc' = [pc EXCEPT ![p] = "release"]
        /\ pc[p] \in {"decide", "write", "writing", "temporary", "rename"}
        /\ temporaries' = temporaries \/ pc[p] = "temporary"
    BY <1>5, SMT DEF WriteError, Finish, Goto
  <2> QED BY <1>0, <1>1, <2>1, SMT DEF TemporariesOK
<1>6. ASSUME UNCHANGED <<log, head, temporaries>>,
             \A q \in Procs : pc'[q] \in {"temporary", "rename"} => pc'[q] = pc[q]
      PROVE  TemporariesOK'
  BY <1>6, SMT DEF TemporariesOK
<1>7. CASE UNCHANGED vars
  BY <1>6, <1>7, Zenon DEF vars, files
<1>8. ASSUME NEW p \in Procs, Act(p), ~EndLine(p), ~WriteTemporary(p), ~RenameHead(p), ~WriteError(p)
      PROVE  TemporariesOK'
  <2>1. UNCHANGED <<log, head, temporaries>>
    BY <1>8, Zenon DEF Act, Start, Step, Fault, files, StartAppend, StartAudit, Acquire, Contended, AuditMissing,
       ReadLog, ReadHead, Refuse, OpenLog, BeginLine, Release, ReleaseFails, AuditReadError, Crash
  <2>2. \A q \in Procs : pc'[q] \in {"temporary", "rename"} => pc'[q] = pc[q]
    BY <1>0, <1>8, SMT DEF Act, Start, Step, Fault, Goto, AfterAudit, Finish, StartAppend, StartAudit, Acquire,
       Contended, AuditMissing, ReadLog, ReadHead, Refuse, OpenLog, BeginLine, Release, ReleaseFails,
       AuditReadError, Crash
  <2> QED BY <1>6, <2>1, <2>2
<1>9. ASSUME NEW p \in Procs, Act(p) PROVE TemporariesOK'
  BY <1>2, <1>3, <1>4, <1>5, <1>8, <1>9, Zenon
<1> QED BY <1>7, <1>9, Zenon DEF Next, Act

(* No leftover temporary ever makes a later append() fail.                 *)
THEOREM LeftoversAreHarmless == Spec => []NoLeftoverInTheWay
<1>1. Init => TemporariesOK
  BY SMT DEF Init, TemporariesOK
<1>2. TemporariesOK => NoLeftoverInTheWay
  BY DEF TemporariesOK, NoLeftoverInTheWay
<1> QED BY <1>1, <1>2, Inductive, TemporariesStep, PTL DEF Spec
-----------------------------------------------------------------------------
(* The lock file is given back: only Acquire(p) makes p its holder, and    *)
(* p stays inside until Release, unless it crashes or an unlink fails.     *)
LEMMA LockBackStep == IInv /\ LockGivenBack /\ [Next]_vars => LockGivenBack'
<1> SUFFICES ASSUME IInv, LockGivenBack, [Next]_vars, crashes' = 0, lock' # None PROVE Holding(lock)'
  BY DEF LockGivenBack
<1>1. CASE UNCHANGED vars
  BY <1>1 DEF vars, LockGivenBack, Holding
<1>2. ASSUME NEW p \in Procs, Act(p) PROVE Holding(lock)'
  <2>1. crashes \in Nat /\ crashes = 0
    BY <1>2, LedgerConstants, SMT DEF IInv, TypeOK, ControlOK, Act, Start, Step, Fault,
       StartAppend, StartAudit, Acquire, Contended, AuditMissing, ReadLog, ReadHead, Refuse, OpenLog, BeginLine,
       EndLine, WriteTemporary, RenameHead, Release, ReleaseFails, AuditReadError, WriteError, Crash
  <2>2. ASSUME Acquire(p) PROVE Holding(lock)'
    BY <2>2, SMT DEF IInv, TypeOK, ControlOK, OnlyAppendersWrite, Acquire, Goto, Holding
  <2>3. ASSUME ~Acquire(p) PROVE lock' = lock
    BY <1>2, <2>3, Zenon DEF Act, Start, Step, Fault,
       StartAppend, StartAudit, Contended, AuditMissing, ReadLog, ReadHead, Refuse, OpenLog, BeginLine,
       EndLine, WriteTemporary, RenameHead, Release, ReleaseFails, AuditReadError, WriteError, Crash
  <2>4. ASSUME lock' = lock PROVE lock \in Procs /\ Holding(lock)
    BY <2>1, <2>4, Zenon DEF IInv, TypeOK, ControlOK, LockGivenBack
  <2>5. ASSUME lock' = lock, lock # p PROVE Holding(lock)'
    <3>1. pc'[lock] = pc[lock] /\ op'[lock] = op[lock]
      BY <1>2, <2>4, <2>5, OthersUntouched DEF IInv
    <3> QED BY <2>4, <2>5, <3>1 DEF Holding
  <2>6. ASSUME ~Acquire(p), lock' = lock, lock = p PROVE Holding(lock)'
    BY <1>2, <2>1, <2>4, <2>6, SMT DEF IInv, TypeOK, ControlOK, Holding, Act, Start, Step, Fault,
       Goto, AfterAudit, Finish, StartAppend, StartAudit, Contended, AuditMissing, ReadLog, ReadHead, Refuse,
       OpenLog, BeginLine, EndLine, WriteTemporary, RenameHead, Release, ReleaseFails, AuditReadError, WriteError,
       Crash
  <2> QED BY <2>2, <2>3, <2>5, <2>6
<1> QED BY <1>1, <1>2, Zenon DEF Next, Act

(* No way out of append() keeps the lock, for any number of I/O errors.    *)
THEOREM LocksAreGivenBack == Spec => []LockGivenBack
<1>1. Init => LockGivenBack
  BY DEF Init, LockGivenBack
<1> QED BY <1>1, Inductive, LockBackStep, PTL DEF Spec

(* A holder that is about to write has seen the ledger as it still is, and *)
(* it verified.                                                            *)
DecidesOnClean == \A p \in Procs : pc[p] = "decide" /\ verified[p] => Clean

LEMMA SameFilesSameVerdict == UNCHANGED <<log, exists, torn, head>> => (Clean' <=> Clean)
BY SMT DEF Clean, Verdict, HeadOf, Events!HashOf, Events!Linked, Events!Seal, Events!EventHash

LEMMA DecidesStep == IInv /\ DecidesOnClean /\ [Next]_vars => DecidesOnClean'
<1> SUFFICES ASSUME IInv, DecidesOnClean, [Next]_vars, NEW q \in Procs, pc'[q] = "decide", verified'[q]
             PROVE  Clean'
  BY DEF DecidesOnClean
<1>1. CASE UNCHANGED vars
  BY <1>1, SameFilesSameVerdict DEF vars, files, DecidesOnClean
<1>2. ASSUME NEW p \in Procs, Act(p), p # q PROVE Clean'
  <2>1. pc[q] = "decide" /\ verified[q]
    BY <1>2, OthersUntouched DEF IInv
  <2>2. ~Holding(p)
    BY <1>2, <2>1, LedgerConstants, SMT DEF IInv, TypeOK, ControlOK, Exclusion, OnlyAppendersWrite, Holding
  <2>3. UNCHANGED <<log, exists, torn, head>>
    BY <1>2, <2>2, FilesOnlyByHolder DEF files
  <2> QED BY <2>1, <2>3, SameFilesSameVerdict DEF DecidesOnClean
<1>3. ASSUME Act(q) PROVE Clean'
  <2>1. AuditMissing(q) \/ ReadHead(q)
    BY <1>3, SMT DEF IInv, TypeOK, ControlOK, Act, Start, Step, Fault, Goto, AfterAudit, Finish,
       StartAppend, StartAudit, Acquire, Contended, AuditMissing, ReadLog, ReadHead, Refuse, OpenLog, BeginLine,
       EndLine, WriteTemporary, RenameHead, Release, ReleaseFails, AuditReadError, WriteError, Crash
  <2>2. UNCHANGED <<log, exists, torn, head>> /\ op[q] = "append"
    BY <2>1, SMT DEF AuditMissing, ReadHead, files, AfterAudit, Goto, IInv, TypeOK, ControlOK
  <2>3. CASE AuditMissing(q)
    BY <2>2, <2>3, SameFilesSameVerdict DEF AuditMissing, Clean
  <2>4. CASE ReadHead(q)
    <3>1. pc[q] \in {"readhead", "readhead_torn"} /\ view[q] = log /\ (pc[q] = "readhead" => ~torn)
      BY <2>2, <2>4, Zenon DEF ReadHead, IInv, HolderViewIsLog, HolderKnows, Holding
    <3>2. Verdict(log, pc[q] = "readhead_torn", head)
      BY <2>4, <3>1, Zenon DEF ReadHead, IInv, TypeOK, ControlOK
    <3>3. Clean
      BY <3>1, <3>2, Zenon DEF Clean, Verdict
    <3> QED BY <2>2, <3>3, SameFilesSameVerdict
  <2> QED BY <2>1, <2>3, <2>4
<1> QED BY <1>1, <1>2, <1>3, Zenon DEF Next, Act

(* Damage is final: the only file-system call that can follow a failed     *)
(* verdict outside a write is the open of a log that exists already.       *)
LEMMA DamageStep == IInv /\ DecidesOnClean /\ [Next]_vars => (Damaged => Damaged' /\ log' = log)
<1> SUFFICES ASSUME IInv, DecidesOnClean, [Next]_vars, Damaged PROVE Damaged' /\ log' = log
  OBVIOUS
<1>1. CASE UNCHANGED vars
  BY <1>1, SameFilesSameVerdict DEF vars, files, Damaged, Holding, Writing
<1>2. ASSUME NEW p \in Procs, Act(p) PROVE Damaged' /\ log' = log
  <2>1. ~OpenLog(p)
    BY DEF OpenLog, DecidesOnClean, Damaged
  <2>2. Holding(p) => pc[p] \in {"readlog", "readhead", "readhead_torn", "decide", "release"}
    BY Zenon DEF IInv, TypeOK, ControlOK, Labels, Damaged, Holding, Writing
  <2>3. UNCHANGED <<log, exists, torn, head>>
    <3>1. CASE ~Holding(p)
      BY <1>2, <3>1, FilesOnlyByHolder DEF files
    <3>2. CASE Holding(p)
      BY <1>2, <2>1, <2>2, <3>2, SMT DEF Holding, files, Act, Start, Step, Fault,
         StartAppend, StartAudit, Acquire, Contended, AuditMissing, ReadLog, ReadHead, Refuse, BeginLine,
         EndLine, WriteTemporary, RenameHead, Release, ReleaseFails, AuditReadError, WriteError, Crash
    <3> QED BY <3>1, <3>2
  <2>4. ~Clean'
    BY <2>3, SameFilesSameVerdict DEF Damaged
  <2>5. ASSUME NEW q \in Procs, Holding(q)' PROVE ~Writing(q)'
    <3>1. CASE q # p
      BY <1>2, <2>5, <3>1, OthersUntouched DEF IInv, Damaged, Holding, Writing
    <3>2. CASE q = p
      BY <1>2, <2>1, <2>2, <2>5, <3>2, SMT DEF IInv, TypeOK, ControlOK, Holding, Writing, Act, Start, Step, Fault,
         Goto, AfterAudit, Finish, StartAppend, StartAudit, Acquire, Contended, AuditMissing, ReadLog, ReadHead,
         Refuse, BeginLine, EndLine, WriteTemporary, RenameHead, Release, ReleaseFails, AuditReadError, WriteError,
         Crash
    <3> QED BY <3>1, <3>2
  <2> QED BY <2>3, <2>4, <2>5 DEF Damaged
<1> QED BY <1>1, <1>2, Zenon DEF Next, Act

(* A damaged ledger never verifies again and never grows again.            *)
THEOREM DamageStays == Spec => DamageIsFinal
<1>1. Init => DecidesOnClean
  BY DEF Init, DecidesOnClean
<1>2. IInv /\ DecidesOnClean /\ [Next]_vars => [Damaged => Damaged' /\ log' = log]_vars
  BY DamageStep
<1> QED BY <1>1, <1>2, Inductive, DecidesStep, PTL DEF Spec, DamageIsFinal

(* Without faults a holder finds the ledger as the last one left it: clean,*)
(* and from its own write to the rename only its own event is uncovered.   *)
SoundHolder(p) ==
  /\ pc[p] \in {"readlog", "readhead", "decide", "release"} => Clean
  /\ pc[p] # "readhead_torn"
  /\ pc[p] = "decide" => verified[p]
  /\ pc[p] \in {"temporary", "rename"} => ~torn
Sound ==
  errors + crashes = 0 =>
    /\ lock = None => Clean
    /\ \A p \in Procs : answer[p] # "refused"
    /\ \A p \in Procs : Holding(p) => SoundHolder(p)

(* The rename covers the holder's event, and with it the whole log.        *)
LEMMA RenameCleans ==
  ASSUME IInv, NEW p \in Procs, RenameHead(p), ~torn
  PROVE  Clean'
<1>1. /\ log = Append(view[p], NewEvent(p)) /\ exists /\ view[p] \in Seq(ToSet(view[p]))
      /\ Events!Linked(log)
  BY Zenon DEF RenameHead, IInv, HolderViewIsLog, HolderKnows, Holding, OnlyAppendersWrite, TypeOK, SequencesOK, ChainLinked
<1>2. Len(log) = Len(view[p]) + 1 /\ Len(view[p]) \in Nat /\ log[Len(view[p]) + 1] = NewEvent(p)
  BY <1>1, AppendFacts
<1>3. log # << >>
  BY <1>2
<1>4. NewEvent(p).sequence = Len(log)
  BY <1>2 DEF NewEvent, Events!NextEvent, Events!Seal
<1>5. HeadOf(log) = [sequence |-> NewEvent(p).sequence, sha256 |-> NewEvent(p).sha256]
  BY <1>2, <1>3, <1>4, Zenon DEF HeadOf, Events!HashOf
<1>6. UNCHANGED <<log, exists, torn>> /\ head' = HeadOf(log)
  BY <1>5 DEF RenameHead
<1>7. Verdict(log, torn, head')
  BY <1>1, <1>6 DEF Verdict
<1> QED
  BY <1>6, <1>7, SMT DEF Clean, Verdict, HeadOf, Events!HashOf, Events!Linked, Events!Seal, Events!EventHash

LEMMA SoundStep == IInv /\ LockGivenBack /\ Sound /\ [Next]_vars => Sound'
<1> SUFFICES ASSUME IInv, LockGivenBack, Sound, [Next]_vars, errors' + crashes' = 0
             PROVE  /\ lock' = None => Clean'
                    /\ \A q \in Procs : answer'[q] # "refused"
                    /\ \A q \in Procs : Holding(q)' => SoundHolder(q)'
  BY DEF Sound
<1>1. CASE UNCHANGED vars
  BY <1>1, SameFilesSameVerdict DEF vars, files, Sound, SoundHolder, Holding
<1>2. ASSUME NEW p \in Procs, Act(p)
      PROVE  /\ lock' = None => Clean'
             /\ \A q \in Procs : answer'[q] # "refused"
             /\ \A q \in Procs : Holding(q)' => SoundHolder(q)'
  <2>0. Start(p) \/ Step(p)
    BY <1>2, LedgerConstants, SMT DEF IInv, TypeOK, ControlOK, Act, Fault, ReleaseFails, AuditReadError, WriteError, Crash
  <2>1. errors + crashes = 0 /\ crashes = 0
    BY <2>0, LedgerConstants, SMT DEF IInv, TypeOK, ControlOK, Start, Step,
       StartAppend, StartAudit, Acquire, Contended, AuditMissing, ReadLog, ReadHead, Refuse, OpenLog, BeginLine,
       EndLine, WriteTemporary, RenameHead, Release
  <2>2. /\ lock = None => Clean
        /\ \A q \in Procs : answer[q] # "refused"
        /\ \A q \in Procs : Holding(q) => SoundHolder(q)
    BY <2>1 DEF Sound
  <2>3. ~Refuse(p)
    <3>1. Refuse(p) => Holding(p) /\ pc[p] = "decide" /\ ~verified[p]
      BY DEF Refuse, Holding, IInv, OnlyAppendersWrite
    <3> QED BY <3>1, <2>2 DEF SoundHolder
  <2>4. \A q \in Procs : answer'[q] # "refused"
    BY <2>0, <2>2, <2>3, SMT DEF IInv, TypeOK, ControlOK, Start, Step, Finish,
       StartAppend, StartAudit, Acquire, Contended, AuditMissing, ReadLog, ReadHead, OpenLog, BeginLine,
       EndLine, WriteTemporary, RenameHead, Release
  <2>5. ASSUME NEW q \in Procs, q # p, Holding(q)' PROVE SoundHolder(q)'
    <3>1. Holding(q) /\ pc'[q] = pc[q] /\ verified'[q] = verified[q]
      BY <1>2, <2>5, OthersUntouched DEF IInv, Holding
    <3>2. ~Holding(p)
      BY <3>1, <2>5 DEF IInv, Exclusion
    <3>3. UNCHANGED <<log, exists, torn, head>>
      BY <1>2, <3>2, FilesOnlyByHolder DEF files
    <3> QED BY <2>2, <3>1, <3>3, SameFilesSameVerdict DEF SoundHolder
  <2>6. ASSUME Holding(p)' PROVE SoundHolder(p)'
    <3>1. CASE Acquire(p)
      <4>1. Clean' /\ pc'[p] = "readlog"
        BY <2>2, <3>1, SameFilesSameVerdict, SMT DEF Acquire, files, Goto, IInv, TypeOK, ControlOK
      <4> QED BY <4>1 DEF SoundHolder
    <3>2. CASE AuditMissing(p) \/ ReadLog(p) \/ ReadHead(p)
      <4>1. UNCHANGED <<log, exists, torn, head>> /\ Holding(p) /\ pc[p] \in {"readlog", "readhead", "readhead_torn"}
        BY <2>6, <3>2, SMT DEF AuditMissing, ReadLog, ReadHead, files, Holding, AfterAudit, Goto, IInv, TypeOK, ControlOK
      <4>2. Clean /\ Clean' /\ pc[p] # "readhead_torn"
        BY <4>1, <2>2, SameFilesSameVerdict, Zenon DEF SoundHolder
      <4>3. CASE AuditMissing(p)
        <5>1. verified'[p] = TRUE /\ pc'[p] = "decide"
          BY <4>1, <4>3, SMT DEF AuditMissing, AfterAudit, Goto, Holding, IInv, TypeOK, ControlOK
        <5> QED BY <4>2, <5>1 DEF SoundHolder
      <4>4. CASE ReadLog(p)
        <5>1. ~torn
          BY <4>2, <4>4 DEF Clean, Verdict, ReadLog
        <5>2. pc'[p] = "readhead"
          BY <4>4, <5>1, SMT DEF ReadLog, Goto, IInv, TypeOK, ControlOK
        <5> QED BY <4>2, <5>2 DEF SoundHolder
      <4>5. CASE ReadHead(p)
        <5>1. pc[p] = "readhead" /\ view[p] = log /\ exists /\ ~torn
          BY <4>1, <4>2, <4>5, Zenon DEF ReadHead, IInv, HolderViewIsLog, HolderKnows
        <5>2. Verdict(log, pc[p] = "readhead_torn", head)
          BY <4>2, <5>1 DEF Clean, Verdict
        <5>3. verified'[p] /\ pc'[p] = "decide"
          BY <4>1, <4>5, <5>1, <5>2, Zenon DEF ReadHead, AfterAudit, Goto, Holding, IInv, TypeOK, ControlOK
        <5> QED BY <4>2, <5>3 DEF SoundHolder
      <4> QED BY <3>2, <4>3, <4>4, <4>5
    <3>3. CASE OpenLog(p) \/ BeginLine(p)
      BY <3>3, SMT DEF OpenLog, BeginLine, Goto, IInv, TypeOK, ControlOK, SoundHolder
    <3>4. CASE EndLine(p)
      BY <3>4, SMT DEF EndLine, Goto, IInv, TypeOK, ControlOK, SoundHolder
    <3>5. CASE WriteTemporary(p)
      <4>1. ~torn
        BY <2>2, <3>5 DEF WriteTemporary, SoundHolder, Holding, IInv, OnlyAppendersWrite
      <4> QED BY <3>5, <4>1, SMT DEF WriteTemporary, Goto, IInv, TypeOK, ControlOK, SoundHolder
    <3>6. CASE RenameHead(p)
      <4>1. ~torn
        BY <2>2, <3>6 DEF RenameHead, SoundHolder, Holding, IInv, OnlyAppendersWrite
      <4>2. Clean'
        BY <3>6, <4>1, RenameCleans
      <4>3. pc'[p] = "release"
        BY <3>6, SMT DEF RenameHead, Finish, Goto, IInv, TypeOK, ControlOK
      <4> QED BY <4>2, <4>3 DEF SoundHolder
    <3>7. ~Start(p) /\ ~Contended(p) /\ ~Release(p)
      BY <2>6, SMT DEF Start, StartAppend, StartAudit, Contended, Release, Goto, Holding, IInv, TypeOK, ControlOK
    <3> QED BY <2>0, <2>3, <3>1, <3>2, <3>3, <3>4, <3>5, <3>6, <3>7, Zenon DEF Step
  <2>7. lock' = None => Clean'
    <3>1. CASE Release(p)
      <4>1. Clean /\ UNCHANGED <<log, exists, torn, head>>
        BY <2>2, <3>1 DEF Release, files, SoundHolder, Holding, IInv, OnlyAppendersWrite
      <4> QED BY <4>1, SameFilesSameVerdict
    <3>2. CASE ~Release(p) /\ lock' = None
      <4>1. lock = None
        BY <2>0, <3>2, LedgerConstants, SMT DEF Start, Step,
           StartAppend, StartAudit, Acquire, Contended, AuditMissing, ReadLog, ReadHead, Refuse, OpenLog, BeginLine,
           EndLine, WriteTemporary, RenameHead
      <4>2. ~Holding(p)
        BY <4>1, LedgerConstants DEF IInv, Exclusion
      <4>3. UNCHANGED <<log, exists, torn, head>>
        BY <1>2, <4>2, FilesOnlyByHolder DEF files
      <4> QED BY <2>2, <4>1, <4>3, SameFilesSameVerdict
    <3> QED BY <3>1, <3>2
  <2> QED BY <2>4, <2>5, <2>6, <2>7
<1> QED BY <1>1, <1>2, Zenon DEF Next, Act

(* Without an error or a crash the ledger always verifies when nobody      *)
(* holds the lock, and no append() is refused as damaged.                  *)
THEOREM FaultsAloneDamage == Spec => []OnlyFaultsDamage
<1>1. Init => LockGivenBack /\ Sound
  BY DEF Init, LockGivenBack, Sound, Clean, Holding
<1>2. Sound => OnlyFaultsDamage
  BY DEF Sound, OnlyFaultsDamage
<1> QED BY <1>1, <1>2, Inductive, LockBackStep, SoundStep, PTL DEF Spec
=============================================================================
