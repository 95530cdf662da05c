------------------------------ MODULE MCCustody ------------------------------
(* The custody of one project's sources and runs, for TLC: processes that  *)
(* freeze and revise, one walk up a line of revisions, runs of one source, *)
(* or the audit and the comparison of two runs that are over.  The four    *)
(* share no state, and a behaviour is of one of them.                      *)
EXTENDS Custody, TLC

CONSTANTS Nodes, MaxGenerations
VARIABLES parent, broken, walk, result
W == INSTANCE LineageChain WITH Sources <- Nodes, damaged <- broken
ASSUME WalkConstants == W!LineageConstants
line == <<parent, broken, walk, result>>

CONSTANTS Runs, Texts, Unparsable, Paranoid, Mad, Streams, MaxChanges
VARIABLES text, pinned, run, events, spoilt, unpublished, changes, errors
R == INSTANCE RunFile WITH Contents <- Texts, source <- text, frozen <- pinned, ledger <- events,
                           damaged <- spoilt, edits <- changes, faults <- errors, MaxEdits <- MaxChanges
ASSUME RunsConstants == R!RunConstants
runs == <<text, pinned, run, events, spoilt, unpublished, changes, errors>>

CONSTANTS MaxBudget, DefaultBudget, Policies
CONSTANTS Executed, Compared     \* the runs that are audited, and those they are compared with
VARIABLES left, right, audited
A == INSTANCE Receipts
ASSUME ReceiptConstants ==
  MaxBudget \in Nat /\ DefaultBudget \in Nat \ {0} /\ \A a \in Executed \union Compared : A!IsExecution(a)
pair == <<left, right, audited>>

VARIABLE what
Symmetry == Permutations(Procs) \union Permutations(Runs)

Drafts == {A!Text("s1", "p1", "EVERYDAY", 0), A!Text("s2", "p1", "EVERYDAY", 0), A!Text("s3", "p2", "GO_PARANOID", 3),
           A!Text("s4", "p3", "COMPLETELY_MAD", 0), A!Text("s5", "unparseable", "EVERYDAY", 0)}
Executions == [text : Drafts, end : {A!Null, A!Other} \union Drafts, kept : BOOLEAN, fails : BOOLEAN, compiled : BOOLEAN,
               out : {A!Content("out1"), A!Content("out2")}, data : {A!Content("data1"), A!Content("data2")}]
First(a) == a.out = A!Content("out1") /\ a.data = A!Content("data1")
MCExecuted == {a \in Executions : First(a) /\ a.end \in {A!Null, A!Other, a.text}}
MCCompared == {a \in Executions : a.end = a.text /\ a.kept /\ (First(a) \/ (a.out = A!Content("out1") /\ ~a.fails /\ ~a.compiled))}

-----------------------------------------------------------------------------
NoWalk == parent = None /\ broken = {} /\ walk = << >> /\ result = "none"
NoRun ==
  /\ text = None /\ pinned = None /\ run = [r \in Runs |-> None] /\ events = << >> /\ spoilt = FALSE
  /\ unpublished = FALSE /\ changes = 0 /\ errors = 0

MCInit == /\ Init
          /\ \/ what = "sources" /\ NoWalk /\ NoRun
             \/ what = "walk" /\ W!Init /\ NoRun
             \/ what = "runs" /\ R!Init /\ NoWalk
             \/ what = "audit" /\ NoWalk /\ NoRun
          /\ audited = FALSE
          /\ IF what = "audit" THEN left \in Executed /\ right \in Compared ELSE left = None /\ right = None

(* verify_run of both, and diff_runs.                                      *)
Audit == ~audited /\ audited' = TRUE /\ UNCHANGED <<left, right>>
MCNext == /\ UNCHANGED what
          /\ \/ what = "sources" /\ Next /\ UNCHANGED <<line, runs, pair>>
             \/ what = "walk" /\ W!Next /\ UNCHANGED <<vars, runs, pair>>
             \/ what = "runs" /\ R!Next /\ UNCHANGED <<vars, line, pair>>
             \/ what = "audit" /\ Audit /\ UNCHANGED <<vars, line, runs>>
all == <<what, vars, line, runs, pair>>
MCSpec == MCInit /\ [][MCNext]_all

-----------------------------------------------------------------------------
(* What lineage_chain returns is the ancestry of its source.               *)
ChainIsAncestry == what = "walk" => W!ChainIsAncestry

(* A run that run_file returns verifies, and no failed run has an output   *)
(* under its complete name.                                                *)
ReturnedRunsVerify == R!ReturnedRunsVerify /\ R!LateFailuresPartial

(* A receipt passes only if the ledger has it, and no receipt passes that  *)
(* the ledger has otherwise.                                               *)
LedgerAgrees == R!LedgerAgrees

(* "Failed stream outputs carry `.partial` names" (RELEASE_NOTES.md:378).  *)
FailedOutputsPartial == R!FailedOutputsPartial

(* What is evaluated of a frozen source is what was frozen.                *)
FrozenBytesEvaluated == R!FrozenBytesEvaluated

(* verify_run passes what run_file wrote, and finds every loss or change   *)
(* of a file of the run and every edit of its receipt; a receipt put       *)
(* together from two runs and sealed again never passes as another         *)
(* program, profile or budget, nor hides a changed source.                 *)
Verdicts ==
  [][what = "audit" => /\ A!DamageFound(A!RunOf(left), {A!RunOf(right)})
                       /\ A!ForgedVerdictRefused(A!RunOf(left), {A!RunOf(right)})]_all

(* diff_runs calls runs the same only if their program, inputs and results *)
(* are, and calls equal runs of either engine identical.                   *)
Classes == audited => A!ClassesMeanSame(A!RunOf(left), A!RunOf(right))
=============================================================================
