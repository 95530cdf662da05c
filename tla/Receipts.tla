------------------------------ MODULE Receipts ------------------------------
(***************************************************************************)
(* The receipt of a run and what src/src/audit.rs makes of it: verify_run  *)
(* reads nothing but the run directory, diff_runs compares two verified    *)
(* receipts.  A digest is the content it is taken of; a content is a       *)
(* record, so that any two can be compared.                                *)
(***************************************************************************)
EXTENDS Naturals, Sequences, FiniteSets, SequencesExt

Null == [none |-> TRUE]
Some(x) == x # Null
Content(c) == [content |-> c]
Other == Content("other")

CONSTANTS
  MaxBudget,     \* MAX_LOOP_BUDGET
  DefaultBudget, \* DEFAULT_LOOP_BUDGET
  Policies       \* clock, random, batch, ..: what a receipt may carry evidence of

(* A source text: which program it is, if it parses, under which profile,  *)
(* with which loop budget (0: none declared).                              *)
Text(t, program, profile, budget) == [content |-> t, program |-> program, profile |-> profile, budget |-> budget]
Parses(text) == "program" \in DOMAIN text /\ text.program # "unparseable"
IsParanoid(profile) == profile \in {"GO_PARANOID", "COMPLETELY_MAD"}

-----------------------------------------------------------------------------
(* The run directory: its receipt and its files.                           *)
At(run, f) == IF f \in DOMAIN run.files THEN run.files[f] ELSE Null
Field(content, x) == IF x \in DOMAIN content THEN content[x] ELSE Null
CompareFile(run, f, digest) == Some(digest) /\ At(run, f) = digest
Sealed(receipt) == [receipt EXCEPT !.core = Null]
Seal(receipt) == [receipt EXCEPT !.core = [of |-> Sealed(receipt)]]

(* FINAL_STATE_EVIDENCE: mad::verify.  The state is kept for a source that *)
(* asks for it, complete for a PASS, and the native values are the same.   *)
FinalState(run) ==
  LET r == run.receipt
      source == At(run, "source")
      requested == Parses(source) /\ source.profile = "COMPLETELY_MAD"
      state == r.final
      compiled == r.engine = "rust-native-compiled"
      complete == r.status = "PASS"
  IN \/ ~requested /\ state \in {Null, [capture |-> "NOT_REQUESTED"]}
     \/ /\ requested /\ r.paranoid /\ Some(state)
        /\ IF state.capture # "CAPTURED" THEN ~complete /\ state.capture \in {"REFUSED", "NOT_STARTED"}
           ELSE /\ state.complete = complete
                /\ CompareFile(run, "final-state.json", state.digest)
                /\ state.origin = (IF compiled THEN "INTERPRETER_REFERENCE" ELSE "INTERPRETER")
                /\ state.parity = (IF ~compiled THEN "NOT_REQUESTED" ELSE IF complete THEN "PASS" ELSE "NOT_COMPLETED")
                /\ complete /\ compiled =>
                     Field(At(run, "native-results.tsv"), "final") = Field(At(run, "final-state.json"), "values")

(* The policies: each one a receipt carries has to be the current one, and *)
(* its evidence well formed; a current receipt carries every one.          *)
PolicyPresent(r, p) == Some(r.policies[p]) \/ Some(r.evidence[p]) \/ r.version = "current"
PolicySupported(r, p) == PolicyPresent(r, p) => r.policies[p] = Content("policy") /\ Some(r.evidence[p])
ClockReplay(run) ==
  LET r == run.receipt
  IN (Some(r.replay) \/ (r.status = "PASS" /\ r.engine = "rust-native-compiled")) =>
       /\ CompareFile(run, "clock-replay.json", r.replay)
       /\ "clock" \in Policies => At(run, "clock-replay.json") = r.evidence["clock"]

(* validate_evidence: the loop budget a source declares, the effective one *)
(* and the steps used.                                                     *)
Effective(requested) == IF requested = 0 THEN DefaultBudget ELSE requested
ResourceEvidence(run) ==
  LET e == run.receipt.resources
      source == At(run, "source")
  IN /\ Some(e) /\ e.requested \in 0..MaxBudget /\ e.effective = Effective(e.requested) /\ e.used <= e.effective
     /\ Parses(source) => source.budget = e.requested

(* SOURCE_SHA256, CANONICAL_SOURCE_SHA256, MODULE_SOURCE_EVIDENCE.         *)
SourceBound(run) ==
  LET r == run.receipt
      source == At(run, "source")
      modules == Some(r.modules) => CompareFile(run, "modules", r.modules)
  IN /\ CompareFile(run, "source", r.source)
     /\ Some(r.canonical) => /\ Parses(source) /\ Content(source.program) = r.canonical
     /\ Some(r.modules) => Parses(source) /\ modules

(* EXECUTION_PROFILE_MATCHES_SOURCE, PARANOID_MODE_MATCHES_SOURCE.         *)
ProfileBound(run) ==
  LET r == run.receipt
      source == At(run, "source")
      early == r.status # "PASS" /\ ~r.paranoid
  IN IF Parses(source) THEN r.profile = source.profile /\ r.paranoid = IsParanoid(source.profile)
     ELSE early /\ r.profile = "EVERYDAY"

(* PARANOID_POSTFLIGHT_CLASSIFICATION.                                     *)
(* Mutant: a change of the source goes with any status.                    *)
VerdictLoose(r, p) == p.status \in {"PASS", "SOURCE_CHANGED"} /\ (p.status = "PASS") = (p.end = p.start)
Verdict(r, p) ==
  \/ p.status = "PASS" /\ p.end = p.start
  \/ p.status = "SOURCE_CHANGED" /\ p.end # p.start /\ r.status # "PASS"

(* PARANOID_POSTFLIGHT_*: the source read again at the end of the run.     *)
Postflight(run) ==
  LET r == run.receipt
      p == r.postflight
  IN IF ~r.paranoid THEN ~Some(p)
     ELSE /\ Some(p) /\ p.start = r.source /\ p.gate
          /\ IF p.status \in {"SOURCE_UNAVAILABLE", "EVIDENCE_UNAVAILABLE"}
             THEN /\ r.status # "PASS" /\ ~Some(p.observed)
                  /\ p.status = "EVIDENCE_UNAVAILABLE" => Some(p.end)
             ELSE /\ CompareFile(run, "postflight/source.observed", p.observed)
                  /\ Some(p.end) /\ p.end = p.observed /\ p.equal = (p.end = p.start)
                  /\ Verdict(r, p)

(* INTERACTION_EVIDENCE_*, STDOUT_SHA256, STDERR_SHA256.                   *)
StreamsBound(run) ==
  LET r == run.receipt
  IN /\ Some(r.interaction) =>
          /\ CompareFile(run, "interaction.json", r.interaction.digest)
          /\ Field(At(run, "interaction.json"), "argv") = r.interaction.argc
     /\ CompareFile(run, "stdout.log", r.stdout) /\ CompareFile(run, "stderr.log", r.stderr)

(* ARTIFACT, GENERATED_ARTIFACT: a sealed value may lie anywhere in the    *)
(* run, a generated file only in outputs/.                                 *)
ArtifactsBound(run) ==
  LET r == run.receipt
  IN /\ \A a \in ToSet(r.sealed) : CompareFile(run, a.path, a.digest)
     /\ \A a \in ToSet(r.generated) : a.path \in run.outputs /\ CompareFile(run, a.path, a.digest)

(* DATA_IMPORT_*: the bytes that were read are the bytes that were kept.   *)
ImportsBound(run) ==
  \A d \in ToSet(run.receipt.imports) : Some(d.read) /\ d.read = d.kept /\ CompareFile(run, d.path, d.kept)

(* LEDGER_EVIDENCE, FREEZE_RECEIPT_EVIDENCE, COMPILED_BINARY, ..: a file   *)
(* that a receipt names has to be there.                                   *)
Named == {"ledger", "head", "freeze", "binary", "rust", "results", "data"}
FileOf(n) ==
  CASE n = "ledger" -> "ledger.jsonl" [] n = "head" -> "ledger.head" [] n = "freeze" -> "freeze.json"
    [] n = "binary" -> "program-native" [] n = "rust" -> "program-native.rs"
    [] n = "results" -> "native-results.tsv" [] n = "data" -> "native-data.json"
NamedBound(run) == \A n \in Named : Some(run.receipt.named[n]) => CompareFile(run, FileOf(n), run.receipt.named[n])

(* NATIVE_RESOURCE_BUDGET_PARITY, NATIVE_DATA_EVIDENCE_PARITY: what the    *)
(* native program wrote down is what the receipt says, and its outputs are *)
(* beside it.  It knows nothing of the copies kept as evidence.            *)
Forgotten(imports) == [i \in DOMAIN imports |-> [imports[i] EXCEPT !.kept = Null, !.path = "none"]]
InNative == [t |-> "native-outputs/t"]
Outputs(generated) == [i \in DOMAIN generated |-> [name |-> generated[i].name, digest |-> generated[i].digest]]
NativeParity(run) ==
  LET r == run.receipt
      m == At(run, "native-data.json")
  IN /\ Some(r.named["results"]) => Field(At(run, "native-results.tsv"), "resources") = r.resources
     /\ Some(r.named["data"]) =>
          /\ "imports" \in DOMAIN m
          /\ \A p \in Policies : PolicyPresent(r, p) => m.policies[p] = r.policies[p] /\ m.evidence[p] = r.evidence[p]
          /\ m.resources = r.resources /\ m.imports = Forgotten(r.imports) /\ m.outputs = Outputs(r.generated)
          /\ \A i \in DOMAIN m.outputs : CompareFile(run, InNative[m.outputs[i].name], m.outputs[i].digest)

(* Mutant: the core is not recomputed.                                     *)
CoreKept(r) == Some(r.core)
(* RECEIPT_CORE_SHA256 and the required fields.                            *)
CoreBound(r) == r.core = [of |-> Sealed(r)]

Verified(run) ==
  /\ run.receipt.schema = "v2" /\ CoreBound(run.receipt)
  /\ FinalState(run) /\ (\A p \in Policies : PolicySupported(run.receipt, p)) /\ ClockReplay(run)
  /\ ResourceEvidence(run) /\ SourceBound(run) /\ ProfileBound(run) /\ Postflight(run)
  /\ StreamsBound(run) /\ ArtifactsBound(run) /\ ImportsBound(run) /\ NamedBound(run) /\ NativeParity(run)

-----------------------------------------------------------------------------
(* A run: the text of its source; what the source reads at the end (Null:  *)
(* it cannot be read) and whether that could be preserved; whether the     *)
(* evaluation fails, which it may before it makes anything; the engine;    *)
(* what it shows, seals and generates; what it reads.                      *)
IsContent(c) == "content" \in DOMAIN c
IsText(t) ==
  /\ t = Text(t.content, t.program, t.profile, t.budget)
  /\ t.profile \in {"EVERYDAY", "GO_PARANOID", "COMPLETELY_MAD"} /\ t.budget \in 0..MaxBudget
IsExecution(a) ==
  /\ a \in [text : {a.text}, end : {a.end}, kept : BOOLEAN, fails : BOOLEAN, compiled : BOOLEAN, out : {a.out}, data : {a.data}]
  /\ IsText(a.text) /\ IsContent(a.out) /\ IsContent(a.data)

Evaluates(a) == Parses(a.text) /\ ~a.fails
Watched(a) == Parses(a.text) /\ IsParanoid(a.text.profile)
IsMad(a) == Parses(a.text) /\ a.text.profile = "COMPLETELY_MAD"
Native(a) == a.compiled /\ Evaluates(a)
Unchanged(a) == a.end = a.text /\ a.kept
Succeeds(a) == Evaluates(a) /\ (Watched(a) => Unchanged(a))

Used(text) ==
  LET requested == IF Parses(text) THEN text.budget ELSE 0
  IN [requested |-> requested, effective |-> Effective(requested), used |-> 1]
Readings == Content("readings")
Current == [p \in Policies |-> Content("policy")]
Evidence == [p \in Policies |-> IF p = "clock" THEN Readings ELSE Content("evidence")]
Imported(a) == <<[read |-> a.data, kept |-> a.data, path |-> "data-evidence/0"]>>
Generated(a) == IF Evaluates(a) THEN <<[name |-> "t", path |-> "outputs/t", digest |-> a.out]>> ELSE << >>
SealedValues(a) == IF Evaluates(a) THEN <<[name |-> "x", path |-> "x.json", digest |-> a.out]>> ELSE << >>

(* What the native program leaves, and COMPLETELY_MAD and GO_PARANOID.     *)
StateFile(a) == [content |-> "state", values |-> a.out]
Results(a) == [content |-> "results", resources |-> Used(a.text), final |-> a.out]
Manifest(a) == [content |-> "data", imports |-> Forgotten(Imported(a)), outputs |-> Outputs(Generated(a)),
                resources |-> Used(a.text), policies |-> Current, evidence |-> Evidence]
Final(a) ==
  IF ~Parses(a.text) THEN Null
  ELSE IF ~IsMad(a) THEN [capture |-> "NOT_REQUESTED"]
  ELSE [capture |-> "CAPTURED", complete |-> Succeeds(a), digest |-> StateFile(a),
        origin |-> IF a.compiled THEN "INTERPRETER_REFERENCE" ELSE "INTERPRETER",
        parity |-> IF ~a.compiled THEN "NOT_REQUESTED" ELSE IF Succeeds(a) THEN "PASS" ELSE "NOT_COMPLETED"]
Observed(a) == IF a.kept THEN a.end ELSE Null
ObservedAtEnd(a) ==
  IF ~Watched(a) THEN Null
  ELSE [status |-> IF a.end = Null THEN "SOURCE_UNAVAILABLE" ELSE IF ~a.kept THEN "EVIDENCE_UNAVAILABLE"
                   ELSE IF a.end = a.text THEN "PASS" ELSE "SOURCE_CHANGED",
        start |-> a.text, end |-> a.end, observed |-> Observed(a), equal |-> a.end = a.text, gate |-> TRUE]
Argv == [content |-> "argv", argv |-> 1]

(* The files of the run directory.                                         *)
OfNative == {"native-results.tsv", "native-data.json", "clock-replay.json", "program-native", "program-native.rs",
             "native-outputs/t"}
FileNames(a) ==
  {"source", "stdout.log", "stderr.log", "interaction.json", "ledger.jsonl", "ledger.head", "data-evidence/0"}
    \union (IF IsMad(a) THEN {"final-state.json"} ELSE {}) \union (IF Native(a) THEN OfNative ELSE {})
    \union (IF Watched(a) /\ Some(Observed(a)) THEN {"postflight/source.observed"} ELSE {})
    \union (IF Evaluates(a) THEN {"outputs/t", "x.json"} ELSE {})
Written(a, f) ==
  CASE f = "source" -> a.text [] f = "interaction.json" -> Argv [] f = "data-evidence/0" -> a.data
    [] f \in {"stdout.log", "outputs/t", "native-outputs/t", "x.json"} -> a.out
    [] f = "final-state.json" -> StateFile(a) [] f = "postflight/source.observed" -> a.end
    [] f = "native-results.tsv" -> Results(a) [] f = "native-data.json" -> Manifest(a) [] f = "clock-replay.json" -> Readings
    [] f \in {"program-native", "program-native.rs"} -> Content("rust") [] OTHER -> Content(f)
FilesNamed(a) ==
  [n \in Named |-> IF n \in {"ledger", "head"} \/ (Native(a) /\ n # "freeze") THEN Written(a, FileOf(n)) ELSE Null]

(* run_file: the directory it leaves, with the receipt sealed at its end.  *)
Receipt(a) ==
  [schema |-> "v2", version |-> "current", core |-> Null, status |-> IF Succeeds(a) THEN "PASS" ELSE "FAIL",
   profile |-> IF Parses(a.text) THEN a.text.profile ELSE "EVERYDAY", paranoid |-> Watched(a), postflight |-> ObservedAtEnd(a),
   engine |-> IF a.compiled THEN "rust-native-compiled" ELSE "rust-interpreter",
   source |-> a.text, canonical |-> IF Parses(a.text) THEN Content(a.text.program) ELSE Null, modules |-> Null,
   policies |-> Current, evidence |-> Evidence, replay |-> IF Native(a) THEN Readings ELSE Null,
   resources |-> Used(a.text), final |-> Final(a), interaction |-> [digest |-> Argv, argc |-> 1],
   stdout |-> a.out, stderr |-> Content("stderr.log"), sealed |-> SealedValues(a), generated |-> Generated(a),
   imports |-> Imported(a), named |-> FilesNamed(a)]
RunOf(a) ==
  [files |-> [f \in FileNames(a) |-> Written(a, f)], outputs |-> {"outputs/t"}, receipt |-> Seal(Receipt(a))]

-----------------------------------------------------------------------------
(* diff_runs: the first policy that differs names the class, else what     *)
(* differs of the program and of the result.                               *)
Names(seq) == [i \in DOMAIN seq |-> [name |-> seq[i].name, digest |-> seq[i].digest]]
Reads(imports) == [i \in DOMAIN imports |-> imports[i].read]
SameSource(l, r) == l.source = r.source /\ l.modules = r.modules
State(r) == IF r.final \in {Null, [capture |-> "NOT_REQUESTED"]} THEN Null ELSE [f \in {"capture", "complete", "digest"} |-> r.final[f]]
SameSealed(l, r) == Names(l.sealed) = Names(r.sealed) /\ State(l) = State(r)
Equivalent(l, r) ==
  /\ l.canonical = r.canonical /\ l.evidence = r.evidence /\ l.resources = r.resources
  /\ SameSealed(l, r) /\ Names(l.generated) = Names(r.generated) /\ Reads(l.imports) = Reads(r.imports)
  /\ l.interaction = r.interaction /\ l.stdout = r.stdout /\ l.status = r.status

(* Mutant: the results are not compared.                                   *)
ClassifyClock(l, r, renamed) ==
  IF l.policies # r.policies THEN "POLICY_CHANGE"
  ELSE IF l.canonical = r.canonical THEN "IDENTICAL_RESULT" ELSE "SEMANTIC_OR_RESULT_CHANGE"

Classify(l, r, renamed) ==
  IF l.policies # r.policies THEN "POLICY_CHANGE"
  ELSE IF l.canonical = r.canonical /\ l.status = r.status /\ l.evidence # r.evidence THEN "CLOCK_INPUT_CHANGE"
  ELSE IF Equivalent(l, r) THEN
    IF SameSource(l, r) THEN "IDENTICAL_RESULT" ELSE IF renamed THEN "NOTATION_ONLY_REVISION" ELSE "NOTATION_ONLY_CHANGE"
  ELSE IF l.canonical = r.canonical /\ ~SameSealed(l, r) THEN "RUNTIME_DIVERGENCE"
  ELSE "SEMANTIC_OR_RESULT_CHANGE"

Diff(left, right, renamed) ==
  IF Verified(left) /\ Verified(right) THEN Classify(left.receipt, right.receipt, renamed) ELSE "refused"

-----------------------------------------------------------------------------
Without(run, f) == [run EXCEPT !.files = [g \in DOMAIN run.files \ {f} |-> run.files[g]]]
With(run, f, content) == [run EXCEPT !.files = [g \in DOMAIN run.files |-> IF g = f THEN content ELSE run.files[g]]]
Changed(run, field, value) == [run EXCEPT !.receipt = [g \in DOMAIN run.receipt |-> IF g = field THEN value ELSE run.receipt[g]]]
Resealed(run) == [run EXCEPT !.receipt = Seal(@)]

(* A run verifies as it was written; it does not when any one file of it   *)
(* is lost or reads differently, or when a field of the receipt is edited. *)
DamageFound(run, others) ==
  /\ Verified(run)
  /\ \A f \in DOMAIN run.files : ~Verified(Without(run, f)) /\ (run.files[f] # Other => ~Verified(With(run, f, Other)))
  /\ \A o \in others, field \in DOMAIN run.receipt \ {"core"} :
       o.receipt[field] # run.receipt[field] => ~Verified(Changed(run, field, o.receipt[field]))

(* A receipt put together from two runs and sealed again may verify, but   *)
(* never as another program, profile or loop budget than its source has,   *)
(* nor as a PASS of a paranoid source that read differently at the end.    *)
ForgedVerdictRefused(run, others) ==
  \A o \in others, f, g \in DOMAIN run.receipt \ {"core"} :
    LET forged == Resealed(Changed(Changed(run, f, o.receipt[f]), g, o.receipt[g]))
        source == run.files["source"]
    IN Verified(forged) =>
         /\ forged.receipt.canonical \in {Null, Content(source.program)}
         /\ Parses(source) => /\ forged.receipt.profile = source.profile
                              /\ forged.receipt.resources.requested = source.budget
         /\ Parses(source) /\ IsParanoid(source.profile) /\ forged.receipt.status = "PASS" =>
              At(run, "postflight/source.observed") = source

(* Two runs of one source that read and showed the same are identical      *)
(* whichever engine ran them; a class that says the result is the same is  *)
(* given only to the same program with the same inputs and results.        *)
ClassesMeanSame(left, right) ==
  LET l == left.receipt
      r == right.receipt
      same == l.source = r.source /\ l.status = r.status /\ l.stdout = r.stdout /\ l.imports = r.imports
              /\ l.sealed = r.sealed /\ l.generated = r.generated
      class == Diff(left, right, FALSE)
  IN /\ same => class = "IDENTICAL_RESULT"
     /\ class \in {"IDENTICAL_RESULT", "NOTATION_ONLY_CHANGE"} =>
          l.canonical = r.canonical /\ l.sealed = r.sealed /\ l.stdout = r.stdout /\ l.imports = r.imports
     /\ class = "NOTATION_ONLY_CHANGE" => l.source # r.source
=============================================================================
