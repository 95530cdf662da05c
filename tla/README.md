# Goblin++ in TLA+

Goblin++ (`src/`, a Rust crate in `src/src/`) is an interpreter and compiler for
small scientific programs whose point is custody: what ran, from which bytes, with
which inputs, and what came out is preserved in a run directory, sealed by digests
and registered in a hash-chained ledger that every later command audits. Around it
are parts with the same aim: messages between programs under mutual proof, downloads
with receipts, encryption of files, integrity checks of directories, resource plans.

This project models the parts whose correctness is a matter of order, failure and
boundaries, checks them with TLC on small instances, and proves with TLAPS, for
every value of the constants, the custody protocol, the evidence of a program's
inputs, the batch readers, the compiled run and the messages between programs.

Contents: [the system](#the-system) ·
[the hazards](#what-is-hard-here) ·
[the modules](#the-modules) ·
[the runs](#the-runs) ·
[findings](#what-the-code-does-that-its-documents-do-not-say) ·
[the proofs](#what-is-proved) ·
[what is left out](#what-is-not-modelled) ·
[the plan](#plan)

## The system

A project is a directory with `.gob` sources; `.goblin/` under it holds the
ledger, its checkpoint and its lock. Commands are separate operating-system
processes and share nothing but files. There is no daemon, and nothing repairs
anything: a file that was left half-written stays as it is and is refused later.

| component | source | state | operations | talks to | what makes it correct |
|---|---|---|---|---|---|
| custody ledger | `ledger.rs` | `custody-ledger.jsonl` (one event per line), `custody-ledger-head.json`, `custody-ledger.lock`, pid-named temporaries | `append`, `audit`, the lock's `acquire` and `drop` | called by runs, freezes, revisions, status | appends exclude each other; an acknowledged event stays in the chain and in what audits check; damage is never built upon |
| freeze and revision | `custody.rs` | `<source>.freeze.json`, `<source>.lineage.json` | `create_freeze`, `verify_freeze`, `verify_registration`, `create_revision`, `lineage_chain` | ledger, files the user edits | a frozen source runs only with the frozen bytes; a revision follows its parent's freeze; a lineage that is returned is the whole ancestry |
| run execution | `runtime.rs`, `mad.rs` | the run directory: source copy, logs, `outputs/`, `receipt.json` | `run_file`, `downgrade_self_check` | everything below | returned runs verify; a receipt that passes is registered; failures leave only `.partial` streams |
| run audit | `audit.rs` | none: reads run directories | `verify_run`, `diff_runs` | run | every loss or edit is found; runs that differ are never called the same |
| batch readers and streams | `batches.rs` | reader and writer tables of one program, a staging directory | open, `batch_next`, close, `stream_write`, `finish`, `publish`, `validate_evidence` | evaluator, `streaming.rs`, run | each row once and in order, PASS means everything read and written |
| inputs of a program | `evaluator.rs`, `streaming.rs`, `delimited.rs`, `scientific_io.rs`, `fits.rs` | open files, snapshots, scans | eager, streaming, scientific, batch and FITS readers; `add_output`; `copy_data_evidence` | evidence store | what was read is what is kept, though files change |
| data evidence store | `runtime.rs` | content-addressed objects shared by hard link | preserve, register, verify | run | the evidence of a run is kept whatever other runs do |
| evaluator | `evaluator.rs` | scopes, control flow, loop budget | statements, calls | inputs | bounded, deterministic, control flow contained |
| native compiler | `compiler.rs`, `compiled_*` | the generated program | generate, build, compare | run | compiled and interpreted results agree |
| lexer, parser | `lexer.rs`, `parser.rs`, `ast.rs` | none | text to tree | evaluator, compiler | one reading of every line |
| module resolution | `modules.rs` | active and visited libraries | `resolve`, `preserve`, `verify_preserved` | parser, run | cycles refused, each library once, the evidence is the program |
| tables and joins | `delimited.rs`, `streaming.rs`, `table_join.rs` | none | parse, scan, join, write, verify | evaluator, run | reads what it writes; two parsers, one grammar |
| clock and interaction | `clock.rs`, `interaction.rs` | recorded readings and answers; two pipes to a child | record, replay | evaluator, compiled run | the native program is given what the reference was |
| messages | `networking.rs` | listeners, connections | `net_*` | other programs | whole messages in order, from a peer that proved who it is, within a deadline |
| acquisition | `acquisition*.rs` | a bundle directory | `fetch`, `verify-fetch` | a server, other programs in the directory | a bundle that verifies is whole; nothing is overwritten |
| private programs | `confidential.rs`, `crypto_cli.rs`, `recipient_crypto.rs`, `private_launcher.rs` | files, staging files | launch, encrypt, decrypt, keygen | run, command line | nothing private is preserved; what is released is a whole encryption |
| orbit | `orbit.rs`, `orbit_scan.rs` | snapshots | capture, check, verify | a directory that others change | what a scan says was so; a digest is of bytes a file had |
| evidence reports | `evidence_report.rs` | a report directory | `create_report`, `verify_report` | orbit | a bundle that verifies is of one check and complete |
| resource plans | `ai*.rs` | a bundle directory | observe, plan, save, verify | the kernel's files | an admitted plan fits; less knowledge never admits |
| arithmetic, science, decoders, plots | `quantity.rs`, `matrix.rs`, `science.rs`, `fits*.rs`, `plots.rs` … | none | formulas, formats, rendering | evaluator | |
| editors, studies, tools | `vscode/`, `jetbrains/`, `studies/`, `tools/` | none of the protocol's | start the command line | | |

A run goes through them in this order: `run_file` reads the source and makes the
directory; audits the ledger; resolves the libraries; parses; asks the freeze gate
(which reads the source, its receipt and the ledger again); evaluates, with the
readers and streams under the evaluator and, if asked, a second time as a native
program; preserves the inputs; looks at the source once more if the program is
paranoid; publishes the streams; writes the final state, the logs and the receipt;
verifies itself; appends its event; and turns the receipt into a failed one if the
self-check or the append fails. Two such runs, a freeze, a revision and the user's
editor may be anywhere in this sequence at once.

## What is hard here

`PROJECT.json` lists the hazards at their lines with the properties that cover
them. They fall into eight groups.

1. *One lock, taken by writers only.* `append` is audit, decide, write a line,
   write a temporary, rename: seven file-system steps, any of which can fail, be
   the last one, or be observed half-way by an audit that takes no lock.
2. *Things are read twice.* The source is read to choose the launcher, for
   evaluation and again by the gate; a revision reads its parent three times;
   inputs are read, and then copied; a directory is listed, and then walked.
3. *Receipt first, event second.* A freeze and a run put their receipt on disk
   before the event is appended; a crash in between leaves one without the other,
   and a failed append may still have put its event into the chain.
4. *Repairs are sequences too.* A failed self-check and a failed registration
   rewrite logs, stream names and the receipt in two different orders.
5. *The same thing is written twice.* Two engines for one language, two parsers for
   one table grammar, two counters for one replayed answer, a scan and the
   validation of its snapshot: each pair must agree in every case.
6. *Cut in the middle.* A message, a download, an encryption, a bundle of files: a
   deadline, a crash or another program may end each after any of its pieces.
7. *Everyone waiting on everyone.* The child of a compiled run, the thread that
   writes to it and the reader of its output, over two pipes that fill.
8. *Boundaries.* Deferred rows, an exactly full last batch, the limit of a file in the
   middle of a write, the suffix of a number that may or may not go on, budgets
   that round.

Five hazards have no property: what `preserve_ledger_evidence` copies of the ledger
after the preflight audit (`runtime.rs:122`); the look for a FREEZE event of a source
without a receipt file in a report nobody asked for a verdict (`runtime.rs:873`); a
freeze of the child between its creation and that of its lineage
(`custody.rs:638`); a chain of exactly 256 generations, which is refused as too long
(`custody.rs:732`); and the receipt's entries for inputs behind the first that could
not be preserved (`runtime.rs:410`).

## The modules

```
EventChain            what the ledger promises: one growing hash chain
   ^ refined by
CustodyLedger         files, checkpoint, lock, errors, crashes     <- CustodyLedgerProofs
   | its guarantees are the assumptions of
   +--> Custody       freeze, revise, gate                         <- MCCustodyProofs
   +--> RunFile       run_file, repairs, verify_run                <- RunFileProofs
LineageChain          lineage_chain (Custody takes receipts one by one)  <- MCCustodyProofs
Receipts              verify_run and diff_runs of runs that are over     <- MCCustodyProofs
EvidenceStore         objects shared by hard link                  <- MCEvidenceStoreProofs
DataAccess            the readers of one program                   <- MCEvidenceStoreProofs
Modules               the libraries of one program                 <- MCEvidenceStoreProofs
Batches               batch readers and streams                    <- MCExecutionProofs
Replay                the compiled run and its pipes               <- MCExecutionProofs
AiPlan                the plan of a run's resources, its bundle    <- MCExecutionProofs
Programs  Expressions  Tables                                      what computes and keeps no state
Network   Acquisition  Private  Orbit  Reports                     what meets other programs
   ^ NetworkProofs, MCRemoteProofs, MCOrbitProofs
```

TLC runs five modules. `MCCustodyLedger` is CustodyLedger. The others hold parts that
share no state, side by side, and a behaviour is of one of them (the variable `what`,
or the instance whose variables move): `MCCustody` = Custody, LineageChain, RunFile or Receipts;
`MCExecution` = Batches, Replay or AiPlan; `MCEvidenceStore` = EvidenceStore, DataAccess or Modules;
`MCRemote` = Network, Acquisition, Private, Orbit or Reports. `MCAlgorithms`
chooses one input of Programs, Tables or Expressions and checks it.

A digest is the value it is taken of, so equal digests mean equal contents (no
collisions of SHA-256). A definition followed by "Mutant" in a comment is the
changed form of the next one and used by nothing else.

### The custody protocol

**EventChain** is the abstract specification: `chain`, the durable events, and
`acked`, those whose `append` returned Ok. An event may stay unacknowledged for
ever: the writer failed after its line was durable.

**CustodyLedger** has one action per file-system call.

| code (`ledger.rs`) | actions |
|---|---|
| `LedgerLock::acquire`, `create_new` | `Acquire`, `Contended` |
| `audit`, missing file / lines / checkpoint | `AuditMissing`, `ReadLog`, `ReadHead`, `AuditReadError` |
| `append`, refusal on an unverified report | `Refuse` |
| open with `create`, `to_writer`, newline and `sync_all` | `OpenLog`, `BeginLine`, `EndLine` |
| `atomic_write_json`: temporary, rename | `WriteTemporary`, `RenameHead` |
| `LedgerLock::drop`, whose `remove_file` error is ignored | `Release`, `ReleaseFails` |
| every `?` | `WriteError` |
| a kill | `Crash` |

`torn` is an incomplete last line; a crash or error between `BeginLine` and
`EndLine` leaves it for good. `view` and `verified` are the report of the
process's audit, on which `append` decides although the file may since have
changed. Event type, subject and payload are one value; an audit reads the log
at the moment it meets the end of the file.

**Custody**: `create_freeze` is `FreezeRead`, `FreezeAudit`, `FreezeWrite`,
`FreezeAppend`; `create_revision` is `ReviseVerify` to `ReviseAppend`, with each of
the parent's three reads a step of its own. `Verified` is `verify_freeze`,
`Registered` is `verify_registration`, `MayRun` is `enforce_freeze`. `GiveUp` ends a
command at any step, `WriteCut` leaves half a receipt, `AppendCut` leaves the ledger
damaged with or without the event. The ledger is the chain that CustodyLedger is
proved to implement, with damage that stays (`DamageIsFinal`). An event holds the
seal of the receipt that was built and the digest of the file found at the path.

**RunFile**: the steps of `run_file` in their order, for several runs of one source.
What a program computes is left out: `Evaluate` opens and closes any streams and
succeeds or fails. `Verify` is the part of `verify_run` that relates the receipt's
fields to each other and to the files. The two repairs are lists of steps, so that
a kill can fall between any two. `frozen` stands for a source whose freeze verifies
and is registered; an audit by one run may fail while another is appending.

**LineageChain**: the bounded walk over arbitrary lineage receipts. The initial
states are all ways in which the sources can name each other as parents, with any
set of receipts damaged. `MaxGenerations` is 256 in the code.

### Inputs and evidence

**EvidenceStore**: `preserve_data_evidence` of several runs over one store. Files are
numbers of `inodes`, so that a hard link is a second name of the same number:
`object` is the store's name, `attached` the run's own; `Other` is any other bytes
(a partial, changed or damaged file). `links` says whether the file system has hard
links, `enforced` whether the read-only bit keeps this user from writing (it does
not keep root). Pids come back: a run may have the pid of one that ended, and meet
its temporary.

**DataAccess**: one program and the files it reads, each two blocks, which other
programs rewrite in place or replace between any two steps. `Call`, `Read` and
`Opened` are the five kinds of readers; `Changed` is what each compares with what
was read before; `Reuse` is a later call on an open input; `AddOutput` and `Plot`
take names; `Preserve`, `Copy`, `Compare` and `Sealed` are the end of the run.
The order of header parse, hash and data access of a FITS file is kept.

**Modules**: `visit` takes the statements of a program one by one. Its recursion is a
stack of calls, each the library it expands, that library's statements and the next of
them; the innermost call keeps a statement (`Keep`), meets an import (`Cycle`, `Again`,
`Full`, `Unreadable`, `Enter`) or returns (`Leave`), and `Finish` is the rest of
`resolve_with`. `read` and `out` are what has been read and expanded so far. The files change
between any two steps (`Edit`). `Preserve` keeps what was read, `Damage` loses or alters an
object or an entry of it, and `Verify` begins the same visit again with the entries instead of
the files, which `Confirm` ends. A digest is its text, so `entries` maps a path to a text.
`ReachedFrom` says without any order what a program imports: the least set of paths closed
under the imports of its libraries. `Kept` is the set of their statements.

**Batches**: every call of `Batches::call`, `finish` and `validate_evidence`. A table is the
sequence of its rows' decoded sizes; a malformed row or one above the limit has
a size that never fits. `NextBatch` is `Reader::next`: the deferred row first,
then the file, until the row limit, the end, or a row that does not fit any more.

**Replay**: a compiled run that asks and looks at the clock. The interpreter goes
first (`Ask`, `LookAtClock`, `Other`); then a thread writes the answers into a pipe
of the child (`Write`), the child runs the same calls (`ChildStep`), its output is
collected (`Collect`) and compared (`Decide`). "inline" is a block of the user's
Rust, which only the native program runs and which may take a line.

### What computes and keeps no state

These are functions of an input. A property compares each with an independent
definition of what it is for.

| module | operators | compared with |
|---|---|---|
| Programs | `Parses` (the parser's flags), the interpreter of `eval_stmt_flow`, the generated program of `generate_statements` and what rustc refuses of it | each other, statement by statement, with the budget and the kind of error |
| Expressions | the levels of the descent with the unit suffixes of numbers, the syntax before suffixes | the set of all trees that the grammar gives a line |
| Tables | `parse_ecsv`, `record` byte by byte, `join`, `write_row`, `verify` | each other; the join as a set of rows |

**Receipts** computes too: a run is a record of its text, what its source reads at the end,
how it ends and what it shows, seals, generates and reads; `RunOf` is the directory that
`run_file` leaves of it, `Verified` every class of check of `verify_run`, `Diff` the classes
of `diff_runs`. They are compared with what was lost, edited or put together from two runs.
`Audit` of MCCustody is the verification and comparison of two runs.

**AiPlan** computes too: what `linux` observes of a kernel (`Observe`), the estimate, the
budgets and the decision (`Plan`), all compared with what the kernel's limits leave and
with the decision for a machine that shows less. Two actions of MCExecution surround it:
`Decide`, and `Save`, one file of the bundle (`Written` is what is there after n of them).

### What meets other programs

**Network**: handles of an execution are listeners or channels; a connection has two
ends, what each may prove, and the bytes on their way. A call is started, makes
progress byte by byte, and returns or retires the connection; `Tick` is time. In TLS
1.3 the client's handshake is over before the server has looked at its certificate
(`ClientShaken` before `ServerShaken`). A stranger connects and writes anything.

**Acquisition**: one `fetch` with every answer a server can give, the body byte by
byte against limit, deadline and declared length, publication by link and unlink,
the receipt, and the verification that ends it with its marker. `Stop` is an error or
a kill at any step, `Touch` what other programs do in the directory, `Forge` a
receipt made anew.

**Private**: which way a source goes (`Route`, then either launcher reads it again),
with edits in between; a library with a directive is refused; and one operation on a file: block by block, with a
staging file, published by `persist_noclobber`. The age library is taken at its
word: a chunk says which encryption it is of, its place, and whether it is the
last.

**Orbit**: `Scan::walk` with a stack of open directories, one system call per step;
other programs write, create, replace and remove, the inspected directory
itself included. `held` is history: what was at each path at any time of the scan.
Every change sets the time of what it changes; two changes within one tick may
leave the same fingerprint, and `hidden` says that this has happened. `Row` and
`Status` are the classification of the check, `ValidSnapshot` is `validate_snapshot`.

**Reports**: the bundle of a check: four files, then the report's seven, then the
verification of both, by processes that may have the same destination; a write may be
cut off, and a user edits or removes files.

## The runs

All runs are exhaustive for their constants. Symmetry is over interchangeable
processes, runs, pids, files and versions. Deadlock is not checked, because every
modelled command or program simply ends.

| run | parts and bounds | what it shows |
|---|---|---|
| `ledger` | 2 processes, 2 payloads, 2 events, 2 I/O errors, 1 crash or failed unlink | `AcknowledgedCovered`, `OnlyFaultsDamage`, `LockGivenBack`, `DamageIsFinal`, the refinement `ImplementsEventChain` |
| `custody` | 2 processes, 2 paths, 2 contents, 2 edits, 1 deleted receipt, 1 cut write; or 4 sources and 3 generations; or 2 runs of an everyday, a COMPLETELY_MAD or an unparsable content, 1 stream, 1 edit, 1 handled error, any number of kills; or 3,000 pairs of a run that is audited and one it is compared with | the gate (`GateWhileReceiptsStay`, `GateMeansRegisteredBytes`), `RevisionFollowsFreeze`, `OrphansStayOrphans`; `ChainIsAncestry`; `ReturnedRunsVerify`, `LedgerAgrees`, `FrozenBytesEvaluated`; `Verdicts`, `Classes` |
| `execution` | tables `1,2,3,3,2,1` and `2,2,4,1` with 2 rows or 3 bytes per batch, 2 streams of at most 4 bytes, 3 handles; or every program of up to 4 calls and three longer ones, pipes of one line, 2 inputs, 2 readings; or 11,500 pairs of a kernel and a request | `RowsInOrder`, `BatchEvidence`, `ReadLoopEnds`; `PassIsReplayed`, `FaithfulRunsPass`, `RunEnds`; `Admitted` |
| `evidence` | 2 runs, 2 pids, one input, two different, two equal ones, an error, a changed input, a kill and a damaged object once each; or 2 files in 2 versions, 2 calls of readers, 2 edits; or 3 programs over 490 projects of up to 4 libraries, 1 change | `PassedEvidenceKept`, `ObjectsWhole`, `OnlyDamageRefuses`; `ReadsAreEvidence`, `OneReading`; `Libraries` |
| `algorithms` | 3,408 programs, 25,000 lines, 20,000 texts, 4,000 joins | `Contained`, `Parity`, `LinesRead`, `Joined` |
| `remote` | a server, a client and a stranger, 1 connection, 2 messages of up to 2 bytes, 2 strange bytes; or 1 download of up to 2 bytes, 2 touches; or 1 private program or file operation of up to 2 blocks, 2 calls; or a directory of at most 4 nodes and 2 changes, failed calls or deadlines; or 2 processes and one bundle, 2 edits, 1 fault | `OnlyWhatWasSent`, `DeadlineAbsolute`; `FetchIsWhole`, `OthersKept`; `NotPreserved`, `EncryptionIsWhole`; `ObservedAsHeld`; `BundlesAreWhole` |
| `publish_error` | 1 run, 2 streams, 1 error | counterexample to `FailedOutputsPartial` |
| `read_after_close` | as `execution` | counterexample to `EvidenceAlwaysValid` |
| `same_bytes` | as `evidence` | counterexample to `ObjectsImmutable` |
| `fits_data` | as `evidence` | counterexample to `FitsDataReadsAreEvidence` |
| `native_set` | as `algorithms` | counterexample to `Claim` |
| `private_imports` | as `remote` | counterexample to `RefusedBeforeKept` |

Why the bounds are enough:

- *Ledger.* The first event (no file, no checkpoint) and the second (both present)
  are the two cases the code distinguishes. Two errors and a crash allow a failed
  append, a second process that meets what it left, and a fault there too. The
  proofs then cover every number of all of these.
- *Custody.* The parent and the child of a revision are two paths; two edits are an
  edit and its undoing; a receipt number per write distinguishes a receipt from
  the one that replaced it. A bound of three with four sources gives chains below,
  at and above the bound, and cycles of every length up to four.
- *Run.* Two runs meet in the ledger only. Kills are not counted because a dead run
  takes no further step. One handled error leads into one repair; a run that is in
  a repair has no further error exit but `?`, which is `Die`.
- *Receipts.* Five texts: two of one program, one of either paranoid profile and one that does not
  parse; sources that are lost, changed, kept or not kept at the end; both engines, success and failure.
  A run that is audited is damaged by one loss or change of any file or one field of
  the other's, and forged with any two fields of it.
- *Batches.* The first table has a batch that is full by rows, one that is
  full by bytes, deferred rows twice in a row, and a last batch that is followed by
  an empty one; the second has a row that never fits behind a deferred one. Files of
  four bytes are reached in the middle of a `stream_write` of two rows.
- *Replay.* A pipe of one line is full after one write, so the child, the writer and
  the reader can each wait for another; the three longer programs fill both pipes
  before the first answer is taken, and put the user's Rust before, between and
  after the questions. Two inputs and two readings are met and exceeded.
- *Plans.* 576 kernels with every kind of cgroup file on one level or two and each
  capacity known and unknown, and 20 requests on either side of each budget and ceiling:
  168 of the pairs are admitted, 4,456 refused, 6,320 left open, 576 invalid.
- *Evidence.* A race is between two runs; a third would meet an object that is either
  there or not, as the second does. One fault of each kind can follow one of every
  other kind. A change is undone by a second edit, and a mixture needs the two
  blocks of a file.
- *Libraries.* With four paths, two of them in a subdirectory, and a bound of three there are
  cycles of one and two libraries in either directory, ones with two importers, missing ones, the
  same function twice within and across libraries, and too many. A change of a file falls
  before, between or after the reads; a change of the evidence is one object or entry.
- *Algorithms.* Every pair of nested constructs with every leaf that moves control or
  the index; texts of up to six
  characters have a quoted cell with each special character at either end; lines of
  three operands have every pair of neighbouring operators in both orders.
- *Remote.* One connection is cut after every byte of two messages, which is where a
  later message would meet the rest of an earlier one. A limit of two bytes is met
  and exceeded by one. Two encryptions are spliced in every way. A directory
  with a subdirectory and an unsafe name meets the limits of entries, depth, file and
  total; two changes undo one another, replace a file by another of the same name,
  or fall before and after a read. Two processes can each make half a bundle.

Every property of a passing run has at least one mutant in `PROJECT.json`: a change
to a mapped definition, of the kind a plausible bug would make, that breaks it.

### Fairness

- `ReadLoopEnds` assumes weak fairness of the documented loop (`batch_next` until an
  empty array, then `batch_close`). It is an assumption on the program, which is
  what the guarantee is for: each call before the end delivers a row. Nothing is
  assumed of the other calls.
- `RunEnds` assumes weak fairness of the child, of the thread that writes to it, of
  the reader of its output and of the decision at the end: threads and processes the
  operating system schedules. A step that waits for a full or an empty pipe is not
  enabled, so the property says that the three never wait for one another in a circle.
- The ledger has no liveness property on purpose. `append` never waits: it meets
  the lock and fails at once. That every way out gives the lock back is the safety
  property `LockGivenBack`; a stale lock after a crash stays, by design of the code.
- Calls of the network end by their deadline, which is the safety property
  `DeadlineAbsolute`; that the walk up a lineage ends is proved (`WalkAdvances`).

## What the code does that its documents do not say

Each is a run with `expect: violation`, and a row of `findings` in `PROJECT.json`
with the quoted line.

1. **A copy error while publishing** (`batches.rs:778`) leaves streams of the failed
   run under their complete names, unlisted.
2. **`batch_next` on a closed reader** (`batches.rs:572`) marks it as failed, and
   `validate_evidence` refuses a reader that is closed and failed: the failed run's
   receipt does not verify.
3. **The same bytes from two files** (`runtime.rs:992`): the second input's hard link
   fails because the destination is there, and `fs::copy` then truncates the inode it
   is about to read. The stored object and the evidence of every earlier run that
   links it are emptied, wherever the read-only bit is not set yet or is not enforced;
   elsewhere the run fails.
4. **FITS data read after its hash** (`runtime.rs:951`): when an earlier run stored
   the same bytes, nothing reads the file again, and a change in place after the open
   gives results that are not in the evidence of a run that passes.
5. **An indexed assignment that reads a variable** (`compiler.rs:840`) runs in the
   interpreter and does not build with `--compile`: two borrows of one environment.
6. **A failing import switches the private check off** (`runtime.rs:49`): the source
   with its confidential calls is kept before the same error ends the run.

Also visible in the models, each a disagreement or a surprise without a run:

- Between an append's line and the rename of its checkpoint (`ledger.rs:236`, `:259`)
  an audit in another process reports a damaged ledger, and a run there stops with
  "The project custody ledger or head checkpoint is damaged." (`runtime.rs:136`).
- A frozen source can be frozen again after its receipt was deleted: `create_freeze`
  looks for no earlier FREEZE event (`custody.rs:97`), although
  `vscode/docs/EDITOR_GUIDE.md:62` says the command line enforces a revision.
- A refusal of a damaged ledger returns before the profile and the mode are set
  (`runtime.rs:133`), so the receipt of a GO_PARANOID or COMPLETELY_MAD program does
  not verify (`README.md:672` of the repository: "Refusals are preserved as
  verifiable runs.").
- A source changed when the run starts and restored before the gate looks at it is
  evaluated with the changed bytes (`runtime.rs:178`); `FrozenBytesEvaluated` holds
  for one edit.
- `x = print(…)` gives 0 in the interpreter and an unknown symbol in the native
  program; `net_send` and `net_receive` of a listener close it before they look at
  its kind (`networking.rs:419`); an error after the complete receipt leaves a
  bundle that verifies of a fetch that failed (`acquisition.rs:461`); a kill leaves
  the staging file of an encryption; a smaller cgroup limit lowers the reserve of a
  plan, which is a quarter of it, and may raise the budget
  (`docs/AI_RESOURCES.md:130`); an edit of a bundle between `check`'s files and its
  report makes the printed result another than the bundle's.

The properties that would fall with these say so in their condition:
`GateWhileReceiptsStay`, `ReturnedRunsVerify` (preflight passed, no failed copy),
`FrozenBytesEvaluated`, `BatchEvidence`, `ReadsAreEvidence`, `FaithfulRunsPass`,
those of EvidenceStore (`DistinctInputs`), and `ObservedAsHeld` (`hidden`).

## What is proved

Eight modules hold proofs. Three are about one component each (`CustodyLedgerProofs`,
`RunFileProofs`, `NetworkProofs`), five about the parts
of a composition that TLC runs (`MCCustodyProofs`, `MCEvidenceStoreProofs`,
`MCExecutionProofs`, `MCRemoteProofs`, `MCOrbitProofs`), where a part that does not take place leaves its state alone. Every
theorem holds for all values of the constants that the named assumption of the module
allows, so for any number of processes, sources, payloads, errors, crashes, generations,
runs, inputs, rows, calls, connections, messages, touches, edits, directories, entries, libraries, statements and bytes.

| module | theorem | states |
|---|---|---|
| CustodyLedgerProofs | `TypeCorrect` | `TypeOK` |
| | `ExclusionHolds` | only the holder of the lock file is between reading and writing |
| | `AcknowledgedEventsCovered` | `AcknowledgedCovered` |
| | `OneUncoveredAtMost` | at most one event is above the checkpoint, after any faults |
| | `Refinement` | `ImplementsEventChain` |
| | `VerifiedAuditsAreCurrent` | an audit that passes saw a prefix with every acknowledged event |
| | `LeftoversAreHarmless` | a leftover of `head.tmp` stops no later append |
| | `LocksAreGivenBack` | `LockGivenBack` |
| | `DamageStays` | `DamageIsFinal` |
| | `FaultsAloneDamage` | `OnlyFaultsDamage` |
| MCCustodyProofs | `TypeCorrect` | `TypeOK` |
| | `GateIsRegistered` | `GateMeansRegisteredBytes` |
| | `GateHolds` | `GateWhileReceiptsStay` |
| | `OkIsRegistered` | a freeze that was reported as done has its event |
| | `RevisionsFollow` | `RevisionFollowsFreeze` |
| | `OrphansStay` | `OrphansStayOrphans` |
| RunFileProofs | `TypeCorrect` | `TypeOK` |
| | `ReturnedRunsAccepted` | `ReturnedRunsVerify` and `LateFailuresPartial`, the two parts of the checked property |
| | `ReceiptsAgree` | `LedgerAgrees` |
| | `FrozenBytesRun` | `FrozenBytesEvaluated` |
| MCCustodyProofs | `ReturnedRunsAccepted`, `ReceiptsAgree`, `FrozenBytesRun` | the run `custody`'s properties of runs, of `MCSpec` |
| | `WalkTypes` | the walk stays within the sources and its bound |
| | `AncestryReturned` | `ChainIsAncestry` |
| | `WalkAdvances` | every step returns, refuses or uses up a generation |
| | `VerdictsAreTrue` | `Verdicts` |
| | `ClassesAreTrue` | `Classes` |
| MCEvidenceStoreProofs | `TypeCorrect` | `TypeOK` |
| | `EvidenceStays` | `PassedEvidenceKept` |
| | `ObjectsAppearWhole` | `ObjectsWhole` |
| | `RefusalsMeanDamage` | `OnlyDamageRefuses` |
| | `SpecReadsAreEvidence` | `ReadsAreEvidence` |
| | `SpecOneReading` | `OneReading` |
| | `LibrariesAreTrue` | `Libraries` |
| MCExecutionProofs | `RowsAreInOrder` | `RowsInOrder` |
| | `EvidenceOfAnyEnd` | `BatchEvidence` |
| | `PassesAreReplayed` | `PassIsReplayed` |
| | `FaithfulRunsDoPass` | `FaithfulRunsPass` |
| | `PlansAreAdmitted` | `Admitted` |
| NetworkProofs | `NetworkTypes` | handles, calls, connections and bytes stay in their domains |
| | `NetworkControl` | a connection has one user at each end, after that end's handshake |
| | `SpecDeadlineAbsolute` | `DeadlineAbsolute` |
| | `NetworkStreams` | where every byte of a message is |
| | `SpecReceivedInOrder` | `ReceivedInOrder` |
| | `SpecOnlyWhatWasSent` | `OnlyWhatWasSent` |
| MCRemoteProofs | `DownloadsAreWhole` | `FetchIsWhole` |
| | `PrivateSourcesNotKept` | `NotPreserved` |
| | `EncryptionsAreWhole` | `EncryptionIsWhole` |
| | `OthersAreKept` | `OthersKept` |
| | `BundlesVerifyWhole` | `BundlesAreWhole` |
| MCOrbitProofs | `ScansAreTrue` | `ObservedAsHeld` |

**Ledger** (assumption `LedgerConstants`). None of the properties is inductive,
because each rests on what the holder of the lock has learned. `IInv` says what that
is: exclusion; from `ReadLog` on, the holder's view is the log; if it verified, the
checkpoint covered the log and no line was torn; after `EndLine` exactly its own event
is uncovered; when it reports "ok" that event is covered. `FilesOnlyByHolder` shows
that nobody else touches the files, so a step of another process leaves the holder's
part alone (`OthersUntouched`), and `HolderOwnStep` goes through the holder's own steps.
`FilesStep` and `PrefixStep` do the same for the files and for the audits without the
lock, whose view stays a prefix of the log. In the refinement `EndLine` is
`Extend`, `Release` after "ok" is `Acknowledge`, and every other step stutters.
`TemporariesOK`, `LockGivenBack` and `DecidesOnClean` are inductive on top of `IInv`.
`FaultsAloneDamage` needs one more strengthening, `Sound`: what each holder leaves
behind at each of its steps as long as nothing has failed.

**Freeze and revision** (assumption `CustodyConstants`). The number of a receipt
is claimed in three places: by the receipt file, by a job that is about to append its
event, and by the FREEZE event. `IInv` says that claims with the same number agree on path and
content (`IdsOnce`), that every number was given out (`IdsGiven`), that a path with a
claim still has the receipt of that number while none is deleted (`ClaimsStay`), that a
freeze reported as done has its event (`FrozenHaveEvents`), that the events a revision
rests on are there between its steps (`RevisersKnow`), and the order of the two events
itself. The gate follows: a source that passes matches its receipt, and the event with the
receipt's number has the receipt's content (`EventsOfReceipt`). `GateHolds` goes the
other way: every event of a path claims a number, and `ClaimsStay` makes it the
number of the receipt that is there.

**Runs** (assumption `RunConstants`, a hypothesis of each theorem). `verify_run` looks at
a run when it is over, so the invariant says at each step what the record must already
hold to be accepted in the end. `Mode`, `Post`, `Due` or `Captured` and `Names` relate the
receipt to the program's mode, the second read of the source, the final state and the
names of the streams. They are stated of the outcome until the receipt has a status, and of
that status from then on (`Decide`). In a repair the receipt still says what
failed while the files already do not, and the two repairs have different orders:
`Repaired` keeps the names of the status as long as the marking is still to come
(`Marks`) and those of a failure after it (`Marked`). So the last step of either repair seals a receipt
that is accepted (`CompleteVerifies`), and a kill between any two steps leaves no complete name
beside a failure (`DieGood`). A failed copy of a stream ends the argument about names for good
(`Published`); the run `publish_error` shows why. `LedgerOK` says that the event of
a run is its receipt, or the receipt has failed or is being written; it needs that a run with an event
only ever changes its receipt into a failure (`LateAfter`). `FreezeOK` counts edits: with none the source is
as it was frozen, with one it is not, so a gate that passes met the bytes of the start.
`MCCustodyProofs` instantiates these lemmas as MCCustody instantiates RunFile, so both
speak of the same steps (`SameRuns`).

**Lineage** (assumption `WalkConstants`; in MCCustodyProofs). The walk
follows `parent` and stops at the first damaged receipt, so what it has visited is
linked. That no node is repeated in a returned chain follows from
`RepeatsArePeriods`: the walk is a function of where it is, so a node met twice makes
it periodic from there on, and a periodic walk never meets a source without a
lineage, which is the only way it returns. `WalkAdvances` is its termination.

**Audit of a run** (assumption `ReceiptConstants`: the bounds of budgets are numbers, and the runs
that are audited have texts with a profile and a budget within bounds; what they show, read and
generate, what their sources read at the end and which policies there are is arbitrary). A run verifies as it was
written, check by check (`RunsVerify`). That damage is found follows from `FilesKept`: *any*
directory that verifies with the receipt of a run has all of that run's files as they were
written, since each of them is named by its digest somewhere in the receipt
(`PlainFilesKept`, `NativeKept` and their like say where) and no digest there is absent. An edited field is found
because the sealed core depends on every other field (`EditFound`). Whoever seals a receipt again
evades the core, so `VerifiedIsBound` says what any verified directory, whoever sealed
it, says of its own source file: program, profile, budget and paranoid mode are read from the text, and
`PassIsUnchanged` that a PASS of a paranoid receipt has an observed source equal to it.
The classes of `diff_runs` are conjunctions of comparisons; that two runs with equal comparisons
have equal results needs that names determine paths in what `run_file` writes (`NamesEqual`) and
that what was read is what was kept (`ReadsEqual`), and that equal runs of either engine are identical needs
that the captured state does not tell the engines apart (`StatesEqual`).

**Evidence store** (assumption `EvidenceConstants`). Run directories, the store and the
temporaries share files, so the invariant first says who has which. `Ownership`: runs
that are on have different pids, a run's temporary is there from its copy to its
registration, one run at a time fills the object of a content, and a file leads to one
content (`OneContent`). It holds through every fault. `Contained` needs `Clean`, no damage
from outside and no program with the same bytes twice: copies and verified objects are
whole, an input is attached once (`AttachOnce`, which excludes the `fs::copy` that
truncates a shared file), the inputs a run has passed have their evidence, and with
links and no failed call nobody is ever at a registration that writes in place
(`LinksSuffice`). `FilesStep` names the only writes to a file that is there, from which
`StaysWhole` follows: no file with the bytes of its content loses them. A refused run must keep its
copy although objects *are* damaged, so `RefusedAlone` stands outside `Clean`: nothing else leads to
that copy's file. The run `same_bytes` shows that `Clean`'s second condition is needed.

**Readers of a program** (assumption `ReadersConstants`; files may change between any two
reads). `ReadersInv` relates four things: who may read (`Allowed`: a call that is
reading was let in by the guards of the other readers), what is held (`Held`: what the
program was given is in the digest its reader keeps; `OneReading`), what was copied
(`Copied`: the evidence is the digest, every input has it when the run passes) and how
often files were changed. The last is needed where the code reads again. The data of a
FITS file comes from the open file after its hash, so `FitsData` says that a difference
costs one change and a difference that is no longer visible two. A batch snapshot is
read twice, so `Snapshots` says at each of the four blocks how many changes a mixture
that looks the same twice has cost by then: three at the end. That a replaced file is
no longer any path's (`Apart`) keeps those counts when a path gets a new inode. The readers that
are asked for a copy always include one that has it (`SourceFacts`).

**Libraries of a program** (assumption `LibraryConstants`: sources and texts are finite sequences of
statements, projects finite sets of them; graphs, sizes, the bound and the number of changes are
arbitrary). `visit` is a depth-first search, and nothing it knows on the way is the
property. `Walk` has seven parts. `Calls`: each call stands behind the import that names the next,
and no two are of the same library. `MetIsReached`: what has been met is reached from the source, and
each call from all above it, so an import of an active library is a real cycle. The rest is about
`Finished`, what has been met and is no longer active: what lies behind any call is finished or the next
call (`BehindIsFinished`), the finished libraries are closed under imports (`FinishedIsClosed`),
none reaches itself (`FinishedIsAcyclic`), and the program so far is exactly the statements behind, once each
(`Expanded`). At the end nothing is active: the closed set contains the reached one (`ReachedLeast`),
so the two are equal (`WalkEnds`). A refusal is final because a project that agrees with what was read
is reached alike (`ResolvableSame`), whatever the files became since; the same lemma says that a run whose
files are unchanged at the end is a run of those. That the evidence gives the statements in the *same
order* compares two walks. What `visit` does next is a function of where it is and of the libraries
(`After`), so the run's walk is kept as a sequence of such steps (`Makes`), the walk of unaltered evidence
is at one of its members (`Verifying`), and both end at the same (`WalkArrives`). TLC checks the parts of `Walk`
as invariants on 130,000 states of such programs.

**Batch readers** (assumption `BatchConstants`). What a batch takes is defined by sums
of sizes, so the proof begins with sums (`SumsExist`, `SumsGrow`: they are there for any
sequence, and grow). `ReaderOK` says that a reader has delivered the first rows of its
table and that a deferred row is the next one; each end of a batch (limit of rows, limit
of bytes, end of the table) keeps it. From it follow the order of the rows and the
counts that `validate_evidence` recomputes; that a stream is on disk as it was written
needs the same of the writers.

**Compiled run** (assumption `CompiledConstants`). What a program has said, sealed and asked
up to a place is a function of its text and of the answers so far (`Counted`,
`Recorded`), for the reference and for the native program alike, so equal answers mean
equal places. `Piped` follows the answers through the pipe: given, in the pipe and
unsent together are the reference's, less what a block of Rust took (`Lost`). `Repeats` is
what this means without such blocks: the native program is a prefix of the reference in
everything, nothing is lost, nothing fails. A pass needs the counts to agree, and then
nothing was lost (`PassesAreReplayed`).

**Resource plans** (assumption `PlanConstants`: the bounds are numbers, and `Unknown` is
none; the kernels and requests that are planned have the fields and ranges of their types). That less never
admits is monotony in two orders. A machine is poorer (`Poorer`) if each free capacity
is unknown or not above the other's, with the same totals (or none) and the same limits, of which no
less is used, and a request asks for more (`AsksMore`) if nothing it needs or reserves is less and no ceiling
higher. Budgets shrink with the first (`RamShrinks`, `DiskShrinks`, `DeviceShrinks`): the reserves of RAM and
card are parts of the totals, which stay, and that of the disk is a quarter of what is free,
of which the rest grows with the whole; needs grow with the second (`NeedsGrow`, through the rounding up of each product).
`FitsBetter` puts both together for one resource and `Monotony` for the decision. What
is hidden or used up is poorer, and what is harder asks for more, as long as the request is
valid: an invalid request becomes valid with a batch of one instead of none, so
`NeverAdmittedByLess` speaks of valid ones. That an admitted plan fits goes limit by limit:
the budget is below what each limit leaves (`RamLeft`, `DiskLeft`, `CardLeaves`), and the
limits are all there because one that cannot be read leaves the free memory unknown
(`KernelIs`, `LimitsAre`). A bundle holds its plan because `verify_bundle` computes the plan again
(`VerifiedHolds`); before the receipt it does not verify at all (`PartIs`).

**Messages** (assumption `NetworkConstants`). Three layers. `TypeOK`. `Control`: a
connection has at most one handle or call at each of its ends, which may use it only
after its own part of the handshake, and nothing was written on it before, so nobody
else reads or writes in between. `Streams`: the bytes that a program was given, those
in its call and those on the way are, in this order, the beginning of what the messages
at the other end are written as, so a message is cut where it was sent. An
end that has not proved who it is has been sent nothing. `DeadlineAbsolute` follows
from the first two: `Control` also says that a call, which grows older by the clock
alone and only while it is in time, is at most as old as its deadline.

**Download** (assumption `FetchConstants`). Every check of `acquire` fills in the receipt,
and what is on disk changes under it at any time. `ReceiptTrue` says what the receipt in
memory knows whatever others do: its status means that the request was valid, 200 that
the server said so and which length it declared, and without a touch the payload is
what came. `FetchControl` says where `acquire` is and which name it has made by then.
Of others' files nothing is assumed: that a bundle that verifies is whole follows from
its receipt alone, whose path, bytes and digest `verify` compares.

**The way of a source** (assumption `ProgramConstants`). The source is read up to three
times, and a library that says GO_PRIVATE resolves nowhere (`visit` of `modules.rs`). `RoutePublic` says of the source in use, the one that was read last, that it does not say
GO_PRIVATE from the second read on, so what is kept does not either. `RouteStill` is for sources that nobody edits: what
was decided of one reading holds of the next.

**Operations on files** (assumption `ProgramConstants`). Files are cut and spliced by others, so
nothing can be said of whole files. `Stored` says it of blocks: every header and chunk that is
anywhere belongs to an encryption that is over, and a chunk says what that encryption read
at its place, the end only behind the last. A decryption takes blocks one by one
(`Decrypting`), so what it has staged is the beginning of what one encryption read,
and all of it once it has met the end. `Encrypting` is the same while a file is made, and
`Usable` says, without edits, that a file with a header is a whole encryption.

**Bundles** (assumption `BundleConstants`). That a bundle which verifies against a receipt is the one the
check returned needs only that both verify: the receipt determines each of the eleven
files. The rest is about several processes at one place. `OfOneCheck`: while nobody edits,
at most one process is past `new_directory`, the files it wrote are what it holds in memory, in
order and as far as it has come (`Stage`), and there is no receipt until it has written its last
file. So a bundle that verifies without a trusted receipt has a process that finished it.

**Scans of a directory** (assumption `TreeConstants`: files have numbers for names, the
trees at the start lead to nodes they have). A scan makes its claims late: what it says
of a directory it can say only when it has left it, and for a complete scan even the
hashed files count only then, because a directory that was moved out of the tree
meanwhile leaves true digests at wrong paths. `OrbitInv` has nine parts. `FramesOK`: the open
directories lie in each other along the names that were taken. `Ahead`: no entry lies
in a name that an open directory still has to look at, so every path gets one entry.
`EntriesOK` and `BudgetOK` are what `validate_snapshot` recomputes; the bytes that are being read
are counted before their entry is there. `ReadingOK` and `ListingsOK` carry the argument about
times: `now` only grows and a change sets the time of what it changes, so as long as the
time of an open file or directory is that of its opening, the buffers read so far are a
beginning of its content, and what is listed, taken or already entered is what is in it. `TruthOK` is
conditional: *if* every open directory is still what the path in front of it leads to
(`Attached`), nothing was refused and no two changes fell into one tick, every claim made so far
is true. Attachment is what makes this inductive: a change can end it and, as no other program
moves an old directory to a new place, none can restore it (`GrownAttached`), so a
claim made while detached is never used; and the comparison of names after each
directory (`BindDir`) and of the root at the end (`Finish`) is what turns "if" into "is"
(`LeaveKeeps`). That an absent path was absent follows from the first of its prefixes that has no entry:
the directory before it was listed without that name (`Absent`). The baseline is a complete scan of
its own, so what comparison says of two scans follows from their two claims (`RowsTrue`).
The sums of `validate_snapshot` are folds over finite functions, for which `SumExists` and `SumAgree`
show that they are there and do not depend on an order. TLC checks the nine parts
as invariants with the constants of the run `remote`.

Induction over numbers is used in the form of a least counterexample (`Least`, from the
well-foundedness of the strict subsets of a finite set), since the library's induction
theorem takes an operator as a parameter, which no installed prover instantiates.

Checked by TLC only, within the bounds above: the four properties of MCAlgorithms, which
compare two engines, two parsers or a computation with its definition (`Contained`, `Parity`,
`LinesRead`, `Joined`). The three modules they are of (Programs, Expressions,
Tables) use RECURSIVE operators, about which the prover cannot reason, and what they compute
would need induction over programs and texts. Liveness (`ReadLoopEnds`, `RunEnds`) rests on
ENABLED, which is out of its reach too.

## What is not modelled

- Before a run directory exists: option parsing, symbolic links, directory naming.
  These refusals write nothing.
- Formats: JSON, timestamps, canonical text, SHA-256, HTML and Markdown.
- Arithmetic, scientific functions, decoders of scientific formats, plots: floating
  point and bytes are their whole subject. Programs takes a quantity as a dimension
  and a small integer.
- Cryptography, TLS, certificates and process launching: calls of libraries. The
  generation of demonstration credentials and `e2e_encrypt`, `e2e_decrypt` of single
  messages are one library call each.
- File-system semantics below a call: `create_new`, `link` and `rename` are atomic,
  and what was written and synced survives a kill. Loss of power is not modelled.
- Deleting or editing the ledger by hand: `audit` reports it, and nothing in the code
  promises more.
- `input_secret` and program arguments beyond the name (private programs are not
  replayed); `verify_baseline` and the parent of an Orbit baseline; other programs that
  move a file or directory Orbit has seen to another name and back (both parents and, by its
  `ctime`, the moved one get new times, which the fingerprints of `orbit_scan.rs:14` hold); `ResourceGuard`,
  which nothing calls; the macOS probes, which are a machine with a shared card.
- Directives, literals and characters of the lexer; statistics of a scan; the text of
  previews and prompts.
- Editor extensions, studies and packaging scripts: they keep no state of the protocol.

## Plan

Built, in this order: EventChain and CustodyLedger with their proofs, Custody,
RunFile, Batches, LineageChain, EvidenceStore; then DataAccess, Programs, Modules,
Receipts, Network, Acquisition, AiPlan, Private, Tables, Expressions, Replay, Orbit and
Reports. What would add most next:

1. The receipt's list of inputs when one of them cannot be preserved, against
   `verify_run` (`runtime.rs:410`), and the copies of the ledger in a run directory
   (`runtime.rs:122`): RunFile with the imports of EvidenceStore.
2. `input_secret` and program arguments in Replay.
3. A refinement of a "receipt and event" specification by RunFile and Custody together.
