------------------------------- MODULE Batches -------------------------------
(***************************************************************************)
(* The batch readers and output streams of one program                     *)
(* (src/src/batches.rs): opening, batch_next with its deferred row,        *)
(* batch_close, stream_write and stream_close in any order, finish() at    *)
(* the end, and validate_evidence of what the receipt says of them.        *)
(*                                                                         *)
(* The first call that fails ends the program; the state it leaves is the  *)
(* evidence of a failed run.  A table is the sequence of the decoded sizes *)
(* of its rows, and a row that is larger than the batch limit or malformed *)
(* has a size above it.                                                    *)
(***************************************************************************)
EXTENDS Naturals, Sequences, SequencesExt, FiniteSetsExt

CONSTANTS
  Inputs,         \* input files
  Table,          \* the row sizes of each of them
  Names,          \* names of output streams
  RowsPerBatch, BatchLimit, FileLimit,
  MaxHandles, MaxOpenReaders, MaxOpenWriters,
  MaxWrite        \* bound on the rows of one stream_write

ASSUME BatchConstants ==
  /\ Table \in [Inputs -> Seq(Nat \ {0})]
  /\ {RowsPerBatch, BatchLimit, FileLimit} \subseteq Nat \ {0}
  /\ {MaxHandles, MaxOpenReaders, MaxOpenWriters, MaxWrite} \subseteq Nat

VARIABLES
  readers,        \* every reader opened, in order
  writers,        \* every writer opened, in order
  program         \* "running", "failed" or "PASS"

vars == <<readers, writers, program>>

(* The size of the first rows of a sequence, for any number of them.       *)
Sums(sizes) ==
  LET sum[i \in 0..Len(sizes)] == IF i = 0 THEN 0 ELSE sum[i - 1] + sizes[i]
  IN sum
Rows(r) == Table[r.source]
Sizes(r, queue) == [i \in DOMAIN queue |-> Rows(r)[queue[i]]]

NewReader(source) ==
  [source |-> source, read |-> 0, pending |-> << >>, delivered |-> << >>,
   batches |-> 0, peak |-> 0, eof |-> FALSE, failed |-> FALSE, closed |-> FALSE]
(* A record has one byte; the header is the first.                         *)
NewWriter(name) == [name |-> name, bytes |-> 1, file |-> 1, rows |-> 0, failed |-> FALSE, closed |-> FALSE]

Running == program = "running"
Handles == Len(readers) + Len(writers)
Active(r) == ~r.eof /\ ~r.closed
ActiveReaders == {h \in DOMAIN readers : Active(readers[h])}
OpenWriters == {h \in DOMAIN writers : ~writers[h].closed}

(* The rows the next batch can draw from: the deferred row, then the file. *)
Queue(r) == r.pending \o [i \in 1..(Len(Rows(r)) - r.read) |-> r.read + i]

(* How many rows of the queue the loop of next() takes.                    *)
Taken(r) ==
  LET queue == Queue(r)
      sizes == Sums(Sizes(r, queue))
  IN Cardinality({k \in 1..Min({RowsPerBatch, Len(queue)}) : sizes[k] <= BatchLimit})

(* Mutant: a row that does not fit is not kept for the next batch.         *)
DroppingBatch(r) ==
  LET queue == Queue(r)
      n == Taken(r)
      full == n = RowsPerBatch
      eof == ~full /\ n = Len(queue)
      size == Sums(Sizes(r, queue))[n]
  IN [r EXCEPT !.delivered = @ \o SubSeq(queue, 1, n), !.pending = << >>,
               !.read = IF full THEN Max({r.read, queue[n]}) ELSE IF eof THEN Len(Rows(r)) ELSE queue[n + 1],
               !.batches = IF n > 0 THEN @ + 1 ELSE @, !.peak = Max({@, size}), !.eof = eof]

(* Mutant: the end of the file is reported one batch early.                *)
EarlyEof(r) ==
  LET queue == Queue(r)
      n == Taken(r)
  IN [r EXCEPT !.delivered = @ \o SubSeq(queue, 1, n), !.pending = << >>,
               !.read = IF n = 0 THEN @ ELSE Max({@, queue[n]}),
               !.batches = IF n > 0 THEN @ + 1 ELSE @, !.eof = n < RowsPerBatch \/ r.read = Len(Rows(r)) - 1]

(* Mutant: the deferred row stays deferred and is read again.              *)
StuckBatch(r) ==
  LET queue == Queue(r)
      n == IF r.pending # << >> THEN 0 ELSE Taken(r)
      full == n = RowsPerBatch
      eof == ~full /\ n = Len(queue)
  IN [r EXCEPT !.delivered = @ \o SubSeq(queue, 1, n),
               !.pending = IF full \/ eof THEN << >> ELSE <<queue[n + 1]>>,
               !.read = IF full THEN Max({@, queue[n]}) ELSE IF eof THEN Len(Rows(r)) ELSE Max({@, queue[n + 1]}),
               !.batches = IF n > 0 THEN @ + 1 ELSE @, !.eof = eof]

(* Reader::next of an open reader: the batch ends at the row limit, at the *)
(* end of the file, or before a row that no longer fits, which is kept.    *)
NextBatch(r) ==
  LET queue == Queue(r)
      n == Taken(r)
      full == n = RowsPerBatch
      eof == ~full /\ n = Len(queue)
      size == Sums(Sizes(r, queue))[n]
  IN [r EXCEPT !.delivered = @ \o SubSeq(queue, 1, n),
               !.pending = IF full \/ eof THEN << >> ELSE <<queue[n + 1]>>,
               !.read = IF full THEN Max({@, queue[n]}) ELSE IF eof THEN Len(Rows(r)) ELSE queue[n + 1],
               !.batches = IF n > 0 THEN @ + 1 ELSE @, !.peak = Max({@, size}), !.eof = eof]

(* The loop meets a row that can never fit: the whole call fails.          *)
MeetsBadRow(r) ==
  LET queue == Queue(r)
      n == Taken(r)
  IN n < RowsPerBatch /\ n < Len(queue) /\ Rows(r)[queue[n + 1]] > BatchLimit

-----------------------------------------------------------------------------
Init == readers = << >> /\ writers = << >> /\ program = "running"

(* csv_batch_open, tsv_batch_open, fits_batch_open: an input is opened     *)
(* once per run.  A bad header leaves a failed reader.                     *)
OpenReader(source) ==
  /\ Running
  /\ Handles < MaxHandles /\ Cardinality(ActiveReaders) < MaxOpenReaders
  /\ \A h \in DOMAIN readers : readers[h].source # source
  /\ \/ readers' = Append(readers, NewReader(source)) /\ UNCHANGED program
     \/ readers' = Append(readers, [NewReader(source) EXCEPT !.failed = TRUE]) /\ program' = "failed"
  /\ UNCHANGED writers

(* batch_next.  Any error marks the reader as failed, also the error that  *)
(* it is closed already.                                                   *)
BatchNext(h) ==
  /\ Running
  /\ LET r == readers[h]
         error == r.closed \/ (~r.eof /\ MeetsBadRow(r))
     IN /\ readers' = [readers EXCEPT ![h] = IF error THEN [@ EXCEPT !.failed = TRUE]
                                             ELSE IF r.eof THEN @ ELSE NextBatch(@)]
        /\ program' = IF error THEN "failed" ELSE program
  /\ UNCHANGED writers

(* Mutant: a reader may be closed before its end.                          *)
CloseEarly(h) ==
  /\ Running /\ ~readers[h].closed
  /\ readers' = [readers EXCEPT ![h].closed = TRUE]
  /\ UNCHANGED <<writers, program>>

BatchClose(h) ==
  /\ Running /\ readers[h].eof /\ ~readers[h].closed
  /\ readers' = [readers EXCEPT ![h].closed = TRUE]
  /\ UNCHANGED <<writers, program>>

(* csv_stream_open, tsv_stream_open.  A header above the limit leaves a    *)
(* failed writer.                                                          *)
StreamOpen(name) ==
  /\ Running
  /\ Handles < MaxHandles /\ Cardinality(OpenWriters) < MaxOpenWriters
  /\ \A h \in DOMAIN writers : writers[h].name # name
  /\ \/ writers' = Append(writers, NewWriter(name)) /\ UNCHANGED program
     \/ /\ writers' = Append(writers, [NewWriter(name) EXCEPT !.bytes = 0, !.file = 0, !.failed = TRUE])
        /\ program' = "failed"
  /\ UNCHANGED readers

(* stream_write of n rows: those that fit are written even if a later one  *)
(* does not, and then the writer has failed.                               *)
StreamWrite(h, n) ==
  /\ Running /\ ~writers[h].closed
  /\ LET written == Min({n, FileLimit - writers[h].bytes})
     IN writers' = [writers EXCEPT ![h].bytes = @ + written, ![h].file = @ + written,
                                   ![h].rows = @ + written, ![h].failed = written < n]
  /\ program' = IF writers'[h].failed THEN "failed" ELSE program
  /\ UNCHANGED readers

(* The write itself fails; a piece of the record may be in the file.       *)
WriteError(h) ==
  /\ Running /\ ~writers[h].closed /\ writers[h].bytes < FileLimit
  /\ \E piece \in {0, 1} :
       writers' = [writers EXCEPT ![h].file = @ + piece, ![h].failed = TRUE]
  /\ program' = "failed"
  /\ UNCHANGED readers

StreamClose(h) ==
  /\ Running /\ ~writers[h].closed
  /\ writers' = [writers EXCEPT ![h].closed = TRUE]
  /\ UNCHANGED <<readers, program>>

(* Every other error of a call, of finish() or of the program.             *)
ProgramFails == Running /\ program' = "failed" /\ UNCHANGED <<readers, writers>>

Finish ==
  /\ Running
  /\ \A h \in DOMAIN readers : readers[h].eof /\ readers[h].closed /\ ~readers[h].failed
  /\ \A h \in DOMAIN writers : writers[h].closed /\ ~writers[h].failed
  /\ program' = "PASS"
  /\ UNCHANGED <<readers, writers>>

Next ==
  \/ \E source \in Inputs : OpenReader(source)
  \/ \E h \in DOMAIN readers : BatchNext(h) \/ BatchClose(h)
  \/ \E name \in Names : StreamOpen(name)
  \/ \E h \in DOMAIN writers : WriteError(h) \/ StreamClose(h) \/ \E n \in 1..MaxWrite : StreamWrite(h, n)
  \/ ProgramFails \/ Finish

Spec == Init /\ [][Next]_vars

(* The loop the documentation gives: batch_next until an empty batch, then *)
(* batch_close.                                                            *)
ReadOn(h) == ~readers[h].closed /\ IF readers[h].eof THEN BatchClose(h) ELSE BatchNext(h)

-----------------------------------------------------------------------------
(* Every variable stays in its domain.                                     *)
TypeOK ==
  /\ \A h \in DOMAIN readers : LET r == readers[h] IN
       /\ r.source \in Inputs /\ r.read \in 0..Len(Rows(r)) /\ Len(r.pending) <= 1
       /\ \A i \in DOMAIN r.delivered : r.delivered[i] \in 1..Len(Rows(r))
       /\ {r.eof, r.failed, r.closed} \subseteq BOOLEAN
  /\ \A h \in DOMAIN writers : writers[h].name \in Names /\ {writers[h].failed, writers[h].closed} \subseteq BOOLEAN
  /\ program \in {"running", "failed", "PASS"}

(* Batches are the rows of the table in their order, none lost, skipped or *)
(* delivered twice: what was delivered and the deferred row are exactly    *)
(* the rows read so far.                                                   *)
RowsInOrder ==
  \A h \in DOMAIN readers : LET r == readers[h] IN
    r.delivered \o r.pending = [i \in 1..r.read |-> i]

(* "PASS requires observed EOF and explicit closes": a program passes only *)
(* if every row of every input was delivered to it and every stream on     *)
(* disk is exactly what was written.                                       *)
PassIsComplete ==
  program = "PASS" =>
    /\ \A h \in DOMAIN readers : Len(readers[h].delivered) = Len(Table[readers[h].source])
    /\ \A h \in DOMAIN writers : writers[h].file = writers[h].rows + 1

(* validate_evidence of the run that ends here.                            *)
ValidEvidence ==
  LET passed == program = "PASS"
  IN /\ Handles <= MaxHandles
     /\ \A h \in DOMAIN readers : LET r == readers[h] IN
          /\ r.peak <= BatchLimit
          /\ r.batches <= Len(r.delivered) /\ Len(r.delivered) <= r.batches * RowsPerBatch
          /\ r.closed => r.eof /\ ~r.failed
          /\ passed => r.closed /\ r.eof /\ ~r.failed
     /\ \A h \in DOMAIN writers : LET w == writers[h] IN
          /\ w.bytes <= FileLimit /\ w.rows <= w.bytes
          /\ w.bytes <= w.file /\ w.file <= FileLimit
          /\ passed => w.closed /\ ~w.failed /\ w.file = w.bytes

(* Failed runs are verifiable too: whatever a program did before it        *)
(* stopped, its receipt passes validate_evidence.                          *)
EvidenceAlwaysValid == program # "running" => ValidEvidence

(* The same, unless the program read on a reader it had closed.            *)
EvidenceValid ==
  program # "running" /\ (\A h \in DOMAIN readers : ~(readers[h].closed /\ readers[h].failed)) => ValidEvidence

(* "Empty array means observed EOF": every batch before it has a row, so   *)
(* the documented read loop ends: again and again every reader that was    *)
(* opened is closed, or the program is over.                               *)
ReadLoopEnds == []<>(program # "running" \/ \A h \in DOMAIN readers : readers[h].closed)
=============================================================================
