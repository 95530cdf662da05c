---------------------------- MODULE Acquisition -----------------------------
(***************************************************************************)
(* fetch and verify-fetch: src/src/acquisition.rs and the bundle it writes *)
(* to, acquisition/storage.rs.  One download into a new directory, byte by *)
(* byte, with a deadline, a limit and a receipt; other programs touch the  *)
(* directory at any time, any step may fail or be the last.                *)
(***************************************************************************)
EXTENDS Naturals, Sequences, FiniteSets

CONSTANTS
  Bytes,          \* values of a byte
  Digests,        \* what a payload may be expected to be
  MaxBytes,       \* MAX_BYTES
  Hosts, Special, \* hosts of a URL, those of special use
  Part, Receipt, Marker, File,   \* names: payload.part, acquisition-receipt.json, ...
  MaxTouches,     \* bound: what others do
  Torn, None

AcquisitionConstants ==
  /\ MaxBytes \in Nat \ {0} /\ MaxTouches \in Nat /\ Special \subseteq Hosts
  /\ Part \notin {Receipt, Marker, File} /\ Receipt \notin {Marker, File} /\ Marker # File
  /\ None \notin {"own", "other", "note", "ok"}

VARIABLES
  request,        \* what was asked
  pc,             \* the step of acquire, or "done"
  reply,          \* what the server answered, or None
  came,           \* history: the bytes of the body that came
  names,          \* the directory: name -> "own", "other", "note" or None
  payload,        \* the bytes of the file that is "own"
  linked,         \* the payload has another name elsewhere
  moved,          \* the directory is not the one that was made
  record,         \* what is in the receipt file: None, Torn or a receipt
  receipt,        \* the receipt in memory
  result,         \* what fetch returned: None, "ok", "error"
  touches

vars == <<request, pc, reply, came, names, payload, linked, moved, record, receipt, result, touches>>
directory == <<names, payload, linked, moved>>

NoReceipt == [status |-> "FAILED", failure |-> "", path |-> Part, sha |-> << >>, bytes |-> 0, vetted |-> FALSE,
              http |-> 0, declared |-> None, written |-> FALSE]

-----------------------------------------------------------------------------
(* FetchRequest::validate.  A request names its host twice, and either     *)
(* what the payload must be or that nothing is known of it.                *)
FilenameValid(n) == n \notin {Part, Receipt, Marker}
Validate(r) ==
  /\ r.host = r.allow /\ r.host \notin Special
  /\ r.record_only <=> r.expected = None
  /\ FilenameValid(r.filename) /\ r.max \in 1..MaxBytes

(* The answers: the addresses of the host, the connection, the status, the *)
(* headers that are refused, the length that is declared.                  *)
Good == [addresses |-> "public", reached |-> TRUE, status |-> 200, header |-> "plain", declared |-> None]
Replies == {[Good EXCEPT !.addresses = "private"], [Good EXCEPT !.reached = FALSE]}
  \union {[Good EXCEPT !.status = n] : n \in {206, 302}} \union {[Good EXCEPT !.declared = n] : n \in 0..(MaxBytes + 1)}
  \union {[Good EXCEPT !.header = h] : h \in {"plain", "content-range", "encoded", "framing", "no length"}}
Vetted(a) == a = "public"

Init ==
  /\ request \in [host : Hosts, allow : Hosts, record_only : BOOLEAN, expected : {None} \union Digests,
                  filename : {Part, Receipt, Marker, File}, max : 0..(MaxBytes + 1)]
  /\ pc = "validate" /\ came = << >>
  /\ reply = None
  /\ names = [n \in {Part, Receipt, Marker, File} |-> None] /\ payload = << >>
  /\ linked = FALSE /\ moved = FALSE /\ record = None /\ receipt = NoReceipt /\ result = None /\ touches = 0

Goto(l) == pc' = l
(* An error that leaves acquire: nothing is undone.                        *)
Abort == Goto("done") /\ result' = "error"
Still == UNCHANGED <<request, reply, touches>>

(* open_child for writing: exclusive, in the directory that was made.      *)
Create(n, what) == ~moved /\ names[n] = None /\ names' = [names EXCEPT ![n] = what]

Begin ==
  /\ pc = "validate"
  /\ \/ ~Validate(request) /\ Abort /\ UNCHANGED names
     \/ Validate(request) /\ Create(Part, "own") /\ Goto("request") /\ UNCHANGED result
  /\ Still /\ UNCHANGED <<came, payload, linked, moved, record, receipt>>

-----------------------------------------------------------------------------
(* transfer.                                                               *)
Fail(reason) == receipt' = [receipt EXCEPT !.failure = reason] /\ Goto("hash")
Refusal(r, max) ==
  CASE ~Vetted(r.addresses) -> "DESTINATION_ADDRESS_REFUSED"
    [] ~r.reached -> "HTTPS_REQUEST_FAILED"
    [] r.status \in 300..399 -> "REDIRECT_REFUSED"
    [] r.status # 200 -> "HTTP_STATUS_REFUSED"
    [] r.header = "content-range" -> "PARTIAL_RESPONSE_REFUSED"
    [] r.header = "encoded" -> "HTTP_CONTENT_ENCODING_REFUSED"
    [] r.header = "framing" -> "AMBIGUOUS_BODY_FRAMING"
    [] r.header = "no length" -> "INVALID_CONTENT_LENGTH"
    [] r.declared # None /\ r.declared > max -> "PAYLOAD_LIMIT_EXCEEDED"
    [] OTHER -> ""
Answered(r) ==
  [receipt EXCEPT !.vetted = Vetted(r.addresses), !.http = IF Vetted(r.addresses) /\ r.reached THEN r.status ELSE 0,
                  !.declared = r.declared, !.failure = Refusal(r, request.max)]
Request ==
  /\ pc = "request" /\ reply' \in Replies /\ receipt' = Answered(reply')
  /\ Goto(IF receipt'.failure = "" THEN "body" ELSE "hash")
  /\ UNCHANGED <<request, touches, came, directory, record, result>>

(* One byte more than the limit is read, and none more than the limit      *)
(* kept.  Mutant: what is over the limit is dropped.                       *)
Truncate == UNCHANGED <<receipt, pc, payload>>
Keep(b) == payload' = Append(payload, b) /\ UNCHANGED <<receipt, pc>>
Over == Fail("PAYLOAD_LIMIT_EXCEEDED") /\ UNCHANGED payload
ReadBody ==
  /\ pc = "body"
  /\ \/ \E b \in Bytes : /\ Len(came) <= request.max /\ came' = Append(came, b)
                          /\ IF Len(came) < request.max THEN Keep(b) ELSE Over
     \/ \E why \in {"TRANSFER_DEADLINE_EXCEEDED", "BODY_READ_FAILED_OR_DEADLINE", "PAYLOAD_WRITE_FAILED"} :
          Fail(why) /\ UNCHANGED <<payload, came>>
  /\ Still /\ UNCHANGED <<names, linked, moved, record, result>>

(* The end of the body; a body without a length is what came.                *)
Mismatch(declared, n) == declared # None /\ declared # n
EndBody ==
  /\ pc = "body"
  /\ IF Mismatch(reply.declared, Len(came)) THEN Fail("CONTENT_LENGTH_MISMATCH") ELSE Goto("hash") /\ UNCHANGED receipt
  /\ Still /\ UNCHANGED <<came, directory, record, result>>

-----------------------------------------------------------------------------
(* The payload is hashed from the file, not from the connection.           *)
Hashed == [receipt EXCEPT !.bytes = Len(payload), !.sha = payload,
            !.failure = IF @ = "" /\ request.expected # None /\ request.expected # payload
                          THEN "EXPECTED_SHA256_MISMATCH" ELSE @]
Hash ==
  /\ pc = "hash"
  /\ IF Len(payload) > request.max THEN Abort /\ UNCHANGED receipt
     ELSE receipt' = Hashed /\ Goto(IF receipt'.failure = "" THEN "link" ELSE "record") /\ UNCHANGED result
  /\ Still /\ UNCHANGED <<came, directory, record>>

(* publish: the payload's own name is linked, never renamed over another   *)
(* file.  Mutant: it is renamed.                                           *)
Rename == Goto("unlink") /\ names' = [names EXCEPT ![request.filename] = "own"] /\ UNCHANGED result
Link ==
  IF ~moved /\ names[request.filename] = None /\ names[Part] = "own"
    THEN Goto("unlink") /\ names' = [names EXCEPT ![request.filename] = "own"] /\ UNCHANGED result
    ELSE Abort /\ UNCHANGED names
PublishLink == pc = "link" /\ Link /\ Still /\ UNCHANGED <<came, payload, linked, moved, record, receipt>>

Links == Cardinality({n \in DOMAIN names : names[n] = "own"}) + (IF linked THEN 1 ELSE 0)
PublishUnlink ==
  /\ pc = "unlink" /\ names' = [names EXCEPT ![Part] = None]
  /\ IF moved \/ names[request.filename] # "own" \/ Links # 2 THEN Abort /\ UNCHANGED receipt
     ELSE /\ receipt' = [receipt EXCEPT !.path = request.filename,
                           !.status = IF request.expected # None THEN "HASH_VERIFIED" ELSE "OBSERVED_ONLY"]
          /\ Goto("record") /\ UNCHANGED result
  /\ Still /\ UNCHANGED <<came, payload, linked, moved, record>>

(* The receipt is created, then written, then synchronised.                *)
CreateRecord ==
  /\ pc = "record"
  /\ IF moved \/ names[Receipt] # None THEN Abort /\ UNCHANGED <<names, record>>
     ELSE names' = [names EXCEPT ![Receipt] = "note"] /\ record' = Torn /\ Goto("write") /\ UNCHANGED result
  /\ Still /\ UNCHANGED <<came, payload, linked, moved, receipt>>
WriteRecord ==
  /\ pc = "write" /\ record' = [receipt EXCEPT !.written = TRUE]
  /\ receipt' = [receipt EXCEPT !.written = TRUE] /\ Goto("verify")
  /\ Still /\ UNCHANGED <<came, directory, result>>

-----------------------------------------------------------------------------
(* verify, of the directory as it is; anchor is the digest of the receipt  *)
(* if there is one.  exact_files: the receipt, the payload, nothing else.  *)
(* Mutant: and others.                                                     *)
AtLeastFiles(path) == {Receipt, path} \subseteq {n \in DOMAIN names : names[n] # None}
ExactFiles(path) == {n \in DOMAIN names : names[n] # None} = {Receipt, path}
Consistent(r) ==
  CASE r.status = "FAILED" -> r.path = Part /\ r.failure # ""
    [] r.status = "HASH_VERIFIED" -> FilenameValid(r.path) /\ r.failure = "" /\ request.expected = r.sha /\ r.http = 200
    [] r.status = "OBSERVED_ONLY" -> FilenameValid(r.path) /\ r.failure = "" /\ request.expected = None /\ r.http = 200
Counted(r) == /\ r.bytes <= request.max
              /\ r.status # "FAILED" => r.vetted /\ ~Mismatch(r.declared, r.bytes)
Bytewise(r) == /\ names[r.path] = "own" /\ Links = 1
               /\ payload = r.sha /\ Len(payload) = r.bytes
Verify(anchor) ==
  /\ ~moved /\ names[Receipt] = "note"
  /\ record = anchor /\ Consistent(record) /\ Counted(record) /\ Bytewise(record) /\ ExactFiles(record.path)
Complete(anchor) == Verify(anchor) /\ anchor.status # "FAILED"

(* The bundle is verified before fetch returns; if that fails, a marker    *)
(* keeps it from ever verifying.                                           *)
Postflight ==
  /\ pc = "verify" /\ Goto("done")
  /\ IF ~moved /\ Verify(receipt)
       THEN result' = (IF receipt.status = "FAILED" THEN "error" ELSE "ok") /\ UNCHANGED names
       ELSE result' = "error" /\ IF moved \/ names[Marker] # None THEN UNCHANGED names
                                 ELSE names' = [names EXCEPT ![Marker] = "note"]
  /\ Still /\ UNCHANGED <<came, payload, linked, moved, record, receipt>>

(* A `?` of the file system, or the process is killed: with no result.     *)
Stop == /\ pc # "done" /\ \E r \in {None, "error"} : result' = r
        /\ Goto("done") /\ Still /\ UNCHANGED <<came, directory, record, receipt>>

(* Other programs add a file, take one away, write to the payload, give it *)
(* another name, move the directory, or undo that; or make a receipt that  *)
(* fits what the payload has become.                                       *)
Touch ==
  /\ pc # "validate" /\ touches < MaxTouches /\ touches' = touches + 1
  /\ \/ \E n \in DOMAIN names : /\ names[n] \in {None, "other"} /\ n # Receipt
          /\ names' = [names EXCEPT ![n] = IF @ = None THEN "other" ELSE None] /\ UNCHANGED <<payload, linked, moved>>
     \/ \E b \in Bytes : /\ payload # << >> /\ b # payload[1]
          /\ payload' = [payload EXCEPT ![1] = b] /\ UNCHANGED <<names, linked, moved>>
     \/ payload' = Append(payload, 0) /\ Len(payload) <= MaxBytes /\ UNCHANGED <<names, linked, moved>>
     \/ linked' = ~linked /\ UNCHANGED <<names, payload, moved>>
     \/ moved' = ~moved /\ UNCHANGED <<names, payload, linked>>
  /\ UNCHANGED <<request, pc, reply, came, record, receipt, result>>
Forge ==
  /\ pc = "done" /\ receipt.written /\ touches < MaxTouches /\ touches' = touches + 1
  /\ record' = [receipt EXCEPT !.sha = payload, !.bytes = Len(payload)]
  /\ UNCHANGED <<request, pc, reply, came, directory, receipt, result>>

Step == Begin \/ Request \/ ReadBody \/ EndBody \/ Hash \/ PublishLink \/ PublishUnlink
        \/ CreateRecord \/ WriteRecord \/ Postflight
Next == Step \/ Stop \/ Touch \/ Forge
Spec == Init /\ [][Next]_vars

-----------------------------------------------------------------------------
Untouched == touches = 0
(* A bundle that verifies as complete against its receipt's digest, at any *)
(* time and after any crash, holds the payload that was asked for: the     *)
(* whole body that was declared or came, of a permitted answer, not longer *)
(* than the limit, and what was expected if anything was.                  *)
CompleteIsWhole ==
  Complete(receipt) =>
    /\ Validate(request) /\ Vetted(reply.addresses) /\ reply.status = 200
    /\ Len(payload) <= request.max
    /\ reply.declared # None => Len(payload) = reply.declared
    /\ request.expected # None => payload = request.expected
    /\ Untouched => payload = came

(* What fetch returned: success only for a bundle that then verified, and  *)
(* still does unless it was touched; once the marker of a failed           *)
(* postflight is there it never verifies, though what failed be undone.    *)
ResultMatchesBundle ==
  /\ result = "ok" /\ Untouched => Complete(receipt)
  /\ names[Marker] = "note" => ~Complete(receipt)
  /\ result = "ok" => receipt.written /\ receipt.failure = ""

(* No file of another program in the directory is replaced, whichever      *)
(* order the two create their files in.                                    *)
NoneReplaced == \A n \in DOMAIN names : names[n] = "other" => names'[n] = "other" \/ touches' # touches
=============================================================================
