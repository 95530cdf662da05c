--------------------------- MODULE MCRemoteProofs ---------------------------
(* What the four parts of MCRemote keep, for every value of the constants. *)
(* Each part has an inductive invariant that holds while the part runs:    *)
(*   - of a download, that the receipt in memory tells the truth about the *)
(*     request and the answer, and what is on disk at each line of acquire *)
(*     (FetchInv, DownloadsAreWhole);                                      *)
(*   - of routing, that no source in use says GO_PRIVATE and that a still  *)
(*     program is routed as its sources say (RouteInv,                     *)
(*     PrivateSourcesNotKept);                                             *)
(*   - of the operations on files, that every stored block comes from one  *)
(*     encryption and says what that encryption read there (CryptoInv,     *)
(*     EncryptionsAreWhole);                                               *)
(*   - of the bundles of a check, that an unedited one is of the one check *)
(*     that made the directory, as far as that check has come (BundleInv,  *)
(*     BundlesVerifyWhole).                                                *)
(* OthersAreKept follows from the first and the third by the guards of the *)
(* steps that publish.                                                     *)
EXTENDS MCRemote, FiniteSetTheorems, TLAPS

-----------------------------------------------------------------------------
(* A download.                                                             *)
FourNames == {Part, Receipt, Marker, File}
Failures ==
  {"", "DESTINATION_ADDRESS_REFUSED", "HTTPS_REQUEST_FAILED", "REDIRECT_REFUSED", "HTTP_STATUS_REFUSED",
   "PARTIAL_RESPONSE_REFUSED", "HTTP_CONTENT_ENCODING_REFUSED", "AMBIGUOUS_BODY_FRAMING", "INVALID_CONTENT_LENGTH",
   "PAYLOAD_LIMIT_EXCEEDED", "TRANSFER_DEADLINE_EXCEEDED", "BODY_READ_FAILED_OR_DEADLINE", "PAYLOAD_WRITE_FAILED",
   "CONTENT_LENGTH_MISMATCH", "EXPECTED_SHA256_MISMATCH"}
FetchReceipts ==
  [status : {"FAILED", "HASH_VERIFIED", "OBSERVED_ONLY"}, failure : Failures, path : FourNames,
   sha : Seq(Bytes \union {0}), bytes : Nat, vetted : BOOLEAN, http : Nat,
   declared : Nat \union {None}, written : BOOLEAN]
FetchTypes ==
  /\ receipt \in FetchReceipts
  /\ names \in [FourNames -> {None, "own", "other", "note"}]
  /\ payload \in Seq(Bytes \union {0}) /\ came \in Seq(Bytes \union {0})
  /\ request.filename \in FourNames /\ touches \in Nat

(* What the receipt in memory says of the request and of the answer.       *)
ReceiptTrue ==
  /\ pc \in {"validate", "request"} => receipt.failure = ""
  /\ receipt.status # "FAILED" => A!Validate(request)
  /\ receipt.vetted => A!Vetted(reply.addresses)
  /\ receipt.http = 200 => reply.status = 200 /\ receipt.declared = reply.declared
  /\ touches = 0 /\ receipt.failure = "" => payload = came

(* Where acquire is, and what it has established by then.                  *)
FetchControl ==
  /\ pc \in {"validate", "request", "body", "hash", "link", "unlink", "record", "write", "verify", "done"}
  /\ pc \notin {"validate", "done"} => A!Validate(request)
  /\ pc \in {"request", "body", "hash", "link", "unlink"} => names[Part] = "own"
  /\ pc = "verify" => receipt.written
  /\ result = "ok" => /\ pc = "done" /\ receipt.written /\ receipt.failure = ""
                      /\ touches = 0 => A!Complete(receipt)
FetchInv == FetchTypes /\ ReceiptTrue /\ FetchControl

LEMMA NoReceiptTyped == A!NoReceipt \in FetchReceipts
BY DEF A!NoReceipt, FetchReceipts, Failures, FourNames
LEMMA NoReceiptFails == A!NoReceipt.status = "FAILED" /\ A!NoReceipt.failure = "" /\ A!NoReceipt.http # 200
BY DEF A!NoReceipt
LEMMA NoReceiptVetted == ~A!NoReceipt.vetted
BY DEF A!NoReceipt

LEMMA FetchInit == A!Init => FetchInv
<1> SUFFICES ASSUME A!Init PROVE FetchInv
  OBVIOUS
<1>1. /\ receipt = A!NoReceipt /\ names = [n \in FourNames |-> None] /\ payload = << >> /\ came = << >>
      /\ request.filename \in FourNames /\ touches = 0 /\ pc = "validate" /\ result = None
  BY DEF A!Init, FourNames
<1>2. FetchTypes
  BY <1>1, NoReceiptTyped DEF FetchTypes
<1>3. ReceiptTrue
  BY <1>1, NoReceiptFails, NoReceiptVetted DEF ReceiptTrue
<1>4. FetchControl
  BY <1>1, FetchConstants DEF A!AcquisitionConstants, FetchControl
<1> QED
  BY <1>2, <1>3, <1>4 DEF FetchInv

LEMMA RefusalIs == ASSUME NEW r, NEW max PROVE A!Refusal(r, max) \in Failures
BY DEF A!Refusal, Failures

LEMMA RepliesTyped == ASSUME NEW r \in A!Replies PROVE r.status \in Nat /\ r.declared \in Nat \union {None}
<1> DEFINE F == {"addresses", "reached", "status", "header", "declared"}
<1>1. /\ DOMAIN A!Good = F /\ A!Good.status = 200 /\ A!Good.declared = None
  BY DEF A!Good
<1>2. CASE r \in {[A!Good EXCEPT !.addresses = "private"], [A!Good EXCEPT !.reached = FALSE]}
  BY <1>1, <1>2
<1>3. CASE r \in {[A!Good EXCEPT !.status = n] : n \in {206, 302}}
  BY <1>1, <1>3
<1>4. CASE r \in {[A!Good EXCEPT !.declared = n] : n \in 0..(MaxBytes + 1)}
  BY <1>1, <1>4, FetchConstants DEF A!AcquisitionConstants
<1>5. CASE r \in {[A!Good EXCEPT !.header = h] : h \in {"plain", "content-range", "encoded", "framing", "no length"}}
  <2>1. PICK h : r = [A!Good EXCEPT !.header = h]
    BY <1>5
  <2> QED
    BY <1>1, <2>1
<1> QED
  BY <1>2, <1>3, <1>4, <1>5 DEF A!Replies

LEMMA AnsweredIs ==
  ASSUME receipt \in FetchReceipts, NEW r, r.status \in Nat, r.declared \in Nat \union {None}
  PROVE  /\ A!Answered(r) \in FetchReceipts
         /\ A!Answered(r).status = receipt.status /\ A!Answered(r).written = receipt.written
         /\ A!Answered(r).vetted => A!Vetted(r.addresses)
         /\ A!Answered(r).declared = r.declared
         /\ A!Answered(r).http = 200 => r.status = 200
<1>1. A!Answered(r) \in FetchReceipts
  BY RefusalIs DEF A!Answered, FetchReceipts, A!Vetted
<1>2. A!Answered(r).status = receipt.status
  BY DEF A!Answered, FetchReceipts
<1>3. A!Answered(r).written = receipt.written
  BY DEF A!Answered, FetchReceipts
<1>4. A!Answered(r).vetted => A!Vetted(r.addresses)
  BY DEF A!Answered, FetchReceipts
<1>5. A!Answered(r).declared = r.declared
  BY DEF A!Answered, FetchReceipts
<1>6. A!Answered(r).http = 200 => r.status = 200
  BY DEF A!Answered, FetchReceipts
<1> QED
  BY <1>1, <1>2, <1>3, <1>4, <1>5, <1>6

LEMMA SameRequest == request' = request => (A!Validate(request)' <=> A!Validate(request))
BY DEF A!Validate, A!FilenameValid

LEMMA BeginKeeps == FetchInv /\ A!Begin => FetchInv'
<1> SUFFICES ASSUME FetchInv, A!Begin PROVE FetchInv'
  OBVIOUS
<1>1. /\ pc = "validate" /\ UNCHANGED <<request, reply, touches, came, payload, linked, moved, record, receipt>>
      /\ \/ pc' = "done" /\ result' = "error" /\ UNCHANGED names
         \/ /\ A!Validate(request) /\ names[Part] = None /\ names' = [names EXCEPT ![Part] = "own"]
            /\ pc' = "request" /\ UNCHANGED result
  BY DEF A!Begin, A!Abort, A!Goto, A!Create, A!Still
<1>2. FetchTypes'
  BY <1>1 DEF FetchInv, FetchTypes
<1>3. ReceiptTrue'
  BY <1>1, SameRequest DEF FetchInv, ReceiptTrue, FetchControl, A!Vetted
<1>4. FetchControl'
  BY <1>1, SameRequest DEF FetchInv, FetchTypes, FetchControl, FourNames
<1> QED
  BY <1>2, <1>3, <1>4 DEF FetchInv

LEMMA RequestKeeps == FetchInv /\ A!Request => FetchInv'
<1> SUFFICES ASSUME FetchInv, A!Request PROVE FetchInv'
  OBVIOUS
<1>1. /\ pc = "request" /\ reply' \in A!Replies /\ receipt' = A!Answered(reply')
      /\ pc' = IF receipt'.failure = "" THEN "body" ELSE "hash"
      /\ UNCHANGED <<request, touches, came, names, payload, linked, moved, record, result>>
  BY DEF A!Request, A!Goto, A!directory
<1>2. reply'.status \in Nat /\ reply'.declared \in Nat \union {None}
  BY <1>1, RepliesTyped
<1>3. /\ receipt' \in FetchReceipts /\ receipt'.status = receipt.status /\ receipt'.written = receipt.written
      /\ receipt'.vetted => A!Vetted(reply'.addresses)
      /\ receipt'.declared = reply'.declared
      /\ receipt'.http = 200 => reply'.status = 200
  BY <1>1, <1>2, AnsweredIs DEF FetchInv, FetchTypes
<1>4. A!Validate(request)' <=> A!Validate(request)
  BY <1>1 DEF A!Validate, A!FilenameValid
<1>5. FetchTypes'
  BY <1>1, <1>3 DEF FetchInv, FetchTypes
<1>6. ReceiptTrue'
  BY <1>1, <1>3, <1>4 DEF FetchInv, ReceiptTrue, A!Vetted
<1>7. FetchControl'
  BY <1>1, <1>3, <1>4 DEF FetchInv, FetchControl
<1> QED
  BY <1>5, <1>6, <1>7 DEF FetchInv

(* What a step that fails, or that ends the transfer, makes of the receipt.*)
LEMMA ReceiptEdited ==
  ASSUME receipt \in FetchReceipts, NEW why \in Failures \ {""}
  PROVE  LET r == [receipt EXCEPT !.failure = why]
         IN /\ r \in FetchReceipts /\ r.failure # "" /\ r.status = receipt.status /\ r.written = receipt.written
            /\ r.vetted = receipt.vetted /\ r.http = receipt.http /\ r.declared = receipt.declared
<1> DEFINE r == [receipt EXCEPT !.failure = why]
<1>1. r \in FetchReceipts
  BY DEF FetchReceipts
<1>2. r.failure = why /\ r.status = receipt.status
  BY DEF FetchReceipts
<1>3. r.written = receipt.written /\ r.vetted = receipt.vetted
  BY DEF FetchReceipts
<1>4. r.http = receipt.http /\ r.declared = receipt.declared
  BY DEF FetchReceipts
<1> QED
  BY <1>1, <1>2, <1>3, <1>4

LEMMA FailKeeps ==
  ASSUME FetchInv, pc = "body", NEW why \in Failures \ {""}, receipt' = [receipt EXCEPT !.failure = why], pc' = "hash",
         UNCHANGED <<request, reply, touches, names, linked, moved, record, result>>,
         payload' \in Seq(Bytes \union {0}), came' \in Seq(Bytes \union {0})
  PROVE  FetchInv'
<1>1. /\ receipt' \in FetchReceipts /\ receipt'.failure # "" /\ receipt'.status = receipt.status
      /\ receipt'.written = receipt.written /\ receipt'.vetted = receipt.vetted /\ receipt'.http = receipt.http
      /\ receipt'.declared = receipt.declared
  BY ReceiptEdited DEF FetchInv, FetchTypes
<1>2. FetchTypes'
  BY <1>1 DEF FetchInv, FetchTypes
<1>3. ReceiptTrue'
  BY <1>1, SameRequest DEF FetchInv, ReceiptTrue, A!Vetted
<1>4. FetchControl'
  BY <1>1, SameRequest DEF FetchInv, FetchControl
<1> QED
  BY <1>2, <1>3, <1>4 DEF FetchInv

LEMMA ReadBodyKeeps == FetchInv /\ A!ReadBody => FetchInv'
<1> SUFFICES ASSUME FetchInv, A!ReadBody PROVE FetchInv'
  OBVIOUS
<1>1. pc = "body" /\ UNCHANGED <<request, reply, touches, names, linked, moved, record, result>>
  BY DEF A!ReadBody, A!Still
<1>2. ASSUME NEW b \in Bytes, came' = Append(came, b), A!Keep(b) PROVE FetchInv'
  <2>1. payload' = Append(payload, b) /\ UNCHANGED <<receipt, pc>>
    BY <1>2 DEF A!Keep
  <2>2. FetchTypes'
    BY <1>1, <1>2, <2>1 DEF FetchInv, FetchTypes
  <2>3. ReceiptTrue'
    BY <1>1, <1>2, <2>1, SameRequest DEF FetchInv, ReceiptTrue, A!Vetted
  <2>4. FetchControl'
    BY <1>1, <1>2, <2>1, SameRequest DEF FetchInv, FetchControl
  <2> QED
    BY <2>2, <2>3, <2>4 DEF FetchInv
<1>3. ASSUME NEW b \in Bytes, came' = Append(came, b), A!Over PROVE FetchInv'
  <2>1. "PAYLOAD_LIMIT_EXCEEDED" \in Failures \ {""}
    BY DEF Failures
  <2>2. payload' \in Seq(Bytes \union {0}) /\ came' \in Seq(Bytes \union {0})
    BY <1>3 DEF FetchInv, FetchTypes, A!Over
  <2>3. receipt' = [receipt EXCEPT !.failure = "PAYLOAD_LIMIT_EXCEEDED"] /\ pc' = "hash"
    BY <1>3 DEF A!Over, A!Fail, A!Goto
  <2> QED
    BY <1>1, <2>1, <2>2, <2>3, FailKeeps
<1>4. ASSUME NEW why \in {"TRANSFER_DEADLINE_EXCEEDED", "BODY_READ_FAILED_OR_DEADLINE", "PAYLOAD_WRITE_FAILED"},
             A!Fail(why), UNCHANGED <<payload, came>>
      PROVE  FetchInv'
  <2>1. why \in Failures \ {""}
    BY <1>4 DEF Failures
  <2> QED
    BY <1>1, <1>4, <2>1, FailKeeps DEF FetchInv, FetchTypes, A!Fail, A!Goto
<1> QED
  BY <1>2, <1>3, <1>4 DEF A!ReadBody

LEMMA EndBodyKeeps == FetchInv /\ A!EndBody => FetchInv'
<1> SUFFICES ASSUME FetchInv, A!EndBody PROVE FetchInv'
  OBVIOUS
<1>1. pc = "body" /\ UNCHANGED <<request, reply, touches, came, names, payload, linked, moved, record, result>>
  BY DEF A!EndBody, A!Still, A!directory
<1>2. CASE A!Fail("CONTENT_LENGTH_MISMATCH")
  <2>1. "CONTENT_LENGTH_MISMATCH" \in Failures \ {""}
    BY DEF Failures
  <2> QED
    BY <1>1, <1>2, <2>1, FailKeeps DEF FetchInv, FetchTypes, A!Fail, A!Goto
<1>3. CASE pc' = "hash" /\ UNCHANGED receipt
  <2>1. FetchTypes'
    BY <1>1, <1>3 DEF FetchInv, FetchTypes
  <2>2. ReceiptTrue'
    BY <1>1, <1>3, SameRequest DEF FetchInv, ReceiptTrue, A!Vetted
  <2>3. FetchControl'
    BY <1>1, <1>3, SameRequest DEF FetchInv, FetchControl
  <2> QED
    BY <2>1, <2>2, <2>3 DEF FetchInv
<1> QED
  BY <1>2, <1>3 DEF A!EndBody, A!Goto

(* A step that leaves acquire with an error.                               *)
LEMMA AbortKeeps ==
  ASSUME FetchInv, pc # "done", pc' = "done", result' # "ok", names' \in [FourNames -> {None, "own", "other", "note"}],
         UNCHANGED <<request, reply, touches, came, payload, receipt>>
  PROVE  FetchInv'
<1>1. FetchTypes'
  BY DEF FetchInv, FetchTypes
<1>2. ReceiptTrue'
  BY SameRequest DEF FetchInv, ReceiptTrue, A!Vetted
<1>3. FetchControl'
  BY SameRequest DEF FetchInv, FetchControl
<1> QED
  BY <1>1, <1>2, <1>3 DEF FetchInv

(* What the hash, the end of the publication and the writing make of it.   *)
LEMMA HashedIs ==
  ASSUME FetchTypes
  PROVE  /\ A!Hashed \in FetchReceipts /\ A!Hashed.status = receipt.status /\ A!Hashed.written = receipt.written
         /\ A!Hashed.vetted = receipt.vetted /\ A!Hashed.http = receipt.http /\ A!Hashed.declared = receipt.declared
         /\ A!Hashed.failure = "" => receipt.failure = ""
<1> DEFINE why == IF receipt.failure = "" /\ request.expected # None /\ request.expected # payload
                    THEN "EXPECTED_SHA256_MISMATCH" ELSE receipt.failure
<1>1. receipt \in FetchReceipts /\ payload \in Seq(Bytes \union {0}) /\ Len(payload) \in Nat
  BY DEF FetchTypes
<1>2. why \in Failures /\ (why = "" => receipt.failure = "")
  BY <1>1 DEF FetchReceipts, Failures
<1>3. A!Hashed = [receipt EXCEPT !.bytes = Len(payload), !.sha = payload, !.failure = why]
  BY <1>1 DEF A!Hashed, FetchReceipts
<1> HIDE DEF why
<1>4. A!Hashed \in FetchReceipts
  BY <1>1, <1>2, <1>3 DEF FetchReceipts
<1>5. A!Hashed.status = receipt.status /\ A!Hashed.failure = why
  BY <1>1, <1>3 DEF FetchReceipts
<1>6. A!Hashed.written = receipt.written /\ A!Hashed.vetted = receipt.vetted
  BY <1>1, <1>3 DEF FetchReceipts
<1>7. A!Hashed.http = receipt.http /\ A!Hashed.declared = receipt.declared
  BY <1>1, <1>3 DEF FetchReceipts
<1> QED
  BY <1>2, <1>4, <1>5, <1>6, <1>7

LEMMA HashKeeps == FetchInv /\ A!Hash => FetchInv'
<1> SUFFICES ASSUME FetchInv, A!Hash PROVE FetchInv'
  OBVIOUS
<1>1. pc = "hash" /\ UNCHANGED <<request, reply, touches, came, names, payload, linked, moved, record>>
  BY DEF A!Hash, A!Still, A!directory
<1>2. CASE pc' = "done" /\ result' = "error" /\ UNCHANGED receipt
  BY <1>1, <1>2, AbortKeeps DEF FetchInv, FetchTypes
<1>3. CASE receipt' = A!Hashed /\ pc' \in {"link", "record"} /\ UNCHANGED result
  <2>1. /\ receipt' \in FetchReceipts /\ receipt'.status = receipt.status /\ receipt'.written = receipt.written
        /\ receipt'.vetted = receipt.vetted /\ receipt'.http = receipt.http /\ receipt'.declared = receipt.declared
        /\ receipt'.failure = "" => receipt.failure = ""
    BY <1>3, HashedIs DEF FetchInv
  <2>2. FetchTypes'
    BY <1>1, <2>1 DEF FetchInv, FetchTypes
  <2>3. ReceiptTrue'
    BY <1>1, <1>3, <2>1, SameRequest DEF FetchInv, ReceiptTrue, A!Vetted
  <2>4. FetchControl'
    BY <1>1, <1>3, <2>1, SameRequest DEF FetchInv, FetchControl
  <2> QED
    BY <2>2, <2>3, <2>4 DEF FetchInv
<1> QED
  BY <1>2, <1>3 DEF A!Hash, A!Abort, A!Goto

LEMMA PublishLinkKeeps == FetchInv /\ A!PublishLink => FetchInv'
<1> SUFFICES ASSUME FetchInv, A!PublishLink PROVE FetchInv'
  OBVIOUS
<1>1. pc = "link" /\ UNCHANGED <<request, reply, touches, came, payload, linked, moved, record, receipt>>
  BY DEF A!PublishLink, A!Still
<1>2. CASE pc' = "done" /\ result' = "error" /\ UNCHANGED names
  BY <1>1, <1>2, AbortKeeps DEF FetchInv, FetchTypes
<1>3. CASE pc' = "unlink" /\ names' = [names EXCEPT ![request.filename] = "own"] /\ UNCHANGED result
  <2>1. FetchTypes'
    BY <1>1, <1>3 DEF FetchInv, FetchTypes
  <2>2. ReceiptTrue'
    BY <1>1, <1>3, SameRequest DEF FetchInv, ReceiptTrue, A!Vetted
  <2>3. FetchControl'
    BY <1>1, <1>3, SameRequest DEF FetchInv, FetchTypes, FetchControl, FourNames
  <2> QED
    BY <2>1, <2>2, <2>3 DEF FetchInv
<1> QED
  BY <1>2, <1>3 DEF A!PublishLink, A!Link, A!Abort, A!Goto

LEMMA PublishedIs ==
  ASSUME FetchTypes, NEW status \in {"HASH_VERIFIED", "OBSERVED_ONLY"}
  PROVE  LET r == [receipt EXCEPT !.path = request.filename, !.status = status]
         IN /\ r \in FetchReceipts /\ r.written = receipt.written /\ r.failure = receipt.failure
            /\ r.vetted = receipt.vetted /\ r.http = receipt.http /\ r.declared = receipt.declared
<1> DEFINE r == [receipt EXCEPT !.path = request.filename, !.status = status]
<1>1. r \in FetchReceipts
  BY DEF FetchTypes, FetchReceipts
<1>2. r.failure = receipt.failure
  BY DEF FetchTypes, FetchReceipts
<1>3. r.written = receipt.written /\ r.vetted = receipt.vetted
  BY DEF FetchTypes, FetchReceipts
<1>4. r.http = receipt.http /\ r.declared = receipt.declared
  BY DEF FetchTypes, FetchReceipts
<1> QED
  BY <1>1, <1>2, <1>3, <1>4

LEMMA PublishUnlinkKeeps == FetchInv /\ A!PublishUnlink => FetchInv'
<1> SUFFICES ASSUME FetchInv, A!PublishUnlink PROVE FetchInv'
  OBVIOUS
<1>1. /\ pc = "unlink" /\ names' = [names EXCEPT ![Part] = None]
      /\ UNCHANGED <<request, reply, touches, came, payload, linked, moved, record>>
  BY DEF A!PublishUnlink, A!Still
<1>2. names' \in [FourNames -> {None, "own", "other", "note"}]
  BY <1>1 DEF FetchInv, FetchTypes
<1>3. CASE pc' = "done" /\ result' = "error" /\ UNCHANGED receipt
  BY <1>1, <1>2, <1>3, AbortKeeps
<1>4. ASSUME NEW status \in {"HASH_VERIFIED", "OBSERVED_ONLY"}, pc' = "record", UNCHANGED result,
             receipt' = [receipt EXCEPT !.path = request.filename, !.status = status]
      PROVE  FetchInv'
  <2>1. /\ receipt' \in FetchReceipts /\ receipt'.written = receipt.written /\ receipt'.failure = receipt.failure
        /\ receipt'.vetted = receipt.vetted /\ receipt'.http = receipt.http /\ receipt'.declared = receipt.declared
    BY <1>4, PublishedIs DEF FetchInv
  <2>2. FetchTypes'
    BY <1>1, <1>2, <2>1 DEF FetchInv, FetchTypes
  <2>3. ReceiptTrue'
    BY <1>1, <1>4, <2>1, SameRequest DEF FetchInv, ReceiptTrue, FetchControl, A!Vetted
  <2>4. FetchControl'
    BY <1>1, <1>4, <2>1, SameRequest DEF FetchInv, FetchControl
  <2> QED
    BY <2>2, <2>3, <2>4 DEF FetchInv
<1> QED
  BY <1>3, <1>4 DEF A!PublishUnlink, A!Abort, A!Goto

LEMMA CreateRecordKeeps == FetchInv /\ A!CreateRecord => FetchInv'
<1> SUFFICES ASSUME FetchInv, A!CreateRecord PROVE FetchInv'
  OBVIOUS
<1>1. pc = "record" /\ UNCHANGED <<request, reply, touches, came, payload, linked, moved, receipt>>
  BY DEF A!CreateRecord, A!Still
<1>2. CASE pc' = "done" /\ result' = "error" /\ UNCHANGED names
  BY <1>1, <1>2, AbortKeeps DEF FetchInv, FetchTypes
<1>3. CASE names' = [names EXCEPT ![Receipt] = "note"] /\ pc' = "write" /\ UNCHANGED result
  <2>1. FetchTypes'
    BY <1>1, <1>3 DEF FetchInv, FetchTypes
  <2>2. ReceiptTrue'
    BY <1>1, <1>3, SameRequest DEF FetchInv, ReceiptTrue, A!Vetted
  <2>3. FetchControl'
    BY <1>1, <1>3, SameRequest DEF FetchInv, FetchControl
  <2> QED
    BY <2>1, <2>2, <2>3 DEF FetchInv
<1> QED
  BY <1>2, <1>3 DEF A!CreateRecord, A!Abort, A!Goto

LEMMA WriteRecordKeeps == FetchInv /\ A!WriteRecord => FetchInv'
<1> SUFFICES ASSUME FetchInv, A!WriteRecord PROVE FetchInv'
  OBVIOUS
<1>1. /\ pc = "write" /\ pc' = "verify" /\ receipt' = [receipt EXCEPT !.written = TRUE]
      /\ UNCHANGED <<request, reply, touches, came, names, payload, linked, moved, result>>
  BY DEF A!WriteRecord, A!Still, A!Goto, A!directory
<1>2. receipt \in FetchReceipts
  BY DEF FetchInv, FetchTypes
<1>3. receipt' \in FetchReceipts /\ receipt'.written
  BY <1>1, <1>2 DEF FetchReceipts
<1>4. receipt'.failure = receipt.failure /\ receipt'.status = receipt.status
  BY <1>1, <1>2 DEF FetchReceipts
<1>5. receipt'.vetted = receipt.vetted
  BY <1>1, <1>2 DEF FetchReceipts
<1>6. receipt'.http = receipt.http /\ receipt'.declared = receipt.declared
  BY <1>1, <1>2 DEF FetchReceipts
<1>7. FetchTypes'
  BY <1>1, <1>3 DEF FetchInv, FetchTypes
<1>8. ReceiptTrue'
  BY <1>1, <1>4, <1>5, <1>6, SameRequest DEF FetchInv, ReceiptTrue, A!Vetted
<1>9. FetchControl'
  BY <1>1, <1>3, SameRequest DEF FetchInv, FetchControl
<1> QED
  BY <1>7, <1>8, <1>9 DEF FetchInv

LEMMA SameComplete ==
  ASSUME UNCHANGED <<request, names, payload, linked, moved, record, receipt>>
  PROVE  A!Complete(receipt)' <=> A!Complete(receipt)
BY DEF A!Complete, A!Verify, A!Consistent, A!Counted, A!Bytewise, A!ExactFiles, A!Links, A!Mismatch, A!FilenameValid

LEMMA CompleteSays ==
  ASSUME FetchTypes, A!Complete(receipt)
  PROVE  /\ receipt.status \in {"HASH_VERIFIED", "OBSERVED_ONLY"} /\ A!FilenameValid(receipt.path)
         /\ receipt.failure = "" /\ receipt.http = 200 /\ receipt.vetted
         /\ request.expected = IF receipt.status = "HASH_VERIFIED" THEN receipt.sha ELSE None
         /\ receipt.bytes <= request.max /\ ~A!Mismatch(receipt.declared, receipt.bytes)
         /\ payload = receipt.sha /\ Len(payload) = receipt.bytes
         /\ A!ExactFiles(receipt.path)
<1>1. record = receipt /\ receipt.status # "FAILED" /\ A!Consistent(receipt) /\ A!Counted(receipt) /\ A!Bytewise(receipt)
      /\ A!ExactFiles(receipt.path)
  BY DEF A!Complete, A!Verify
<1>2. receipt.status \in {"HASH_VERIFIED", "OBSERVED_ONLY"}
  BY <1>1 DEF FetchTypes, FetchReceipts
<1>3. CASE receipt.status = "HASH_VERIFIED"
  BY <1>1, <1>3 DEF A!Consistent, A!Counted, A!Bytewise
<1>4. CASE receipt.status = "OBSERVED_ONLY"
  BY <1>1, <1>4 DEF A!Consistent, A!Counted, A!Bytewise
<1> QED
  BY <1>2, <1>3, <1>4

LEMMA PostflightKeeps == FetchInv /\ A!Postflight => FetchInv'
<1> SUFFICES ASSUME FetchInv, A!Postflight PROVE FetchInv'
  OBVIOUS
<1>1. pc = "verify" /\ pc' = "done" /\ UNCHANGED <<request, reply, touches, came, payload, linked, moved, record, receipt>>
  BY DEF A!Postflight, A!Still, A!Goto
<1>2. names' \in [FourNames -> {None, "own", "other", "note"}]
  BY DEF A!Postflight, FetchInv, FetchTypes
<1>3. CASE result' # "ok"
  BY <1>1, <1>2, <1>3, AbortKeeps
<1>4. CASE result' = "ok"
  <2>1. A!Complete(receipt) /\ UNCHANGED names
    BY <1>4 DEF A!Postflight, A!Complete
  <2>2. A!Complete(receipt)'
    BY <1>1, <2>1, SameComplete
  <2>3. receipt.failure = ""
    BY <2>1, CompleteSays DEF FetchInv
  <2>4. FetchTypes'
    BY <1>1, <2>1 DEF FetchInv, FetchTypes
  <2>5. ReceiptTrue'
    BY <1>1, SameRequest DEF FetchInv, ReceiptTrue, A!Vetted
  <2>6. FetchControl'
    BY <1>1, <2>2, <2>3 DEF FetchInv, FetchControl
  <2> QED
    BY <2>4, <2>5, <2>6 DEF FetchInv
<1> QED
  BY <1>3, <1>4

LEMMA StopKeeps == FetchInv /\ A!Stop => FetchInv'
BY AbortKeeps, FetchConstants DEF A!AcquisitionConstants, A!Stop, A!Goto, A!Still, A!directory, FetchInv, FetchTypes

LEMMA TouchKeeps == FetchInv /\ A!Touch => FetchInv'
<1> SUFFICES ASSUME FetchInv, A!Touch PROVE FetchInv'
  OBVIOUS
<1>1. pc # "validate" /\ touches' = touches + 1 /\ UNCHANGED <<request, pc, reply, came, record, receipt, result>>
  BY DEF A!Touch
<1>2. payload' \in Seq(Bytes \union {0})
  <2>1. CASE payload' = payload
    BY <2>1 DEF FetchInv, FetchTypes
  <2>2. CASE \E b \in Bytes : payload # << >> /\ payload' = [payload EXCEPT ![1] = b]
    BY <2>2 DEF FetchInv, FetchTypes
  <2>3. CASE payload' = Append(payload, 0)
    BY <2>3 DEF FetchInv, FetchTypes
  <2> QED
    BY <2>1, <2>2, <2>3 DEF A!Touch
<1>3. /\ names' \in [FourNames -> {None, "own", "other", "note"}]
      /\ names[Part] = "own" => names'[Part] = "own"
  <2>1. CASE names' = names
    BY <2>1 DEF FetchInv, FetchTypes
  <2>2. CASE \E n \in DOMAIN names : names[n] \in {None, "other"} /\ names' = [names EXCEPT ![n] = IF @ = None THEN "other" ELSE None]
    BY <2>2, FetchConstants DEF A!AcquisitionConstants, FetchInv, FetchTypes, FourNames
  <2> QED
    BY <2>1, <2>2 DEF A!Touch
<1>4. touches' \in Nat /\ touches' # 0
  BY <1>1 DEF FetchInv, FetchTypes
<1>5. FetchTypes'
  BY <1>1, <1>2, <1>3, <1>4 DEF FetchInv, FetchTypes
<1>6. ReceiptTrue'
  BY <1>1, <1>4, SameRequest DEF FetchInv, ReceiptTrue, A!Vetted
<1>7. FetchControl'
  BY <1>1, <1>3, <1>4, SameRequest DEF FetchInv, FetchControl
<1> QED
  BY <1>5, <1>6, <1>7 DEF FetchInv

LEMMA ForgeKeeps == FetchInv /\ A!Forge => FetchInv'
<1> SUFFICES ASSUME FetchInv, A!Forge PROVE FetchInv'
  OBVIOUS
<1>1. /\ touches' = touches + 1 /\ pc = "done"
      /\ UNCHANGED <<request, pc, reply, came, names, payload, linked, moved, receipt, result>>
  BY DEF A!Forge, A!directory
<1>2. touches' \in Nat /\ touches' # 0
  BY <1>1 DEF FetchInv, FetchTypes
<1>3. FetchTypes'
  BY <1>1, <1>2 DEF FetchInv, FetchTypes
<1>4. ReceiptTrue'
  BY <1>1, <1>2, SameRequest DEF FetchInv, ReceiptTrue, A!Vetted
<1>5. FetchControl'
  BY <1>1, <1>2, SameRequest DEF FetchInv, FetchControl
<1> QED
  BY <1>3, <1>4, <1>5 DEF FetchInv

LEMMA FetchStep == FetchInv /\ [A!Next]_fetch => FetchInv'
<1> SUFFICES ASSUME FetchInv, [A!Next]_fetch PROVE FetchInv'
  OBVIOUS
<1>1. CASE UNCHANGED fetch
  <2>1. FetchTypes'
    BY <1>1 DEF fetch, FetchInv, FetchTypes
  <2>2. ReceiptTrue'
    BY <1>1, SameRequest DEF fetch, FetchInv, ReceiptTrue, A!Vetted
  <2>3. FetchControl'
    BY <1>1, SameRequest, SameComplete DEF fetch, FetchInv, FetchControl
  <2> QED
    BY <2>1, <2>2, <2>3 DEF FetchInv
<1>2. CASE A!Next
  BY <1>2, BeginKeeps, RequestKeeps, ReadBodyKeeps, EndBodyKeeps, HashKeeps, PublishLinkKeeps, PublishUnlinkKeeps,
     CreateRecordKeeps, WriteRecordKeeps, PostflightKeeps, StopKeeps, TouchKeeps, ForgeKeeps DEF A!Next, A!Step
<1> QED
  BY <1>1, <1>2

LEMMA FetchWhole == FetchInv => A!CompleteIsWhole /\ A!ResultMatchesBundle
<1> SUFFICES ASSUME FetchInv PROVE A!CompleteIsWhole /\ A!ResultMatchesBundle
  OBVIOUS
<1>1. FetchTypes /\ ReceiptTrue /\ FetchControl
  BY DEF FetchInv
<1>2. ASSUME A!Complete(receipt)
      PROVE  /\ A!Validate(request) /\ A!Vetted(reply.addresses) /\ reply.status = 200
             /\ Len(payload) <= request.max
             /\ reply.declared # None => Len(payload) = reply.declared
             /\ request.expected # None => payload = request.expected
             /\ A!Untouched => payload = came
             /\ names[Marker] # "note"
  <2>1. /\ receipt.status \in {"HASH_VERIFIED", "OBSERVED_ONLY"} /\ A!FilenameValid(receipt.path)
        /\ receipt.failure = "" /\ receipt.http = 200 /\ receipt.vetted
        /\ request.expected = IF receipt.status = "HASH_VERIFIED" THEN receipt.sha ELSE None
        /\ receipt.bytes <= request.max /\ ~A!Mismatch(receipt.declared, receipt.bytes)
        /\ payload = receipt.sha /\ Len(payload) = receipt.bytes
        /\ A!ExactFiles(receipt.path)
    BY <1>1, <1>2, CompleteSays
  <2>2. A!Validate(request) /\ A!Vetted(reply.addresses) /\ reply.status = 200 /\ receipt.declared = reply.declared
    BY <1>1, <2>1 DEF ReceiptTrue
  <2>3. Len(payload) <= request.max /\ (request.expected # None => payload = request.expected)
    BY <2>1
  <2>4. reply.declared # None => Len(payload) = reply.declared
    BY <2>1, <2>2 DEF A!Mismatch
  <2>5. A!Untouched => payload = came
    BY <1>1, <2>1 DEF ReceiptTrue, A!Untouched
  <2>6. names[Marker] # "note"
    <3>1. Marker \in DOMAIN names
      BY <1>1 DEF FetchTypes, FourNames
    <3>2. Marker # receipt.path
      BY <2>1 DEF A!FilenameValid
    <3>3. Marker # Receipt /\ None # "note"
      BY FetchConstants DEF A!AcquisitionConstants
    <3>4. {n \in DOMAIN names : names[n] # None} = {Receipt, receipt.path}
      BY <2>1 DEF A!ExactFiles
    <3> QED
      BY <3>1, <3>2, <3>3, <3>4
  <2> QED
    BY <2>2, <2>3, <2>4, <2>5, <2>6
<1>3. A!CompleteIsWhole
  BY <1>2 DEF A!CompleteIsWhole
<1>4. A!ResultMatchesBundle
  BY <1>1, <1>2 DEF A!ResultMatchesBundle, FetchControl, A!Untouched
<1> QED
  BY <1>3, <1>4

(* Nothing of another program is replaced: a name that is written was free *)
(* or is the name of the payload.                                          *)
LEMMA FetchReplacesNone == FetchInv /\ A!Next => A!NoneReplaced
<1> SUFFICES ASSUME FetchInv, A!Next, NEW n \in DOMAIN names, names[n] = "other"
             PROVE  names'[n] = "other" \/ touches' # touches
  BY DEF A!NoneReplaced
<1>1. names \in [FourNames -> {None, "own", "other", "note"}] /\ None \notin {"own", "other", "note"}
  BY FetchConstants DEF A!AcquisitionConstants, FetchInv, FetchTypes
<1>2. CASE names' = names
  BY <1>2
<1>3. CASE \E m, x : names[m] # "other" /\ names' = [names EXCEPT ![m] = x]
  BY <1>1, <1>3
<1>4. CASE touches' = touches + 1
  BY <1>4 DEF FetchInv, FetchTypes
<1>5. CASE A!Begin
  BY <1>1, <1>2, <1>3, <1>5 DEF A!Begin, A!Create
<1>6. CASE A!PublishLink
  BY <1>1, <1>2, <1>3, <1>6 DEF A!PublishLink, A!Link
<1>7. CASE A!PublishUnlink
  <2>1. names[Part] = "own" /\ names' = [names EXCEPT ![Part] = None]
    BY <1>7 DEF A!PublishUnlink, FetchInv, FetchControl
  <2> QED
    BY <1>3, <2>1
<1>8. CASE A!CreateRecord
  BY <1>1, <1>2, <1>3, <1>8 DEF A!CreateRecord
<1>9. CASE A!Postflight
  BY <1>1, <1>2, <1>3, <1>9 DEF A!Postflight
<1>10. CASE A!Request \/ A!ReadBody \/ A!EndBody \/ A!Hash \/ A!WriteRecord \/ A!Stop
  BY <1>2, <1>10 DEF A!Request, A!ReadBody, A!EndBody, A!Hash, A!WriteRecord, A!Stop, A!directory
<1>11. CASE A!Touch \/ A!Forge
  BY <1>4, <1>11 DEF A!Touch, A!Forge
<1> QED
  BY <1>5, <1>6, <1>7, <1>8, <1>9, <1>10, <1>11 DEF A!Next, A!Step

IInvFetch == what = "fetch" => FetchInv
LEMMA FetchInductive == MCSpec => []IInvFetch
<1>1. MCInit => IInvFetch
  BY FetchInit DEF MCInit, IInvFetch
<1>2. ASSUME IInvFetch, [MCNext]_<<what, vars, fetch, private, orbit, bundle>> PROVE IInvFetch'
  <2>1. CASE what = "fetch"
    <3>1. what' = what /\ [A!Next]_fetch
      BY <1>2, <2>1 DEF MCNext
    <3> QED
      BY <1>2, <2>1, <3>1, FetchStep DEF IInvFetch
  <2>2. CASE what # "fetch"
    BY <1>2, <2>2 DEF MCNext, IInvFetch
  <2> QED
    BY <2>1, <2>2
<1> QED
  BY <1>1, <1>2, PTL DEF MCSpec

(* A download that verifies against the digest of its receipt is whole,    *)
(* fetch returns success only for a bundle that verifies, and a bundle     *)
(* whose postflight failed never does (acquire, verify).                   *)
THEOREM DownloadsAreWhole == MCSpec => []FetchIsWhole
<1>1. IInvFetch => FetchIsWhole
  BY FetchWhole DEF IInvFetch, FetchIsWhole
<1> QED
  BY <1>1, FetchInductive, PTL

-----------------------------------------------------------------------------
(* The way of a source.                                                    *)
LEMMA HasJoined ==
  ASSUME NEW s \in Seq(STRING), NEW l \in Seq(STRING), NEW x
  PROVE  P!Has(s \o l, x) <=> P!Has(s, x) \/ P!Has(l, x)
<1> DEFINE j == s \o l
<1>1. /\ DOMAIN s = 1..Len(s) /\ DOMAIN l = 1..Len(l) /\ Len(s) \in Nat /\ Len(l) \in Nat
      /\ DOMAIN j = 1..(Len(s) + Len(l))
      /\ \A i \in DOMAIN j : j[i] = IF i <= Len(s) THEN s[i] ELSE l[i - Len(s)]
  OBVIOUS
<1>2. ASSUME NEW i \in DOMAIN j, j[i] = x PROVE (\E k \in DOMAIN s : s[k] = x) \/ (\E k \in DOMAIN l : l[k] = x)
  <2>1. CASE i <= Len(s)
    BY <1>1, <1>2, <2>1
  <2>2. CASE ~(i <= Len(s))
    <3>1. i - Len(s) \in DOMAIN l
      BY <1>1, <2>2
    <3> QED
      BY <1>1, <1>2, <2>2, <3>1
  <2> QED
    BY <2>1, <2>2
<1>3. ASSUME NEW k \in DOMAIN s, s[k] = x PROVE \E i \in DOMAIN j : j[i] = x
  <2>1. k \in DOMAIN j /\ j[k] = s[k]
    BY <1>1
  <2> QED
    BY <1>3, <2>1
<1>4. ASSUME NEW k \in DOMAIN l, l[k] = x PROVE \E i \in DOMAIN j : j[i] = x
  <2>1. Len(s) + k \in DOMAIN j /\ j[Len(s) + k] = l[k]
    BY <1>1
  <2> QED
    BY <1>4, <2>1
<1> HIDE DEF j
<1> QED
  BY <1>2, <1>3, <1>4 DEF j, P!Has, P!Range

(* A source without GO_PRIVATE keeps without it whatever it imports, and   *)
(* then has no confidential call if it is valid.                           *)
LEMMA ResolvedPublic ==
  ASSUME NEW s \in Seq(STRING), NEW l, l \in Seq(STRING) \union {None}, P!Resolves(s, l), ~P!Has(s, "GO_PRIVATE")
  PROVE  /\ P!Resolved(s, l) \in Seq(STRING)
         /\ ~P!Has(P!Resolved(s, l), "GO_PRIVATE")
         /\ P!Validate(P!Resolved(s, l)) =>
              /\ ~P!Confidential(s)
              /\ P!Has(s, "import") => ~P!Confidential(l)
<1>1. CASE ~P!Has(s, "import")
  BY <1>1 DEF P!Resolved, P!Validate, P!Confidential
<1>2. CASE P!Has(s, "import")
  <2>1. l \in Seq(STRING) /\ ~P!Has(l, "GO_PRIVATE") /\ P!Resolved(s, l) = s \o l
    BY <1>2 DEF P!Resolves, P!Resolved, P!Library
  <2>2. s \o l \in Seq(STRING)
    BY <2>1
  <2>3. \A x : P!Has(s \o l, x) <=> P!Has(s, x) \/ P!Has(l, x)
    BY <2>1, HasJoined
  <2>4. ~P!Has(s \o l, "GO_PRIVATE")
    BY <2>1, <2>3
  <2>5. P!Validate(s \o l) => ~P!Confidential(s \o l)
    BY <2>4 DEF P!Validate
  <2>6. P!Confidential(s \o l) <=> P!Confidential(s) \/ P!Confidential(l)
    BY <2>3 DEF P!Confidential
  <2> QED
    BY <2>1, <2>2, <2>4, <2>5, <2>6
<1> QED
  BY <1>1, <1>2

Before == {"route", "launcher", "run", "check", "keep"}
InUse == {"check", "keep", "resolve", "validate"}
RouteTypes ==
  /\ main \in Mains /\ lib \in Libraries \union {None} /\ edits \in Nat
  /\ at \in InUse => source \in Mains /\ ~P!Declared(source)
RoutePublic ==
  /\ at \in Before => evidence = {}
  /\ \A s \in evidence : ~P!Has(s, "GO_PRIVATE")
  /\ at = "validate" => ~P!Has(program, "GO_PRIVATE")
  /\ at = "science" => ~P!Has(program, "GO_PRIVATE") /\ ~P!Confidential(program)
RouteStill ==
  edits = 0 =>
    /\ at \in InUse => source = main
    /\ at \in {"keep", "resolve"} /\ P!Resolves(main, lib) => P!Validate(P!Resolved(main, lib))
    /\ P!Resolves(main, lib) => \A s \in evidence : ~P!Confidential(s)
RouteInv == RouteTypes /\ RoutePublic /\ RouteStill

LEMMA RouteInit == P!Init => RouteInv
BY DEF P!Init, RouteInv, RouteTypes, RoutePublic, RouteStill, InUse, Before

LEMMA SameSources ==
  UNCHANGED <<main, lib>> => /\ P!Resolves(main, lib)' <=> P!Resolves(main, lib)
                             /\ P!Validate(P!Resolved(main, lib))' <=> P!Validate(P!Resolved(main, lib))
BY DEF P!Resolves, P!Resolved, P!Validate, P!Has, P!Confidential, P!Library, P!Range

(* A step after which no source is in use, and nothing more was kept.      *)
LEMMA RouteQuiet ==
  ASSUME RouteInv, main' \in Mains, lib' \in Libraries \union {None}, UNCHANGED <<source, evidence>>,
         UNCHANGED <<main, lib, edits>> \/ edits' = edits + 1,
         (UNCHANGED <<at, program>>) \/ (at' \in {"done", "private", "launcher", "run"} /\ (at' \in Before => at \in Before))
  PROVE  RouteInv'
<1>1. edits' \in Nat /\ (edits' = 0 => UNCHANGED <<main, lib, edits>>)
  BY DEF RouteInv, RouteTypes
<1>2. RouteTypes'
  BY <1>1 DEF RouteInv, RouteTypes, InUse, P!Declared, P!Has
<1>3. RoutePublic'
  BY DEF RouteInv, RoutePublic, Before, P!Has, P!Confidential
<1>4. RouteStill'
  BY <1>1, SameSources DEF RouteInv, RouteStill, InUse, P!Confidential, P!Has
<1> QED
  BY <1>2, <1>3, <1>4 DEF RouteInv

LEMMA RunReadKeeps == RouteInv /\ P!RunRead => RouteInv'
<1> SUFFICES ASSUME RouteInv, P!RunRead PROVE RouteInv'
  OBVIOUS
<1>1. /\ at = "run" /\ source' = main /\ at' = (IF P!Declared(main) THEN "done" ELSE "check")
      /\ UNCHANGED <<main, lib, edits, program, evidence>>
  BY DEF P!RunRead, P!Goto, P!Kept, P!sources
<1>2. RouteTypes'
  BY <1>1 DEF RouteInv, RouteTypes, InUse, P!Declared, P!Has, P!Range
<1>3. RoutePublic'
  BY <1>1 DEF RouteInv, RoutePublic, Before
<1>4. RouteStill'
  BY <1>1 DEF RouteInv, RoutePublic, RouteStill, InUse, Before
<1> QED
  BY <1>2, <1>3, <1>4 DEF RouteInv

LEMMA RunCheckKeeps == RouteInv /\ P!RunCheck => RouteInv'
<1> SUFFICES ASSUME RouteInv, P!RunCheck PROVE RouteInv'
  OBVIOUS
<1>1. /\ at = "check" /\ UNCHANGED <<main, lib, edits, source, program, evidence>>
      /\ at' = (IF P!Resolves(source, lib) /\ ~P!Validate(P!Resolved(source, lib)) THEN "done" ELSE "keep")
  BY DEF P!RunCheck, P!Goto, P!Kept, P!sources, P!routing
<1>2. RouteTypes'
  BY <1>1 DEF RouteInv, RouteTypes, InUse, P!Declared, P!Has, P!Range
<1>3. RoutePublic'
  BY <1>1 DEF RouteInv, RoutePublic, Before
<1>4. RouteStill'
  <2> SUFFICES ASSUME edits = 0
               PROVE  /\ at' \in InUse => source' = main'
                      /\ at' \in {"keep", "resolve"} /\ P!Resolves(main, lib)' => P!Validate(P!Resolved(main, lib))'
                      /\ P!Resolves(main, lib)' => \A s \in evidence' : ~P!Confidential(s)
    BY <1>1 DEF RouteStill
  <2>1. source = main /\ evidence = {}
    BY <1>1 DEF RouteInv, RoutePublic, RouteStill, InUse, Before
  <2>2. at' = "keep" /\ P!Resolves(main, lib) => P!Validate(P!Resolved(main, lib))
    BY <1>1, <2>1
  <2> QED
    BY <1>1, <2>1, <2>2, SameSources
<1> QED
  BY <1>2, <1>3, <1>4 DEF RouteInv

(* What is known of the source and the library that are kept.              *)
LEMMA InUseTyped ==
  ASSUME RouteInv, at \in InUse
  PROVE  /\ source \in Seq(STRING) /\ lib \in Seq(STRING) \union {None} /\ ~P!Has(source, "GO_PRIVATE")
         /\ edits = 0 => source = main
BY ProgramConstants DEF P!PrivateConstants, RouteInv, RouteTypes, RouteStill, P!Declared

LEMMA RunKeepKeeps == RouteInv /\ P!RunKeep => RouteInv'
<1> SUFFICES ASSUME RouteInv, P!RunKeep PROVE RouteInv'
  OBVIOUS
<1>1. at = "keep" /\ at' = "resolve" /\ evidence' = {source} /\ UNCHANGED <<main, lib, edits, source, program>>
  BY DEF P!RunKeep, P!Goto, P!Kept, P!sources
<1>2. /\ source \in Seq(STRING) /\ lib \in Seq(STRING) \union {None} /\ ~P!Has(source, "GO_PRIVATE")
      /\ edits = 0 => source = main
  BY <1>1, InUseTyped DEF InUse
<1>3. RouteTypes'
  BY <1>1 DEF RouteInv, RouteTypes, InUse, P!Declared, P!Has, P!Range
<1>4. RoutePublic'
  BY <1>1, <1>2 DEF RoutePublic, Before
<1>5. RouteStill'
  <2> SUFFICES ASSUME edits = 0
               PROVE  /\ source' = main'
                      /\ P!Resolves(main, lib)' => P!Validate(P!Resolved(main, lib))'
                      /\ P!Resolves(main, lib)' => \A s \in evidence' : ~P!Confidential(s)
    BY <1>1 DEF RouteStill
  <2>1. source = main /\ (P!Resolves(main, lib) => P!Validate(P!Resolved(main, lib)))
    BY <1>1, <1>2 DEF RouteInv, RouteStill
  <2>2. P!Resolves(main, lib) => ~P!Confidential(main)
    BY <1>2, <2>1, ResolvedPublic
  <2> QED
    BY <1>1, <2>1, <2>2, SameSources
<1> QED
  BY <1>3, <1>4, <1>5 DEF RouteInv

LEMMA RunResolveKeeps == RouteInv /\ P!RunResolve => RouteInv'
<1> SUFFICES ASSUME RouteInv, P!RunResolve PROVE RouteInv'
  OBVIOUS
<1>1. at = "resolve" /\ UNCHANGED <<main, lib, edits, source>>
  BY DEF P!RunResolve, P!Kept, P!sources
<1>2. /\ source \in Seq(STRING) /\ lib \in Seq(STRING) \union {None} /\ ~P!Has(source, "GO_PRIVATE")
      /\ edits = 0 => source = main
  BY <1>1, InUseTyped DEF InUse
<1>3. CASE at' = "done" /\ UNCHANGED <<program, evidence>>
  BY <1>1, <1>3, RouteQuiet DEF RouteInv, RouteTypes, Before
<1>4. CASE /\ P!Resolves(source, lib) /\ program' = P!Resolved(source, lib) /\ at' = "validate"
           /\ evidence' = evidence \union (IF P!Has(source, "import") THEN {lib} ELSE {})
  <2>1. /\ ~P!Has(program', "GO_PRIVATE")
        /\ P!Validate(P!Resolved(source, lib)) => (P!Has(source, "import") => ~P!Confidential(lib))
    BY <1>2, <1>4, ResolvedPublic
  <2>2. P!Has(source, "import") => ~P!Has(lib, "GO_PRIVATE")
    BY <1>4 DEF P!Resolves, P!Library
  <2>3. RouteTypes'
    BY <1>1, <1>4 DEF RouteInv, RouteTypes, InUse, P!Declared, P!Has, P!Range
  <2>4. RoutePublic'
    BY <1>4, <2>1, <2>2 DEF RouteInv, RoutePublic, Before
  <2>5. RouteStill'
    <3> SUFFICES ASSUME edits = 0, P!Resolves(main, lib) PROVE \A s \in evidence' : ~P!Confidential(s)
      BY <1>1, <1>2, <1>4, SameSources DEF RouteStill
    <3>1. source = main /\ P!Validate(P!Resolved(main, lib)) /\ \A s \in evidence : ~P!Confidential(s)
      BY <1>1, <1>2 DEF RouteInv, RouteStill
    <3> QED
      BY <1>4, <2>1, <3>1
  <2> QED
    BY <2>3, <2>4, <2>5 DEF RouteInv
<1> QED
  BY <1>3, <1>4 DEF P!RunResolve, P!Goto

LEMMA RunValidateKeeps == RouteInv /\ P!RunValidate => RouteInv'
<1> SUFFICES ASSUME RouteInv, P!RunValidate PROVE RouteInv'
  OBVIOUS
<1>1. /\ at = "validate" /\ at' = (IF P!Validate(program) THEN "science" ELSE "done")
      /\ UNCHANGED <<main, lib, edits, source, program, evidence>>
  BY DEF P!RunValidate, P!Goto, P!Kept, P!sources, P!routing
<1>2. CASE at' = "done"
  BY <1>1, <1>2, RouteQuiet DEF RouteInv, RouteTypes, Before
<1>3. CASE at' = "science" /\ P!Validate(program)
  <2>1. ~P!Has(program, "GO_PRIVATE") /\ ~P!Confidential(program)
    BY <1>1, <1>3 DEF RouteInv, RoutePublic, P!Validate
  <2>2. RouteTypes'
    BY <1>1, <1>3 DEF RouteInv, RouteTypes, InUse
  <2>3. RoutePublic'
    BY <1>1, <1>3, <2>1 DEF RouteInv, RoutePublic, Before, P!Has, P!Range, P!Confidential
  <2>4. RouteStill'
    BY <1>1, <1>3, SameSources DEF RouteInv, RouteStill, InUse
  <2> QED
    BY <2>2, <2>3, <2>4 DEF RouteInv
<1> QED
  BY <1>1, <1>2, <1>3

LEMMA RouteStep == RouteInv /\ [P!Next]_private => RouteInv'
<1> SUFFICES ASSUME RouteInv, [P!Next]_private PROVE RouteInv'
  OBVIOUS
<1>1. main \in Mains /\ lib \in Libraries \union {None}
  BY DEF RouteInv, RouteTypes
<1>2. CASE UNCHANGED <<main, lib, frozen, source, program, evidence, at, edits>>
  BY <1>1, <1>2, RouteQuiet
<1>3. CASE P!Operation
  <2>1. UNCHANGED <<main, lib, frozen, source, program, evidence, at, edits>>
    BY <1>3 DEF P!Operation, P!EncryptFile, P!DecryptFile, P!CopyEncrypt, P!FinishEncrypt, P!CopyDecrypt, P!Publish,
       P!Keygen, P!SavePublic, P!IOError, P!Outside, P!sources, P!routing
  <2> QED
    BY <1>2, <2>1
<1>4. CASE P!Route \/ P!Load \/ P!Killed
  <2>1. UNCHANGED <<main, lib, edits, source, evidence>>
    BY <1>4 DEF P!Route, P!Load, P!Killed, P!Kept, P!sources, P!routing
  <2>2. at' \in {"done", "private", "launcher", "run"} /\ (at' \in Before => at \in Before)
    BY <1>4 DEF P!Route, P!Load, P!Killed, P!Goto, Before
  <2> QED
    BY <1>1, <2>1, <2>2, RouteQuiet
<1>5. CASE P!Edit
  BY <1>1, <1>5, RouteQuiet DEF P!Edit, P!Touch, P!routing
<1>6. CASE \E n \in Paths : P!Disturb(n)
  BY <1>1, <1>6, RouteQuiet DEF P!Disturb, P!Touch, P!routing, P!sources
<1>7. CASE UNCHANGED private
  BY <1>2, <1>7 DEF private
<1> QED
  BY <1>3, <1>4, <1>5, <1>6, <1>7, RunReadKeeps, RunCheckKeeps, RunKeepKeeps, RunResolveKeeps, RunValidateKeeps
     DEF P!Next, P!Routing

IInvRoute == what = "private" => RouteInv
LEMMA RouteInductive == MCSpec => []IInvRoute
<1>1. MCInit => IInvRoute
  BY RouteInit DEF MCInit, IInvRoute
<1>2. ASSUME IInvRoute, [MCNext]_<<what, vars, fetch, private, orbit, bundle>> PROVE IInvRoute'
  <2>1. CASE what = "private"
    <3>1. what' = what /\ [P!Next]_private
      BY <1>2, <2>1 DEF MCNext
    <3> QED
      BY <1>2, <2>1, <3>1, RouteStep DEF IInvRoute
  <2>2. CASE what # "private"
    BY <1>2, <2>2 DEF MCNext, IInvRoute
  <2> QED
    BY <2>1, <2>2
<1> QED
  BY <1>1, <1>2, PTL DEF MCSpec

(* No source that says GO_PRIVATE is kept in a run directory nor run as a  *)
(* scientific program, though the sources are edited between any two times *)
(* they are read, and no confidential call is kept if they stay as they    *)
(* are and the imports resolve (command_run, run_file).                    *)
THEOREM PrivateSourcesNotKept == MCSpec => []NotPreserved
<1>1. IInvRoute => NotPreserved
  BY DEF IInvRoute, NotPreserved, RouteInv, RoutePublic, RouteStill, P!NotPreserved
<1> QED
  BY <1>1, RouteInductive, PTL

-----------------------------------------------------------------------------
(* Operations on files.  A chunk that is anywhere in a file was written by *)
(* an encryption that is over, and says what that encryption read at its   *)
(* place; so what is decrypted, chunk by chunk, is what one encryption     *)
(* read, whatever is done to the file meanwhile.                           *)
Headers == [key : Keys, of : Nat]
Chunks == [of : Nat, place : Nat, block : Values \union {End}]
Blocks == Values \union Headers \union Chunks \union [secret : Nat] \union [public : Nat]
Encryptions == [key : Keys, plain : Seq(Values)]
Copying == [fn : {"encrypt", "decrypt"}, from : Paths, out : Paths \union {None}, of : Nat, read : Nat,
            eof : BOOLEAN, staged : Seq(Blocks)]
Generated == [fn : {"keygen"}, from : Paths, out : Paths \union {None}, of : Nat]

CryptoTypes ==
  /\ file \in [Paths -> {None} \union Seq(Blocks)]
  /\ \A n \in Paths : file[n] # None => file[n] \in Seq(Blocks) /\ file[n] # << >>
  /\ made \in Seq(Encryptions \union {None}) /\ calls = Len(made) /\ edits \in Nat /\ published \subseteq Nat
  /\ work \in {None} \union Copying \union Generated
  /\ work # None => file[work.from] # None

Plain(n) == made[n].plain
Known(n) == n \in 1..Len(made) /\ made[n] # None
Closed(n) == Known(n) /\ ~(work # None /\ work.fn = "encrypt" /\ work.of = n)
Genuine(u) ==
  /\ u \in Headers \union Chunks => Closed(u.of)
  /\ u \in Chunks => IF u.block = End THEN u.place = Len(Plain(u.of)) + 1 /\ u.place # 1
                     ELSE u.place \in 1..Len(Plain(u.of)) /\ Plain(u.of)[u.place] = u.block
Stored == \A n \in Paths : file[n] # None => \A i \in 1..Len(file[n]) : Genuine(file[n][i])

(* The header of encryption n and its chunks; and their end.               *)
Begun(s, n) ==
  /\ s[1] = P!Header(made[n].key, n)
  /\ \A i \in 1..Len(Plain(n)) : s[i + 1] = P!Chunk(n, i, Plain(n)[i])
Ended(s, n) ==
  /\ Len(s) = Len(Plain(n)) + 2 /\ Len(Plain(n)) <= MaxPlain
  /\ s[Len(Plain(n)) + 2] = P!Chunk(n, Len(Plain(n)) + 1, End)

Encrypting ==
  work # None /\ work.fn = "encrypt" =>
    /\ Known(work.of) /\ Len(Plain(work.of)) = work.read /\ work.read <= MaxPlain /\ Begun(work.staged, work.of)
    /\ IF work.eof THEN Ended(work.staged, work.of) /\ work.read # 0 ELSE Len(work.staged) = work.read + 1
    /\ \A i \in 1..Len(file[work.from]) : file[work.from][i] \in Values
Decrypting ==
  work # None /\ work.fn = "decrypt" =>
    /\ Known(work.of) /\ work.read # 0 /\ Len(work.staged) = work.read - 1
    /\ work.read - 1 <= Len(Plain(work.of))
    /\ \A i \in 1..(work.read - 1) : work.staged[i] = Plain(work.of)[i]
    /\ work.eof => work.read - 1 = Len(Plain(work.of)) /\ work.read # 1
Generating == work # None /\ work.fn = "keygen" /\ edits = 0 => file[work.from] = P!Secret(work.of)

Released == \A r \in released : Closed(r[1]) /\ r[2] = Plain(r[1])
Usable ==
  edits = 0 =>
    /\ \A n \in Paths : file[n] # None /\ file[n][1] \in Headers =>
         Begun(file[n], file[n][1].of) /\ Ended(file[n], file[n][1].of)
    /\ \A k \in published : \E n \in Paths : file[n] = P!Secret(k)

CryptoInv == CryptoTypes /\ Stored /\ Encrypting /\ Decrypting /\ Generating /\ Released /\ Usable

LEMMA BlocksDiffer ==
  /\ \A u \in Chunks : u \notin Values /\ u \notin Headers
  /\ \A u \in Headers : u \notin Values /\ u \notin Chunks /\ P!IsHeader(u)
  /\ \A u \in Blocks : P!IsHeader(u) => u \in Headers
  /\ \A n \in Nat : [secret |-> n] \in Blocks /\ [secret |-> n] \notin Headers \union Chunks
  /\ \A n \in Nat : [public |-> n] \in Blocks /\ [public |-> n] \notin Headers \union Chunks
  /\ \A v \in Values : v \in Blocks /\ v \notin Headers \union Chunks
<1>1. \A v \in Values : v \in Blocks /\ v \notin Headers \union Chunks
  BY ProgramConstants DEF P!PrivateConstants, Blocks, Headers, Chunks
<1>2. \A u \in Chunks : u \notin Headers /\ ~P!IsHeader(u)
  BY DEF Chunks, Headers, P!IsHeader
<1>3. \A u \in Headers : P!IsHeader(u)
  BY <1>1 DEF Headers, P!IsHeader
<1>4. \A n \in Nat : [secret |-> n] \in Blocks /\ [secret |-> n] \notin Headers \union Chunks
  BY DEF Blocks, Headers, Chunks
<1>5. \A n \in Nat : [public |-> n] \in Blocks /\ [public |-> n] \notin Headers \union Chunks
  BY DEF Blocks, Headers, Chunks
<1>6. \A u \in [secret : Nat] \union [public : Nat] : ~P!IsHeader(u)
  BY DEF P!IsHeader
<1>7. \A u \in Blocks : P!IsHeader(u) => u \in Headers
  BY <1>2, <1>6 DEF Blocks, P!IsHeader
<1> QED
  BY <1>1, <1>2, <1>3, <1>4, <1>5, <1>7

LEMMA GenuineStays ==
  ASSUME \A n : Closed(n) => Closed(n)' /\ made'[n] = made[n], NEW u, Genuine(u)
  PROVE  Genuine(u)'
BY DEF Genuine, Plain

LEMMA CryptoInit == P!Init => CryptoInv
<1> SUFFICES ASSUME P!Init PROVE CryptoInv
  OBVIOUS
<1>1. /\ file \in [Paths -> {None} \union {<<v>> : v \in Values} \union {<<v, v>> : v \in Values}]
      /\ work = None /\ calls = 0 /\ made = << >> /\ released = {} /\ published = {} /\ edits = 0
  BY DEF P!Init
<1>2. ASSUME NEW n \in Paths, file[n] # None
      PROVE  file[n] \in Seq(Blocks) /\ file[n] # << >> /\ \A i \in 1..Len(file[n]) : file[n][i] \in Values
  <2>1. PICK v \in Values : file[n] = <<v>> \/ file[n] = <<v, v>>
    BY <1>1, <1>2
  <2>2. v \in Blocks
    BY BlocksDiffer
  <2>3. CASE file[n] = <<v>>
    BY <2>2, <2>3
  <2>4. CASE file[n] = <<v, v>>
    BY <2>2, <2>4
  <2> QED
    BY <2>1, <2>3, <2>4
<1>3. CryptoTypes
  BY <1>1, <1>2 DEF CryptoTypes
<1>4. Stored
  BY <1>2, BlocksDiffer DEF Stored, Genuine
<1>5. Usable
  <2>1. ASSUME NEW n \in Paths, file[n] # None PROVE file[n][1] \notin Headers
    <3>1. Len(file[n]) \in Nat \ {0}
      BY <1>2, <2>1
    <3> QED
      BY <1>2, <2>1, <3>1, BlocksDiffer
  <2> QED
    BY <1>1, <2>1 DEF Usable
<1>6. Encrypting /\ Decrypting /\ Generating /\ Released
  BY <1>1 DEF Encrypting, Decrypting, Generating, Released
<1> QED
  BY <1>3, <1>4, <1>5, <1>6 DEF CryptoInv

(* A step that changes no file, no encryption and nothing released; only   *)
(* the work may end, and others may have been at work.                     *)
LEMMA CryptoQuiet ==
  ASSUME CryptoInv, UNCHANGED <<file, calls, made, released, published>>, work' = work \/ work' = None,
         edits' = edits \/ edits' = edits + 1
  PROVE  CryptoInv'
<1>1. edits' \in Nat /\ (edits' = 0 => edits = 0)
  BY DEF CryptoInv, CryptoTypes
<1>2. CryptoTypes'
  BY <1>1 DEF CryptoInv, CryptoTypes
<1>3. \A n : Closed(n) => Closed(n)' /\ made'[n] = made[n]
  BY DEF Closed, Known
<1>4. Stored'
  BY <1>3, GenuineStays DEF CryptoInv, Stored
<1>5. Encrypting'
  BY DEF CryptoInv, Encrypting, Known, Plain, Begun, Ended
<1>6. Decrypting'
  BY DEF CryptoInv, Decrypting, Known, Plain
<1>7. Generating'
  BY <1>1 DEF CryptoInv, Generating
<1>8. Released'
  BY <1>3 DEF CryptoInv, Released, Plain
<1>9. Usable'
  BY <1>1 DEF CryptoInv, Usable, Begun, Ended, Plain
<1> QED
  BY <1>2, <1>4, <1>5, <1>6, <1>7, <1>8, <1>9 DEF CryptoInv

LEMMA SizesAre == MaxPlain \in Nat /\ MaxCipher \in Nat /\ MaxCipher >= MaxPlain + 2
BY ProgramConstants DEF P!PrivateConstants
LEMMA EncryptionsAre == None \notin Encryptions /\ None \notin Values
BY ProgramConstants DEF P!PrivateConstants, Encryptions

(* The next call: an encryption, or nothing, is added to those made.       *)
LEMMA MadeMore ==
  ASSUME CryptoInv, NEW x \in Encryptions \union {None}, made' = Append(made, x), calls' = calls + 1, work = None,
         work' # None => work'.of = calls + 1 \/ work'.fn # "encrypt"
  PROVE  /\ made' \in Seq(Encryptions \union {None}) /\ calls' = Len(made') /\ calls + 1 \in 1..Len(made')
         /\ made'[calls + 1] = x
         /\ \A n : Known(n) => Known(n)' /\ made'[n] = made[n]
         /\ \A n : Closed(n) => Closed(n)' /\ made'[n] = made[n]
<1>1. made \in Seq(Encryptions \union {None}) /\ calls = Len(made) /\ calls \in Nat
  BY DEF CryptoInv, CryptoTypes
<1>2. /\ made' \in Seq(Encryptions \union {None}) /\ Len(made') = calls + 1 /\ made'[calls + 1] = x
      /\ \A n \in 1..calls : made'[n] = made[n]
  BY <1>1
<1>3. \A n : Known(n) => Known(n)' /\ made'[n] = made[n] /\ n # calls + 1
  BY <1>1, <1>2 DEF Known
<1>4. \A n : Closed(n) => Closed(n)' /\ made'[n] = made[n]
  BY <1>3 DEF Closed
<1>5. made' \in Seq(Encryptions \union {None}) /\ calls' = Len(made') /\ calls + 1 \in 1..Len(made') /\ made'[calls + 1] = x
  BY <1>1, <1>2
<1> QED
  BY <1>3, <1>4, <1>5

LEMMA CompleteStays ==
  ASSUME NEW s, NEW n, made'[n] = made[n]
  PROVE  (Begun(s, n) => Begun(s, n)') /\ (Ended(s, n) => Ended(s, n)')
BY DEF Begun, Ended, Plain

LEMMA FirstBlock ==
  ASSUME CryptoInv, NEW n \in Paths, file[n] # None
  PROVE  /\ Len(file[n]) \in Nat \ {0} /\ file[n][1] \in Blocks
         /\ file[n][1] \in Headers => Closed(file[n][1].of) /\ file[n][1].of \in Nat
<1>1. file[n] \in Seq(Blocks) /\ file[n] # << >>
  BY DEF CryptoInv, CryptoTypes
<1>2. Len(file[n]) \in Nat \ {0} /\ file[n][1] \in Blocks
  BY <1>1
<1>3. Genuine(file[n][1])
  BY <1>2 DEF CryptoInv, Stored
<1> QED
  BY <1>2, <1>3 DEF Genuine, Headers

(* What holds of the files, whatever call begins.                          *)
LEMMA FilesStay ==
  ASSUME CryptoInv, UNCHANGED <<file, published, edits>>, \A n : Closed(n) => Closed(n)' /\ made'[n] = made[n]
  PROVE  Stored' /\ Usable' /\ (released' = released => Released')
<1>1. Stored'
  BY GenuineStays DEF CryptoInv, Stored
<1>2. released' = released => Released'
  BY DEF CryptoInv, Released, Plain
<1>3. Usable'
  <2> SUFFICES ASSUME edits = 0, NEW n \in Paths, file[n] # None, file[n][1] \in Headers
               PROVE  Begun(file[n], file[n][1].of)' /\ Ended(file[n], file[n][1].of)'
    BY DEF CryptoInv, Usable
  <2>1. Begun(file[n], file[n][1].of) /\ Ended(file[n], file[n][1].of) /\ Closed(file[n][1].of)
    BY FirstBlock DEF CryptoInv, Usable
  <2> QED
    BY <2>1, CompleteStays
<1> QED
  BY <1>1, <1>2, <1>3

LEMMA EncryptFileKeeps ==
  ASSUME CryptoInv, NEW n \in Paths, NEW k \in Keys, NEW out \in Paths, P!EncryptFile(n, k, out)
  PROVE  CryptoInv'
<1> DEFINE w == [fn |-> "encrypt", from |-> n, out |-> out, of |-> calls + 1, read |-> 0, eof |-> FALSE,
                 staged |-> <<P!Header(k, calls + 1)>>]
<1>1. /\ work = None /\ file[n] # None /\ P!Range(file[n]) \subseteq Values
      /\ work' = w /\ calls' = calls + 1 /\ made' = Append(made, [key |-> k, plain |-> << >>])
      /\ UNCHANGED <<file, released, published, edits>>
  BY DEF P!EncryptFile, P!Calling, P!OpenRegular, P!Begin, P!Outside
<1>2. calls + 1 \in Nat /\ P!Header(k, calls + 1) \in Blocks
  BY DEF CryptoInv, CryptoTypes, P!Header, Blocks, Headers
<1>3. w \in Copying /\ w.of = calls + 1 /\ w.fn = "encrypt" /\ w.from = n
  BY <1>2 DEF Copying
<1>4. w.read = 0 /\ w.staged = <<P!Header(k, calls + 1)>>
  OBVIOUS
<1>5. ~w.eof
  OBVIOUS
<1> HIDE DEF w
<1>6. [key |-> k, plain |-> << >>] \in Encryptions
  BY DEF Encryptions
<1>7. /\ made' \in Seq(Encryptions \union {None}) /\ calls' = Len(made') /\ calls + 1 \in 1..Len(made')
      /\ made'[calls + 1] = [key |-> k, plain |-> << >>]
      /\ \A i : Closed(i) => Closed(i)' /\ made'[i] = made[i]
  BY <1>1, <1>3, <1>6, MadeMore
<1>8. CryptoTypes'
  BY <1>1, <1>3, <1>7 DEF CryptoInv, CryptoTypes
<1>9. PICK m \in Nat : m = calls + 1
  BY <1>2
<1>10. made'[m] # None
  BY <1>6, <1>7, <1>9, ProgramConstants DEF P!PrivateConstants, Encryptions
<1>11. made'[m].key = k /\ made'[m].plain = << >>
  BY <1>7, <1>9
<1>12. \A i \in 1..Len(file[n]) : file[n][i] \in Values
  BY <1>1 DEF CryptoInv, CryptoTypes, P!Range
<1>13. Encrypting'
  <2>1. Known(m)'
    BY <1>7, <1>9, <1>10 DEF Known
  <2>2. Begun(work.staged, m)'
    <3>1. work'.staged = <<P!Header(k, m)>>
      BY <1>1, <1>4, <1>9
    <3>2. work'.staged[1] = P!Header(made'[m].key, m)
      BY <1>11, <3>1
    <3>3. 1..Len(made'[m].plain) = {}
      BY <1>11
    <3> QED
      BY <3>2, <3>3 DEF Begun, Plain
  <2>3. work'.read = 0 /\ Len(work'.staged) = 1
    BY <1>1, <1>4
  <2>6. Len(made'[m].plain) = 0 /\ 0 <= MaxPlain
    BY <1>11, SizesAre
  <2>4. work'.of = m /\ work'.from = n
    BY <1>1, <1>3, <1>9
  <2>5. ~work'.eof
    BY <1>1, <1>5
  <2>7. Known(work.of)'
    BY <2>1, <2>4 DEF Known
  <2>8. Begun(work.staged, work.of)'
    BY <2>2, <2>4 DEF Begun, Plain
  <2>9. Len(Plain(work.of))' = work'.read /\ work'.read <= MaxPlain /\ Len(work'.staged) = work'.read + 1
    BY <2>3, <2>4, <2>6 DEF Plain
  <2>10. \A i \in 1..Len(file'[work'.from]) : file'[work'.from][i] \in Values
    BY <1>1, <1>12, <2>4
  <2> QED
    BY <2>5, <2>7, <2>8, <2>9, <2>10 DEF Encrypting
<1>14. Decrypting' /\ Generating'
  BY <1>1, <1>3 DEF Decrypting, Generating
<1> QED
  BY <1>1, <1>7, <1>8, <1>13, <1>14, FilesStay DEF CryptoInv

LEMMA DecryptFileKeeps ==
  ASSUME CryptoInv, NEW n \in Paths, NEW k \in Keys, NEW out \in Paths \union {None}, P!DecryptFile(n, k, out)
  PROVE  CryptoInv'
<1> DEFINE w == [fn |-> "decrypt", from |-> n, out |-> out, of |-> file[n][1].of, read |-> 1, eof |-> FALSE, staged |-> << >>]
<1>1. /\ work = None /\ file[n] # None /\ P!IsHeader(file[n][1]) /\ work' = w /\ calls' = calls + 1
      /\ made' = Append(made, None) /\ UNCHANGED <<file, released, published, edits>>
  BY DEF P!DecryptFile, P!Calling, P!OpenRegular, P!Begin, P!Outside
<1>2. PICK m \in Nat : m = file[n][1].of /\ Closed(m)
  BY <1>1, FirstBlock, BlocksDiffer
<1>3. w \in Copying /\ w.of = m /\ w.fn = "decrypt" /\ w.from = n
  BY <1>2 DEF Copying
<1>4. w.read = 1 /\ w.staged = << >>
  OBVIOUS
<1>5. ~w.eof
  OBVIOUS
<1> HIDE DEF w
<1>6. /\ made' \in Seq(Encryptions \union {None}) /\ calls' = Len(made')
      /\ \A i : Closed(i) => Closed(i)' /\ made'[i] = made[i]
  BY <1>1, <1>3, MadeMore
<1>7. CryptoTypes'
  BY <1>1, <1>3, <1>6 DEF CryptoInv, CryptoTypes
<1>8. Encrypting' /\ Generating'
  BY <1>1, <1>3 DEF Encrypting, Generating
<1>9. Decrypting'
  <2>1. Known(m)'
    BY <1>2, <1>6 DEF Closed
  <2>2. Known(work.of)'
    BY <1>1, <1>3, <2>1 DEF Known
  <2>3. work'.read = 1 /\ Len(work'.staged) = 0
    BY <1>1, <1>4
  <2>4. Len(Plain(work.of))' \in Nat
    <3>1. made'[work'.of] \in Encryptions
      BY <1>6, <2>2 DEF Known
    <3> QED
      BY <3>1 DEF Plain, Encryptions
  <2>5. ~work'.eof
    BY <1>1, <1>5
  <2> QED
    BY <2>2, <2>3, <2>4, <2>5 DEF Decrypting
<1> QED
  BY <1>1, <1>6, <1>7, <1>8, <1>9, FilesStay DEF CryptoInv

LEMMA WorkReads ==
  ASSUME work \in Copying, NEW r \in Nat, NEW s \in Seq(Blocks), work' = [work EXCEPT !.read = r, !.staged = s]
  PROVE  /\ work' \in Copying /\ work'.fn = work.fn /\ work'.from = work.from /\ work'.of = work.of /\ work'.out = work.out
         /\ work'.read = r /\ work'.staged = s /\ (work'.eof <=> work.eof)
<1>1. /\ work' \in Copying /\ work'.fn = work.fn /\ work'.from = work.from /\ work'.of = work.of /\ work'.out = work.out
      /\ work'.read = r /\ work'.staged = s
  BY DEF Copying
<1>2. work'.eof <=> work.eof
  BY DEF Copying
<1> QED
  BY <1>1, <1>2

LEMMA WorkEnds ==
  ASSUME work \in Copying, NEW s \in Seq(Blocks), work' = [work EXCEPT !.eof = TRUE, !.staged = s]
  PROVE  /\ work' \in Copying /\ work'.fn = work.fn /\ work'.from = work.from /\ work'.of = work.of /\ work'.out = work.out
         /\ work'.read = work.read /\ work'.staged = s /\ work'.eof
<1>1. /\ work' \in Copying /\ work'.fn = work.fn /\ work'.from = work.from /\ work'.of = work.of /\ work'.out = work.out
      /\ work'.read = work.read /\ work'.staged = s
  BY DEF Copying
<1>2. work'.eof
  BY DEF Copying
<1> QED
  BY <1>1, <1>2

LEMMA CopyingIs ==
  ASSUME CryptoInv, work # None, work.fn \in {"encrypt", "decrypt"}
  PROVE  /\ work \in Copying /\ work.read \in Nat /\ work.of \in Nat /\ work.staged \in Seq(Blocks) /\ work.from \in Paths
         /\ file[work.from] \in Seq(Blocks) /\ Len(file[work.from]) \in Nat \ {0}
<1>1. work \in Copying
  BY DEF CryptoInv, CryptoTypes, Generated
<1>2. work.from \in Paths /\ file[work.from] # None
  BY <1>1 DEF CryptoInv, CryptoTypes, Copying
<1>3. file[work.from] \in Seq(Blocks)
  BY <1>2 DEF CryptoInv, CryptoTypes
<1> QED
  BY <1>1, <1>2, <1>3, FirstBlock DEF Copying

(* The encryption takes the next block of what it reads.                   *)
LEMMA CopyEncryptKeeps == CryptoInv /\ P!CopyEncrypt => CryptoInv'
<1> SUFFICES ASSUME CryptoInv, P!CopyEncrypt PROVE CryptoInv'
  OBVIOUS
<1> DEFINE m == work.of  v == P!Block  u == P!Chunk(work.of, work.read + 1, v)
<1>1. work # None /\ work.fn = "encrypt" /\ v # None /\ UNCHANGED edits
  BY DEF P!CopyEncrypt, P!Reading, P!Outside
<1>2. ~work.eof
  BY DEF P!CopyEncrypt, P!Reading
<1>3. CASE P!Fail
  BY <1>1, <1>3, CryptoQuiet DEF P!Fail, P!Return
<1>4. CASE work.read + 1 <= MaxPlain /\ P!Copy(u, v)
  <2>1. /\ work \in Copying /\ work.read \in Nat /\ m \in Nat /\ work.staged \in Seq(Blocks) /\ work.from \in Paths
        /\ file[work.from] \in Seq(Blocks) /\ Len(file[work.from]) \in Nat \ {0}
    BY <1>1, CopyingIs
  <2>2. /\ Known(m) /\ Len(Plain(m)) = work.read /\ Begun(work.staged, m) /\ Len(work.staged) = work.read + 1
        /\ \A i \in 1..Len(file[work.from]) : file[work.from][i] \in Values
    BY <1>1, <1>2 DEF CryptoInv, Encrypting
  <2>3. v \in Values
    BY <1>1, <2>1, <2>2 DEF P!Block
  <2>4. u \in Chunks /\ u \in Blocks
    BY <2>1, <2>3 DEF P!Chunk, Chunks, Blocks
  <2>5. /\ work' = [work EXCEPT !.read = work.read + 1, !.staged = Append(work.staged, u)]
        /\ made' = [made EXCEPT ![m] = [made[m] EXCEPT !.plain = Append(made[m].plain, v)]]
        /\ UNCHANGED <<file, calls, released, published>>
    BY <1>1, <1>4, <2>1 DEF P!Copy, Copying
  <2> HIDE DEF u, v
  <2>6. Append(work.staged, u) \in Seq(Blocks)
    BY <2>1, <2>4
  <2>x. PICK r \in Nat : r = work.read + 1
    BY <2>1
  <2>y. PICK s \in Seq(Blocks) : s = Append(work.staged, u)
    BY <2>6
  <2>w. r = work.read + 1 /\ s = Append(work.staged, u) /\ work' = [work EXCEPT !.read = r, !.staged = s]
    BY <2>5, <2>x, <2>y
  <2>v. /\ work' \in Copying /\ work'.fn = work.fn /\ work'.from = work.from /\ work'.of = work.of /\ work'.out = work.out
        /\ work'.read = r /\ work'.staged = s /\ (work'.eof <=> work.eof)
    BY <2>1, <2>w, WorkReads
  <2>7. /\ work' \in Copying /\ work'.fn = "encrypt" /\ work'.from = work.from /\ work'.of = m
        /\ work'.read = work.read + 1 /\ work'.staged = Append(work.staged, u)
    BY <1>1, <2>w, <2>v
  <2>8. ~work'.eof
    BY <1>2, <2>v
  <2>9. made \in Seq(Encryptions \union {None}) /\ made[m] \in Encryptions /\ m \in 1..Len(made)
    BY <2>2 DEF CryptoInv, CryptoTypes, Known
  <2>e. PICK e : e = [made[m] EXCEPT !.plain = Append(made[m].plain, v)]
    OBVIOUS
  <2>10. e \in Encryptions /\ e.plain = Append(made[m].plain, v) /\ e.key = made[m].key
    <3>1. made[m].plain \in Seq(Values) /\ Append(made[m].plain, v) \in Seq(Values)
      BY <2>3, <2>9 DEF Encryptions
    <3> QED
      BY <2>9, <2>e, <3>1 DEF Encryptions
  <2>11. /\ made' \in Seq(Encryptions \union {None}) /\ Len(made') = Len(made) /\ made'[m] \in Encryptions
         /\ made'[m].plain = Append(made[m].plain, v) /\ made'[m].key = made[m].key
         /\ \A n \in 1..Len(made) : n # m => made'[n] = made[n]
    <3>1. made' = [made EXCEPT ![m] = e]
      BY <2>5, <2>e
    <3>2. made' \in Seq(Encryptions \union {None}) /\ Len(made') = Len(made) /\ made'[m] = e
      BY <2>9, <2>10, <3>1
    <3>3. \A n \in 1..Len(made) : n # m => made'[n] = made[n]
      BY <2>9, <3>1
    <3> QED
      BY <2>10, <3>2, <3>3
  <2>12. \A n : Closed(n) => Closed(n)' /\ made'[n] = made[n]
    BY <1>1, <2>7, <2>11 DEF Closed, Known
  <2>13. CryptoTypes'
    BY <1>1, <2>5, <2>7, <2>11 DEF CryptoInv, CryptoTypes
  <2>14. Encrypting'
    <3>1. Known(work.of)'
      BY <2>7, <2>9, <2>11, EncryptionsAre DEF Known
    <3>2. made[m].plain \in Seq(Values) /\ Len(made[m].plain) = work.read
      BY <2>2, <2>9 DEF Encryptions, Plain
    <3>3. /\ Len(made'[m].plain) = work.read + 1 /\ made'[m].plain[work.read + 1] = v
          /\ \A i \in 1..work.read : made'[m].plain[i] = made[m].plain[i]
      BY <2>3, <2>11, <3>2
    <3>4. /\ Len(work'.staged) = work.read + 2 /\ work'.staged[work.read + 2] = u
          /\ \A i \in 1..(work.read + 1) : work'.staged[i] = work.staged[i]
      BY <2>1, <2>2, <2>4, <2>7
    <3>5. work'.staged[1] = P!Header(made'[m].key, m)
      BY <2>1, <2>2, <2>11, <3>4 DEF Begun
    <3>6. ASSUME NEW i \in 1..(work.read + 1) PROVE work'.staged[i + 1] = P!Chunk(m, i, made'[m].plain[i])
      <4>1. CASE i = work.read + 1
        BY <2>1, <3>3, <3>4, <4>1 DEF u
      <4>2. CASE i # work.read + 1
        <5>1. i \in 1..work.read /\ i + 1 \in 1..(work.read + 1)
          BY <2>1, <4>2
        <5> QED
          BY <2>2, <3>2, <3>3, <3>4, <5>1 DEF Begun, Plain
      <4> QED
        BY <4>1, <4>2
    <3>7. Begun(work.staged, work.of)'
      BY <2>7, <3>3, <3>5, <3>6 DEF Begun, Plain
    <3>8. Len(Plain(work.of))' = work'.read /\ work'.read <= MaxPlain /\ Len(work'.staged) = work'.read + 1
      BY <1>4, <2>1, <2>7, <3>3, <3>4 DEF Plain
    <3>9. \A i \in 1..Len(file'[work'.from]) : file'[work'.from][i] \in Values
      BY <2>2, <2>5, <2>7
    <3> QED
      BY <2>8, <3>1, <3>7, <3>8, <3>9 DEF Encrypting
  <2>15. Decrypting' /\ Generating'
    BY <2>7 DEF Decrypting, Generating
  <2> QED
    BY <1>1, <2>5, <2>12, <2>13, <2>14, <2>15, FilesStay DEF CryptoInv
<1>5. work.read \in Nat /\ P!Limit = MaxPlain
  BY <1>1, CopyingIs DEF P!Limit
<1> QED
  BY <1>3, <1>4, <1>5, SizesAre DEF P!CopyEncrypt

(* The end of what an encryption reads: the last chunk is written.         *)
LEMMA FinishEncryptKeeps == CryptoInv /\ P!FinishEncrypt => CryptoInv'
<1> SUFFICES ASSUME CryptoInv, P!FinishEncrypt PROVE CryptoInv'
  OBVIOUS
<1> DEFINE m == work.of  u == P!Chunk(work.of, work.read + 1, End)
<1>1. work # None /\ work.fn = "encrypt" /\ P!Block = None /\ UNCHANGED <<file, calls, made, released, published, edits>>
  BY DEF P!FinishEncrypt, P!Reading, P!Outside
<1>2. ~work.eof
  BY DEF P!FinishEncrypt, P!Reading
<1>3. /\ work \in Copying /\ work.read \in Nat /\ m \in Nat /\ work.staged \in Seq(Blocks) /\ work.from \in Paths
      /\ file[work.from] \in Seq(Blocks) /\ Len(file[work.from]) \in Nat \ {0}
  BY <1>1, CopyingIs
<1>4. /\ Known(m) /\ Len(Plain(m)) = work.read /\ work.read <= MaxPlain /\ Begun(work.staged, m)
      /\ Len(work.staged) = work.read + 1
      /\ \A i \in 1..Len(file[work.from]) : file[work.from][i] \in Values
  BY <1>1, <1>2 DEF CryptoInv, Encrypting
<1>5. work.read # 0
  <2> SUFFICES ASSUME work.read = 0 PROVE FALSE
    OBVIOUS
  <2>1. work.read + 1 \in 1..Len(file[work.from]) /\ work.read < Len(file[work.from])
    BY <1>3
  <2>2. P!Block \in Values
    BY <1>4, <2>1 DEF P!Block
  <2> QED
    BY <1>1, <2>2, EncryptionsAre
<1>6. u \in Blocks
  BY <1>3 DEF P!Chunk, Chunks, Blocks
<1> HIDE DEF u
<1>7. PICK s \in Seq(Blocks) : s = Append(work.staged, u)
  <2>1. Append(work.staged, u) \in Seq(Blocks)
    BY <1>3, <1>6
  <2> QED
    BY <2>1
<1>8. work' = [work EXCEPT !.eof = TRUE, !.staged = s]
  BY <1>7 DEF P!FinishEncrypt, P!Finish, u
<1>9. /\ work' \in Copying /\ work'.fn = work.fn /\ work'.from = work.from /\ work'.of = work.of /\ work'.out = work.out
      /\ work'.read = work.read /\ work'.staged = s /\ work'.eof
  BY <1>3, <1>8, WorkEnds
<1>10. /\ Len(s) = work.read + 2 /\ s[work.read + 2] = u
       /\ \A i \in 1..(work.read + 1) : s[i] = work.staged[i]
  BY <1>3, <1>4, <1>6, <1>7
<1>11. Begun(s, m)
  <2>1. s[1] = P!Header(made[m].key, m)
    BY <1>3, <1>4, <1>10 DEF Begun
  <2>2. ASSUME NEW i \in 1..Len(Plain(m)) PROVE s[i + 1] = P!Chunk(m, i, Plain(m)[i])
    <3>1. i + 1 \in 1..(work.read + 1)
      BY <1>3, <1>4
    <3> QED
      BY <1>4, <1>10, <3>1 DEF Begun
  <2> QED
    BY <2>1, <2>2 DEF Begun
<1>12. Ended(s, m)
  BY <1>4, <1>10 DEF Ended, u
<1>13. Begun(s, work.of)' /\ Ended(s, work.of)' /\ Known(work.of)'
  BY <1>1, <1>4, <1>9, <1>11, <1>12 DEF Known, Begun, Ended, Plain
<1>14. Encrypting'
  <2>1. Known(work.of)' /\ Len(Plain(work.of))' = work'.read /\ work'.read <= MaxPlain /\ work'.read # 0
    BY <1>1, <1>4, <1>5, <1>9, <1>13 DEF Known, Plain
  <2>2. Begun(work.staged, work.of)' /\ Ended(work.staged, work.of)'
    BY <1>9, <1>13 DEF Begun, Ended, Plain
  <2>3. \A i \in 1..Len(file'[work'.from]) : file'[work'.from][i] \in Values
    BY <1>1, <1>4, <1>9
  <2> QED
    BY <1>9, <2>1, <2>2, <2>3 DEF Encrypting
<1>15. Decrypting' /\ Generating'
  BY <1>1, <1>9 DEF Decrypting, Generating
<1>16. CryptoTypes'
  BY <1>1, <1>9 DEF CryptoInv, CryptoTypes
<1>17. \A n : Closed(n) => Closed(n)' /\ made'[n] = made[n]
  BY <1>1, <1>9 DEF Closed, Known
<1> QED
  BY <1>1, <1>14, <1>15, <1>16, <1>17, FilesStay DEF CryptoInv

(* What a chunk at the place that is due says: the next of what the        *)
(* encryption read, or that this is all of it.                             *)
LEMMA AuthenticIs ==
  ASSUME CryptoInv, work # None, work.fn = "decrypt", P!Block # None, NEW v \in Values \union {End}, P!Authentic(P!Block, v)
  PROVE  IF v = End THEN work.read = Len(Plain(work.of)) + 1 /\ work.read # 1
         ELSE work.read \in 1..Len(Plain(work.of)) /\ Plain(work.of)[work.read] = v
<1>1. /\ work.read \in Nat /\ work.of \in Nat /\ work.from \in Paths
      /\ file[work.from] # None /\ Len(file[work.from]) \in Nat
  BY CopyingIs DEF CryptoInv, CryptoTypes
<1> DEFINE u == P!Chunk(work.of, work.read, v)
<1>2. u \in Chunks /\ u.of = work.of /\ u.place = work.read /\ u.block = v
  BY <1>1 DEF P!Chunk, Chunks
<1>3. work.read + 1 \in 1..Len(file[work.from]) /\ file[work.from][work.read + 1] = u
  BY <1>1 DEF P!Block, P!Authentic
<1> HIDE DEF u
<1>4. Genuine(u)
  BY <1>1, <1>3 DEF CryptoInv, Stored
<1> QED
  BY <1>2, <1>4 DEF Genuine

(* What is decrypted so far is what the encryption read so far.            *)
LEMMA CopyDecryptKeeps == CryptoInv /\ P!CopyDecrypt => CryptoInv'
<1> SUFFICES ASSUME CryptoInv, P!CopyDecrypt PROVE CryptoInv'
  OBVIOUS
<1> DEFINE m == work.of
<1>1. work # None /\ work.fn = "decrypt" /\ UNCHANGED edits
  BY DEF P!CopyDecrypt, P!Reading, P!Outside
<1>2. ~work.eof
  BY DEF P!CopyDecrypt, P!Reading
<1>3. /\ work \in Copying /\ work.read \in Nat /\ m \in Nat /\ work.staged \in Seq(Blocks) /\ work.from \in Paths
  BY <1>1, CopyingIs
<1>4. /\ Known(m) /\ work.read # 0 /\ Len(work.staged) = work.read - 1 /\ work.read - 1 <= Len(Plain(m))
      /\ \A i \in 1..(work.read - 1) : work.staged[i] = Plain(m)[i]
  BY <1>1 DEF CryptoInv, Decrypting
<1>5. CASE P!Fail
  BY <1>1, <1>5, CryptoQuiet DEF P!Fail, P!Return
<1>6. ASSUME UNCHANGED <<file, calls, made, released, published>>, work' \in Copying, work'.fn = work.fn,
             work'.from = work.from, work'.of = work.of, Decrypting'
      PROVE  CryptoInv'
  <2>1. \A n : Closed(n) => Closed(n)' /\ made'[n] = made[n]
    BY <1>1, <1>6 DEF Closed, Known
  <2>2. CryptoTypes'
    BY <1>1, <1>6 DEF CryptoInv, CryptoTypes
  <2>3. Encrypting' /\ Generating'
    BY <1>1, <1>6 DEF Encrypting, Generating
  <2> QED
    BY <1>1, <1>6, <2>1, <2>2, <2>3, FilesStay DEF CryptoInv
<1>7. CASE P!AuthenticEnd /\ work' = [work EXCEPT !.eof = TRUE] /\ UNCHANGED <<file, calls, made, released, published>>
  <2>1. work.read = Len(Plain(m)) + 1 /\ work.read # 1
    BY <1>1, <1>7, AuthenticIs DEF P!AuthenticEnd
  <2>2. /\ work' \in Copying /\ work'.fn = work.fn /\ work'.from = work.from /\ work'.of = m
        /\ work'.read = work.read /\ work'.staged = work.staged
    BY <1>3, <1>7 DEF Copying
  <2>3. Known(work.of)' /\ Plain(work.of)' = Plain(m)
    BY <1>4, <1>7, <2>2 DEF Known, Plain
  <2>4. work.read - 1 = Len(Plain(m))
    BY <1>3, <1>4, <2>1
  <2>5. Decrypting'
    BY <1>4, <2>1, <2>2, <2>3, <2>4 DEF Decrypting
  <2> QED
    BY <1>6, <1>7, <2>2, <2>5
<1>8. ASSUME NEW v \in Values, P!Block # None, P!Authentic(P!Block, v), P!Copy(v, v)
      PROVE  CryptoInv'
  <2>1. work.read \in 1..Len(Plain(m)) /\ Plain(m)[work.read] = v
    BY <1>1, <1>8, AuthenticIs, ProgramConstants DEF P!PrivateConstants
  <2>2. UNCHANGED <<file, calls, made, released, published>>
    BY <1>1, <1>8 DEF P!Copy
  <2>3. PICK s \in Seq(Blocks) : s = Append(work.staged, v)
    <3>1. v \in Blocks
      BY DEF Blocks
    <3>2. Append(work.staged, v) \in Seq(Blocks)
      BY <1>3, <3>1
    <3> QED
      BY <3>2
  <2>4. PICK r \in Nat : r = work.read + 1
    BY <1>3
  <2>5. work' = [work EXCEPT !.read = r, !.staged = s]
    <3>1. work' = [work EXCEPT !.read = work.read + 1, !.staged = Append(work.staged, v)]
      BY <1>3, <1>8 DEF P!Copy, Copying
    <3> QED
      BY <2>3, <2>4, <3>1
  <2>6. /\ work' \in Copying /\ work'.fn = work.fn /\ work'.from = work.from /\ work'.of = work.of /\ work'.out = work.out
        /\ work'.read = r /\ work'.staged = s /\ (work'.eof <=> work.eof)
    BY <1>3, <2>5, WorkReads
  <2>7. Known(work.of)' /\ Plain(work.of)' = Plain(m)
    BY <1>4, <2>2, <2>6 DEF Known, Plain
  <2>8. Len(s) = r - 1 /\ r # 0 /\ r - 1 <= Len(Plain(m))
    <3>1. Len(s) = Len(work.staged) + 1
      BY <1>3, <2>3
    <3> QED
      BY <1>3, <1>4, <2>1, <2>4, <3>1
  <2>9. \A i \in 1..(r - 1) : s[i] = Plain(m)[i]
    <3> SUFFICES ASSUME NEW i \in 1..(r - 1) PROVE s[i] = Plain(m)[i]
      OBVIOUS
    <3>1. CASE i = work.read
      BY <1>3, <1>4, <2>1, <2>3, <3>1
    <3>2. CASE i # work.read
      <4>1. i \in 1..(work.read - 1)
        BY <1>3, <2>4, <3>2
      <4>2. s[i] = work.staged[i]
        BY <1>3, <1>4, <2>3, <4>1
      <4> QED
        BY <1>4, <4>1, <4>2
    <3> QED
      BY <3>1, <3>2
  <2>10. Decrypting'
    <3>1. ~work'.eof
      BY <1>2, <2>6
    <3> QED
      BY <2>6, <2>7, <2>8, <2>9, <3>1 DEF Decrypting
  <2> QED
    BY <1>6, <2>2, <2>6, <2>10
<1> QED
  BY <1>5, <1>7, <1>8 DEF P!CopyDecrypt

LEMMA SameBlocks ==
  ASSUME NEW S, NEW s \in Seq(S), NEW T, NEW t \in Seq(T), Len(s) = Len(t), \A i \in 1..Len(s) : s[i] = t[i]
  PROVE  s = t
<1>1. s \in [1..Len(s) -> S] /\ t \in [1..Len(s) -> T]
  OBVIOUS
<1> QED
  BY <1>1

LEMMA SecretIs ==
  \A k \in Nat : /\ P!Secret(k) # None /\ P!Secret(k) \in Seq(Blocks) /\ P!Secret(k) # << >> /\ Len(P!Secret(k)) = 1
                 /\ P!Secret(k)[1] = [secret |-> k]
<1> SUFFICES ASSUME NEW k \in Nat
             PROVE  /\ P!Secret(k) # None /\ P!Secret(k) \in Seq(Blocks) /\ P!Secret(k) # << >> /\ Len(P!Secret(k)) = 1
                    /\ P!Secret(k)[1] = [secret |-> k]
  OBVIOUS
<1>1. [secret |-> k] \in [secret : Nat] /\ [secret |-> k] \in Blocks
  BY BlocksDiffer
<1>2. P!Secret(k) \in [1..1 -> [secret : Nat]]
  BY <1>1 DEF P!Secret
<1>3. P!Secret(k) # None
  BY <1>2, ProgramConstants DEF P!PrivateConstants
<1> QED
  BY <1>1, <1>3 DEF P!Secret

(* A file is created where there was none.                                 *)
LEMMA FileAdded ==
  ASSUME CryptoInv, NEW x \in Paths, file[x] = None, NEW s \in Seq(Blocks), s # << >>, file' = [file EXCEPT ![x] = s],
         \A n : Closed(n) => Closed(n)' /\ made'[n] = made[n], edits' = edits, published' \subseteq Nat,
         \A i \in 1..Len(s) : Genuine(s[i])',
         s[1] \in Headers => Begun(s, s[1].of)' /\ Ended(s, s[1].of)',
         \A k \in published' \ published : edits = 0 => \E n \in Paths : file[n] = P!Secret(k)
  PROVE  /\ file' \in [Paths -> {None} \union Seq(Blocks)]
         /\ \A n \in Paths : file'[n] # None => file'[n] \in Seq(Blocks) /\ file'[n] # << >>
         /\ \A n \in Paths : file[n] # None => file'[n] = file[n]
         /\ Stored' /\ Usable'
<1>1. /\ file \in [Paths -> {None} \union Seq(Blocks)]
      /\ \A n \in Paths : file[n] # None => file[n] \in Seq(Blocks) /\ file[n] # << >>
  BY DEF CryptoInv, CryptoTypes
<1>2. file' \in [Paths -> {None} \union Seq(Blocks)] /\ file'[x] = s /\ \A n \in Paths : n # x => file'[n] = file[n]
  BY <1>1
<1>3. Stored'
  <2> SUFFICES ASSUME NEW n \in Paths, file'[n] # None, NEW i \in 1..Len(file'[n]) PROVE Genuine(file[n][i])'
    BY DEF Stored
  <2>1. CASE n = x
    BY <1>2, <2>1 DEF Genuine
  <2>2. CASE n # x
    <3>1. PICK u : u = file[n][i]
      OBVIOUS
    <3>2. file'[n] = file[n] /\ Genuine(u)
      BY <1>2, <2>2, <3>1 DEF CryptoInv, Stored
    <3>3. Genuine(u)'
      BY <3>2, GenuineStays
    <3> QED
      BY <3>1, <3>2, <3>3 DEF Genuine
  <2> QED
    BY <2>1, <2>2
<1>4. Usable'
  <2> SUFFICES ASSUME edits = 0
               PROVE  /\ \A n \in Paths : file'[n] # None /\ file'[n][1] \in Headers =>
                           Begun(file[n], file[n][1].of)' /\ Ended(file[n], file[n][1].of)'
                      /\ \A k \in published' : \E n \in Paths : file'[n] = P!Secret(k)
    BY DEF Usable
  <2>1. ASSUME NEW n \in Paths, file'[n] # None, file'[n][1] \in Headers
        PROVE  Begun(file[n], file[n][1].of)' /\ Ended(file[n], file[n][1].of)'
    <3>1. CASE n = x
      BY <1>2, <2>1, <3>1 DEF Begun, Ended, Plain
    <3>2. CASE n # x
      <4>1. file'[n] = file[n]
        BY <1>2, <3>2
      <4>2. Begun(file[n], file[n][1].of) /\ Ended(file[n], file[n][1].of) /\ Closed(file[n][1].of)
        BY <2>1, <4>1, FirstBlock DEF CryptoInv, Usable
      <4> QED
        BY <4>1, <4>2 DEF Begun, Ended, Plain
    <3> QED
      BY <3>1, <3>2
  <2>2. ASSUME NEW k \in published' PROVE \E n \in Paths : file'[n] = P!Secret(k)
    <3>1. PICK n \in Paths : file[n] = P!Secret(k)
      BY <2>2 DEF CryptoInv, Usable
    <3>2. n # x
      BY <2>2, <3>1, SecretIs
    <3> QED
      BY <1>2, <3>1, <3>2
  <2> QED
    BY <2>1, <2>2
<1> QED
  BY <1>1, <1>2, <1>3, <1>4

(* A whole encryption that is over is genuine, block by block.             *)
LEMMA WholeIsGenuine ==
  ASSUME NEW s, NEW n \in Nat, Begun(s, n)', Ended(s, n)', Closed(n)', Plain(n)' \in Seq(Values), Len(Plain(n)') # 0
  PROVE  \A i \in 1..Len(s) : Genuine(s[i])'
<1> DEFINE p == Plain(n)'
<1>1. p \in Seq(Values) /\ Len(p) \in Nat \ {0} /\ Len(s) = Len(p) + 2
  BY DEF Ended
<1> SUFFICES ASSUME NEW i \in 1..Len(s) PROVE Genuine(s[i])'
  OBVIOUS
<1>2. CASE i = 1
  <2>1. s[i] = P!Header(made'[n].key, n)
    BY <1>2 DEF Begun
  <2>2. s[i] \notin Chunks /\ s[i].of = n
    BY <2>1 DEF P!Header, Chunks
  <2> QED
    BY <2>2 DEF Genuine
<1>3. CASE i = Len(p) + 2
  <2>1. s[i] = P!Chunk(n, Len(p) + 1, End)
    BY <1>3 DEF Ended
  <2>2. s[i].of = n /\ s[i].place = Len(p) + 1 /\ s[i].block = End
    BY <2>1 DEF P!Chunk
  <2> QED
    BY <1>1, <2>2 DEF Genuine
<1>4. CASE i \in 2..(Len(p) + 1)
  <2>1. PICK j \in 1..Len(p) : i = j + 1
    BY <1>1, <1>4
  <2>2. s[i] = P!Chunk(n, j, p[j]) /\ p[j] \in Values
    BY <1>1, <2>1 DEF Begun
  <2>3. s[i].of = n /\ s[i].place = j /\ s[i].block = p[j]
    BY <2>2 DEF P!Chunk
  <2>4. p[j] # End
    BY <2>2, ProgramConstants DEF P!PrivateConstants
  <2> QED
    BY <2>3, <2>4 DEF Genuine
<1> QED
  BY <1>1, <1>2, <1>3, <1>4

LEMMA NothingInProgress == work' = None => Encrypting' /\ Decrypting' /\ Generating'
BY DEF Encrypting, Decrypting, Generating

(* The operation's staging file gets its name, or the plaintext is shown.  *)
LEMMA PublishKeeps == CryptoInv /\ P!Publish => CryptoInv'
<1> SUFFICES ASSUME CryptoInv, P!Publish PROVE CryptoInv'
  OBVIOUS
<1> PICK m : m = work.of
  OBVIOUS
<1>1. /\ work # None /\ work.fn \in {"encrypt", "decrypt"} /\ work' = None /\ UNCHANGED <<calls, made, published, edits>>
      /\ released' = IF work.fn = "decrypt" THEN released \union {<<m, work.staged>>} ELSE released
  BY DEF P!Publish, P!Return, P!Outside
<1>2. work.eof
  BY DEF P!Publish
<1>3. work \in Copying /\ work.read \in Nat /\ m \in Nat /\ work.staged \in Seq(Blocks)
  BY <1>1, CopyingIs
<1>4. Known(m)
  BY <1>1 DEF CryptoInv, Encrypting, Decrypting
<1>5. Closed(m)' /\ \A n : Closed(n) => Closed(n)' /\ made'[n] = made[n]
  BY <1>1, <1>4 DEF Closed, Known
<1>6. Plain(m) \in Seq(Values) /\ Plain(m)' = Plain(m)
  <2>1. made[m] \in Encryptions
    BY <1>4 DEF CryptoInv, CryptoTypes, Known
  <2> QED
    BY <1>1, <2>1 DEF Encryptions, Plain
<1>7. ASSUME work.fn = "decrypt" PROVE work.staged = Plain(m) /\ Len(Plain(m)) # 0
  <2>1. /\ Len(work.staged) = work.read - 1 /\ work.read - 1 = Len(Plain(m)) /\ work.read # 1
        /\ \A i \in 1..(work.read - 1) : work.staged[i] = Plain(m)[i]
    BY <1>1, <1>2, <1>7 DEF CryptoInv, Decrypting
  <2>2. Len(work.staged) = Len(Plain(m)) /\ \A i \in 1..Len(work.staged) : work.staged[i] = Plain(m)[i]
    BY <2>1
  <2>3. work.staged = Plain(m)
    BY <1>3, <1>6, <2>2, SameBlocks
  <2> QED
    BY <1>3, <2>1, <2>3
<1>8. ASSUME work.fn = "encrypt"
      PROVE  Begun(work.staged, m) /\ Ended(work.staged, m) /\ Len(Plain(m)) # 0
  <2>1. Begun(work.staged, m) /\ Ended(work.staged, m) /\ work.read # 0 /\ Len(Plain(m)) = work.read
    BY <1>1, <1>2, <1>8 DEF CryptoInv, Encrypting
  <2> QED
    BY <2>1
<1>9. Released'
  <2> SUFFICES ASSUME NEW r \in released' PROVE Closed(r[1])' /\ r[2] = Plain(r[1])'
    BY DEF Released
  <2>1. CASE r \in released
    BY <1>5, <2>1 DEF CryptoInv, Released, Plain
  <2>2. CASE work.fn = "decrypt" /\ r = <<m, work.staged>>
    BY <1>5, <1>6, <1>7, <2>2
  <2> QED
    BY <1>1, <2>1, <2>2
<1>10. CASE UNCHANGED file
  <2>1. CryptoTypes'
    BY <1>1, <1>10 DEF CryptoInv, CryptoTypes
  <2> QED
    BY <1>1, <1>5, <1>9, <1>10, <2>1, FilesStay, NothingInProgress DEF CryptoInv
<1>11. CASE work.out # None /\ P!Persist(work.out, work.staged)
  <2>1. PICK x \in Paths, s \in Seq(Blocks) : x = work.out /\ s = work.staged
    BY <1>3, <1>11 DEF Copying
  <2>2. file[x] = None /\ file' = [file EXCEPT ![x] = s]
    BY <1>11, <2>1 DEF P!Persist
  <2>3. s # << >> /\ \A i \in 1..Len(s) : Genuine(s[i])'
    <3>1. CASE work.fn = "decrypt"
      <4>1. s \in Seq(Values) /\ Len(s) # 0
        BY <1>6, <1>7, <2>1, <3>1
      <4>2. \A i \in 1..Len(s) : s[i] \in Values
        BY <4>1
      <4> QED
        BY <4>1, <4>2, BlocksDiffer DEF Genuine
    <3>2. CASE work.fn = "encrypt"
      <4>1. Begun(s, m)' /\ Ended(s, m)' /\ Plain(m)' \in Seq(Values) /\ Len(Plain(m)') # 0
        BY <1>1, <1>6, <1>8, <2>1, <3>2 DEF Begun, Ended, Plain
      <4>2. \A i \in 1..Len(s) : Genuine(s[i])'
        BY <1>3, <1>5, <4>1, WholeIsGenuine
      <4>3. Len(s) = Len(Plain(m)) + 2 /\ Len(Plain(m)) \in Nat
        BY <1>6, <1>8, <2>1, <3>2 DEF Ended
      <4> QED
        BY <4>2, <4>3
    <3> QED
      BY <1>1, <3>1, <3>2
  <2>4. s[1] \in Headers => Begun(s, s[1].of)' /\ Ended(s, s[1].of)'
    <3>1. CASE work.fn = "decrypt"
      <4>1. s \in Seq(Values) /\ Len(s) # 0
        BY <1>6, <1>7, <2>1, <3>1
      <4>2. s[1] \in Values
        BY <4>1
      <4> QED
        BY <4>2, BlocksDiffer
    <3>2. CASE work.fn = "encrypt"
      <4>1. Begun(s, m) /\ Ended(s, m)
        BY <1>8, <2>1, <3>2
      <4>2. s[1].of = m
        BY <4>1 DEF Begun, P!Header
      <4> QED
        BY <1>1, <4>1, <4>2 DEF Begun, Ended, Plain
    <3> QED
      BY <1>1, <3>1, <3>2
  <2>5. published' \subseteq Nat /\ published' = published
    BY <1>1 DEF CryptoInv, CryptoTypes
  <2>6. /\ file' \in [Paths -> {None} \union Seq(Blocks)]
        /\ \A n \in Paths : file'[n] # None => file'[n] \in Seq(Blocks) /\ file'[n] # << >>
        /\ Stored' /\ Usable'
    BY <1>1, <1>5, <2>2, <2>3, <2>4, <2>5, FileAdded
  <2>7. CryptoTypes'
    BY <1>1, <2>5, <2>6 DEF CryptoInv, CryptoTypes
  <2> QED
    BY <1>1, <1>9, <2>6, <2>7, NothingInProgress DEF CryptoInv
<1> QED
  BY <1>10, <1>11 DEF P!Publish

(* The private key is saved, or there was a file already.                  *)
LEMMA KeygenKeeps ==
  ASSUME CryptoInv, NEW n \in Paths, NEW out \in Paths \union {None}, P!Keygen(n, out)
  PROVE  CryptoInv'
<1>1. work = None /\ made' = Append(made, None) /\ calls' = calls + 1 /\ UNCHANGED <<released, published, edits>>
  BY DEF P!Keygen, P!Calling, P!Begin, P!Outside
<1>2. calls \in Nat
  BY DEF CryptoInv, CryptoTypes
<1>3. CASE file[n] # None
  <2>1. UNCHANGED <<file, work>>
    BY <1>3 DEF P!Keygen
  <2>2. /\ made' \in Seq(Encryptions \union {None}) /\ calls' = Len(made')
        /\ \A i : Closed(i) => Closed(i)' /\ made'[i] = made[i]
    BY <1>1, <2>1, MadeMore
  <2>3. CryptoTypes'
    BY <1>1, <2>1, <2>2 DEF CryptoInv, CryptoTypes
  <2> QED
    BY <1>1, <2>1, <2>2, <2>3, FilesStay, NothingInProgress DEF CryptoInv
<1>4. CASE file[n] = None
  <2> DEFINE w == [fn |-> "keygen", from |-> n, out |-> out, of |-> calls + 1]
  <2>1. file' = [file EXCEPT ![n] = P!Secret(calls + 1)] /\ work' = w
    BY <1>4 DEF P!Keygen, P!Begin
  <2>2. w \in Generated /\ w.of = calls + 1 /\ w.fn = "keygen" /\ w.from = n
    BY <1>2 DEF Generated
  <2> HIDE DEF w
  <2>3. /\ made' \in Seq(Encryptions \union {None}) /\ calls' = Len(made')
        /\ \A i : Closed(i) => Closed(i)' /\ made'[i] = made[i]
    BY <1>1, <2>1, <2>2, MadeMore
  <2>4. PICK s \in Seq(Blocks) : s = P!Secret(calls + 1) /\ s # << >> /\ s # None /\ Len(s) = 1 /\ s[1] = [secret |-> calls + 1]
    BY <1>2, SecretIs
  <2>5. s[1] \notin Headers \union Chunks
    BY <1>2, <2>4, BlocksDiffer
  <2>6. \A i \in 1..Len(s) : Genuine(s[i])'
    BY <2>4, <2>5 DEF Genuine
  <2>7. published' \subseteq Nat
    BY <1>1 DEF CryptoInv, CryptoTypes
  <2>8. file' = [file EXCEPT ![n] = s]
    BY <2>1, <2>4
  <2>9. /\ file' \in [Paths -> {None} \union Seq(Blocks)]
        /\ \A i \in Paths : file'[i] # None => file'[i] \in Seq(Blocks) /\ file'[i] # << >>
        /\ Stored' /\ Usable'
    BY <1>1, <1>4, <2>3, <2>4, <2>5, <2>6, <2>7, <2>8, FileAdded
  <2>10. file'[n] = s
    BY <2>8 DEF CryptoInv, CryptoTypes
  <2>11. CryptoTypes'
    BY <1>1, <2>1, <2>2, <2>3, <2>4, <2>7, <2>9, <2>10 DEF CryptoInv, CryptoTypes
  <2>12. Encrypting' /\ Decrypting'
    BY <2>1, <2>2 DEF Encrypting, Decrypting
  <2>13. Generating'
    <3>1. P!Secret(work.of)' = P!Secret(calls + 1)
      BY <2>1, <2>2 DEF P!Secret
    <3> QED
      BY <2>1, <2>2, <2>4, <2>10, <3>1 DEF Generating
  <2>14. Released'
    BY <1>1, <2>3 DEF CryptoInv, Released, Plain
  <2> QED
    BY <2>9, <2>11, <2>12, <2>13, <2>14 DEF CryptoInv
<1> QED
  BY <1>3, <1>4

(* The public key is given out, or saved.                                  *)
LEMMA SavePublicKeeps == CryptoInv /\ P!SavePublic => CryptoInv'
<1> SUFFICES ASSUME CryptoInv, P!SavePublic PROVE CryptoInv'
  OBVIOUS
<1>1. work # None /\ work.fn = "keygen" /\ work' = None /\ UNCHANGED <<calls, made, released, edits>>
  BY DEF P!SavePublic, P!Return, P!Outside
<1>2. work \in Generated /\ work.of \in Nat /\ work.from \in Paths /\ work.out \in Paths \union {None}
  BY <1>1 DEF CryptoInv, CryptoTypes, Copying, Generated
<1>3. \A n : Closed(n) => Closed(n)' /\ made'[n] = made[n]
  BY <1>1 DEF Closed, Known
<1>4. edits = 0 => file[work.from] = P!Secret(work.of)
  BY <1>1 DEF CryptoInv, Generating
<1>5. Released'
  BY <1>1, <1>3 DEF CryptoInv, Released, Plain
<1>6. published' \subseteq Nat
  BY <1>2 DEF CryptoInv, CryptoTypes, P!SavePublic
<1>7. \A k \in published' \ published : k = work.of
  BY DEF P!SavePublic
<1>8. CASE UNCHANGED file
  <2>1. CryptoTypes'
    BY <1>1, <1>6, <1>8 DEF CryptoInv, CryptoTypes
  <2>2. Stored'
    BY <1>3, <1>8, GenuineStays DEF CryptoInv, Stored
  <2>3. Usable'
    <3> SUFFICES ASSUME edits = 0
                 PROVE  /\ \A n \in Paths : file[n] # None /\ file[n][1] \in Headers =>
                             Begun(file[n], file[n][1].of)' /\ Ended(file[n], file[n][1].of)'
                        /\ \A k \in published' : \E n \in Paths : file[n] = P!Secret(k)
      BY <1>1, <1>8 DEF Usable
    <3>1. \A n \in Paths : file[n] # None /\ file[n][1] \in Headers =>
            Begun(file[n], file[n][1].of)' /\ Ended(file[n], file[n][1].of)'
      BY <1>1, <1>8 DEF CryptoInv, Usable, Begun, Ended, Plain
    <3>2. \A k \in published : \E n \in Paths : file[n] = P!Secret(k)
      BY DEF CryptoInv, Usable
    <3> QED
      BY <1>2, <1>4, <1>7, <3>1, <3>2
  <2> QED
    BY <1>1, <1>5, <2>1, <2>2, <2>3, NothingInProgress DEF CryptoInv
<1>9. CASE work.out # None /\ file[work.out] = None /\ file' = [file EXCEPT ![work.out] = <<[public |-> work.of]>>]
  <2>1. PICK x \in Paths : x = work.out
    BY <1>2, <1>9
  <2>2. [public |-> work.of] \in Blocks /\ [public |-> work.of] \notin Headers \union Chunks
    BY <1>2, BlocksDiffer
  <2>3. PICK s \in Seq(Blocks) : s = <<[public |-> work.of]>> /\ s # << >> /\ Len(s) = 1 /\ s[1] = [public |-> work.of]
    <3>1. <<[public |-> work.of]>> \in Seq(Blocks)
      BY <2>2
    <3> QED
      BY <3>1
  <2>4. file[x] = None /\ file' = [file EXCEPT ![x] = s]
    BY <1>9, <2>1, <2>3
  <2>5. \A i \in 1..Len(s) : Genuine(s[i])'
    BY <2>2, <2>3 DEF Genuine
  <2>6. s[1] \notin Headers
    BY <2>2, <2>3
  <2>7. \A k \in published' \ published : edits = 0 => \E n \in Paths : file[n] = P!Secret(k)
    BY <1>2, <1>4, <1>7
  <2>8. /\ file' \in [Paths -> {None} \union Seq(Blocks)]
        /\ \A i \in Paths : file'[i] # None => file'[i] \in Seq(Blocks) /\ file'[i] # << >>
        /\ Stored' /\ Usable'
    BY <1>1, <1>3, <1>6, <2>3, <2>4, <2>5, <2>6, <2>7, FileAdded
  <2>9. CryptoTypes'
    BY <1>1, <1>6, <2>8 DEF CryptoInv, CryptoTypes
  <2> QED
    BY <1>1, <1>5, <2>8, <2>9, NothingInProgress DEF CryptoInv
<1> QED
  BY <1>8, <1>9 DEF P!SavePublic

(* What others make of a file is put together from blocks that were there. *)
LEMMA CutIs ==
  ASSUME NEW f \in Seq(Blocks), NEW s \in P!Cut(f)
  PROVE  /\ s \in Seq(Blocks) /\ s # << >>
         /\ \A i \in 1..Len(s) : i \in 1..Len(f) /\ s[i] = f[i]
<1>1. s = SubSeq(f, 1, Len(f) - 1) /\ s # << >> /\ Len(f) \in Nat
  BY DEF P!Cut
<1>2. CASE Len(f) = 0
  BY <1>1, <1>2
<1>3. CASE Len(f) # 0
  <2>1. s \in Seq(Blocks) /\ Len(s) = Len(f) - 1
    BY <1>1, <1>3
  <2>2. \A i \in 1..(Len(f) - 1) : s[i] = f[i]
    BY <1>1, <1>3
  <2> QED
    BY <1>1, <2>1, <2>2
<1> QED
  BY <1>2, <1>3

LEMMA SplicedIs ==
  ASSUME CryptoInv, NEW n \in Paths, file[n] # None, NEW s \in P!Spliced(file[n])
  PROVE  /\ s \in Seq(Blocks) /\ s # << >> /\ Len(s) = Len(file[n])
         /\ \A i \in 1..Len(s) : Genuine(s[i]) /\ (file[n][i] \in Values => s[i] \in Values)
<1>1. file[n] \in Seq(Blocks) /\ file[n] # << >> /\ DOMAIN file[n] = 1..Len(file[n]) /\ Len(file[n]) \in Nat
  BY DEF CryptoInv, CryptoTypes
<1>2. PICK m \in Paths, i \in DOMAIN file[n] : /\ file[m] # None /\ i \in DOMAIN file[m] /\ s = [file[n] EXCEPT ![i] = file[m][i]]
                                             /\ (file[n][i] \in Values <=> file[m][i] \in Values)
  BY DEF P!Spliced
<1>3. file[m] \in Seq(Blocks) /\ i \in 1..Len(file[m])
  BY <1>2 DEF CryptoInv, CryptoTypes
<1>4. PICK u \in Blocks : u = file[m][i] /\ Genuine(u)
  BY <1>2, <1>3 DEF CryptoInv, Stored
<1>5. s \in Seq(Blocks) /\ Len(s) = Len(file[n]) /\ s[i] = u /\ \A j \in 1..Len(s) : j # i => s[j] = file[n][j]
  BY <1>1, <1>2, <1>4
<1>6. s # << >>
  BY <1>1, <1>5
<1>7. ASSUME NEW j \in 1..Len(s) PROVE Genuine(s[j]) /\ (file[n][j] \in Values => s[j] \in Values)
  <2>1. CASE j = i
    BY <1>2, <1>4, <1>5, <2>1
  <2>2. CASE j # i
    BY <1>5, <2>2 DEF CryptoInv, Stored
  <2> QED
    BY <2>1, <2>2
<1> QED
  BY <1>5, <1>6, <1>7

LEMMA DisturbKeeps ==
  ASSUME CryptoInv, NEW n \in Paths, P!Disturb(n)
  PROVE  CryptoInv'
<1>1. /\ UNCHANGED <<work, calls, made, released, published>> /\ edits' = edits + 1
      /\ work # None => work.from # n \/ file'[n] # None
  BY DEF P!Disturb, P!Touch
<1>2. /\ file \in [Paths -> {None} \union Seq(Blocks)] /\ edits' \in Nat /\ edits' # 0
      /\ \A p \in Paths : file[p] # None => file[p] \in Seq(Blocks) /\ file[p] # << >>
  BY <1>1 DEF CryptoInv, CryptoTypes
<1>3. \A p : Closed(p) => Closed(p)' /\ made'[p] = made[p]
  BY <1>1 DEF Closed, Known
<1>4. PICK s : /\ file' = [file EXCEPT ![n] = s]
               /\ s \in IF file[n] = None THEN {<<v>> : v \in Values} ELSE {None} \union P!Cut(file[n]) \union P!Spliced(file[n])
  BY DEF P!Disturb
<1>5. s # None => /\ s \in Seq(Blocks) /\ s # << >> /\ \A i \in 1..Len(s) : Genuine(s[i])
                  /\ file[n] # None /\ (\A i \in 1..Len(file[n]) : file[n][i] \in Values) => \A i \in 1..Len(s) : s[i] \in Values
  <2>1. CASE file[n] = None
    <3>1. PICK v \in Values : s = <<v>>
      BY <1>4, <2>1
    <3>2. v \in Blocks /\ Genuine(v)
      BY BlocksDiffer DEF Genuine
    <3>3. s \in Seq(Blocks) /\ s # << >> /\ Len(s) = 1 /\ s[1] = v
      BY <3>1, <3>2
    <3> QED
      BY <2>1, <3>2, <3>3
  <2>2. CASE file[n] # None /\ s \in P!Cut(file[n])
    <3>1. s \in Seq(Blocks) /\ s # << >> /\ \A i \in 1..Len(s) : i \in 1..Len(file[n]) /\ s[i] = file[n][i]
      BY <1>2, <2>2, CutIs
    <3> QED
      BY <2>2, <3>1 DEF CryptoInv, Stored
  <2>3. CASE file[n] # None /\ s \in P!Spliced(file[n])
    BY <2>3, SplicedIs
  <2> QED
    BY <1>4, <2>1, <2>2, <2>3
<1>6. file' \in [Paths -> {None} \union Seq(Blocks)] /\ file'[n] = s /\ \A p \in Paths : p # n => file'[p] = file[p]
  BY <1>2, <1>4, <1>5
<1>7. CryptoTypes'
  <2>1. \A p \in Paths : file'[p] # None => file'[p] \in Seq(Blocks) /\ file'[p] # << >>
    BY <1>2, <1>5, <1>6
  <2>2. work' # None => file'[work'.from] # None
    BY <1>1, <1>6 DEF CryptoInv, CryptoTypes, Copying, Generated
  <2> QED
    BY <1>1, <1>2, <1>6, <2>1, <2>2 DEF CryptoInv, CryptoTypes
<1>8. Stored'
  <2> SUFFICES ASSUME NEW p \in Paths, file'[p] # None, NEW i \in 1..Len(file'[p]) PROVE Genuine(file[p][i])'
    BY DEF Stored
  <2>1. PICK u : u = file'[p][i]
    OBVIOUS
  <2>2. Genuine(u)
    <3>1. CASE p = n
      BY <1>5, <1>6, <2>1, <3>1
    <3>2. CASE p # n
      BY <1>6, <2>1, <3>2 DEF CryptoInv, Stored
    <3> QED
      BY <3>1, <3>2
  <2>3. Genuine(u)'
    BY <1>3, <2>2, GenuineStays
  <2> QED
    BY <2>1, <2>3 DEF Genuine
<1>9. Encrypting'
  <2> SUFFICES ASSUME work # None, work.fn = "encrypt" PROVE Encrypting'
    BY <1>1 DEF Encrypting
  <2>1. /\ Known(work.of) /\ Len(Plain(work.of)) = work.read /\ work.read <= MaxPlain /\ Begun(work.staged, work.of)
        /\ IF work.eof THEN Ended(work.staged, work.of) /\ work.read # 0 ELSE Len(work.staged) = work.read + 1
    BY DEF CryptoInv, Encrypting
  <2>2. \A i \in 1..Len(file[work.from]) : file[work.from][i] \in Values
    BY DEF CryptoInv, Encrypting
  <2>3. work.from \in Paths /\ file[work.from] # None
    BY CopyingIs DEF CryptoInv, CryptoTypes
  <2>4. \A i \in 1..Len(file'[work.from]) : file'[work.from][i] \in Values
    <3>1. CASE work.from = n
      BY <1>1, <1>5, <1>6, <2>2, <2>3, <3>1
    <3>2. CASE work.from # n
      BY <1>6, <2>2, <2>3, <3>2
    <3> QED
      BY <3>1, <3>2
  <2> QED
    BY <1>1, <2>1, <2>4 DEF Encrypting, Known, Plain, Begun, Ended
<1>10. Decrypting'
  BY <1>1 DEF CryptoInv, Decrypting, Known, Plain
<1>11. Generating' /\ Usable'
  BY <1>2 DEF Generating, Usable
<1>12. Released'
  BY <1>1, <1>3 DEF CryptoInv, Released, Plain
<1> QED
  BY <1>7, <1>8, <1>9, <1>10, <1>11, <1>12 DEF CryptoInv

LEMMA CryptoStep == CryptoInv /\ [P!Next]_private => CryptoInv'
<1> SUFFICES ASSUME CryptoInv, [P!Next]_private PROVE CryptoInv'
  OBVIOUS
<1>1. CASE P!Routing \/ P!Killed
  <2>1. UNCHANGED <<file, work, calls, made, released, published, edits>>
    BY <1>1 DEF P!Routing, P!Route, P!Load, P!RunRead, P!RunCheck, P!RunKeep, P!RunResolve, P!RunValidate, P!Killed,
       P!Kept, P!crypto
  <2> QED
    BY <2>1, CryptoQuiet
<1>2. CASE P!Edit
  BY <1>2, CryptoQuiet DEF P!Edit, P!Touch, P!crypto
<1>3. CASE P!IOError
  BY <1>3, CryptoQuiet DEF P!IOError, P!Fail, P!Return, P!Outside
<1>4. CASE UNCHANGED private
  BY <1>4, CryptoQuiet DEF private
<1> QED
  BY <1>1, <1>2, <1>3, <1>4, EncryptFileKeeps, DecryptFileKeeps, CopyEncryptKeeps, FinishEncryptKeeps, CopyDecryptKeeps,
     PublishKeeps, KeygenKeeps, SavePublicKeeps, DisturbKeeps DEF P!Next, P!Operation

IInvCrypto == what = "private" => CryptoInv
LEMMA CryptoInductive == MCSpec => []IInvCrypto
<1>1. MCInit => IInvCrypto
  BY CryptoInit DEF MCInit, IInvCrypto
<1>2. ASSUME IInvCrypto, [MCNext]_<<what, vars, fetch, private, orbit, bundle>> PROVE IInvCrypto'
  <2>1. CASE what = "private"
    <3>1. what' = what /\ [P!Next]_private
      BY <1>2, <2>1 DEF MCNext
    <3> QED
      BY <1>2, <2>1, <3>1, CryptoStep DEF IInvCrypto
  <2>2. CASE what # "private"
    BY <1>2, <2>2 DEF MCNext, IInvCrypto
  <2> QED
    BY <2>1, <2>2
<1> QED
  BY <1>1, <1>2, PTL DEF MCSpec

LEMMA LastBlock ==
  ASSUME NEW d \in Seq(Blocks), NEW u \in Blocks
  PROVE  (d \o <<u>>)[Len(d) + 1] = u
<1>1. Len(d) \in Nat /\ <<u>> \in Seq(Blocks) /\ Len(<<u>>) = 1 /\ <<u>>[1] = u
  OBVIOUS
<1>2. Len(d) + 1 \in 1..(Len(d) + 1) /\ Len(d) + 1 - Len(d) = 1 /\ ~(Len(d) + 1 <= Len(d))
  BY <1>1
<1>3. (d \o <<u>>)[Len(d) + 1] = <<u>>[Len(d) + 1 - Len(d)]
  BY <1>1, <1>2
<1> QED
  BY <1>1, <1>2, <1>3

(* A file that begins as encryption n does and ends as it does is it.      *)
LEMMA WholeIsEncrypted ==
  ASSUME CryptoInv, NEW s \in Seq(Blocks), NEW n \in Nat, Known(n), Begun(s, n), Ended(s, n)
  PROVE  s = P!Encrypted(n) /\ Len(s) <= MaxCipher
<1> DEFINE p == Plain(n)  h == P!Header(made[n].key, n)  c == [i \in DOMAIN p |-> P!Chunk(n, i, p[i])]
           e == P!Chunk(n, Len(p) + 1, End)
<1>1. made[n] \in Encryptions
  BY DEF CryptoInv, CryptoTypes, Known
<1>2. p \in Seq(Values) /\ Len(p) \in Nat /\ DOMAIN p = 1..Len(p) /\ Len(p) <= MaxPlain
  BY <1>1 DEF Plain, Encryptions, Ended
<1>3. \A i \in 1..Len(p) : p[i] \in Values
  BY <1>2
<1>4. h \in Blocks /\ e \in Blocks /\ \A i \in 1..Len(p) : P!Chunk(n, i, p[i]) \in Blocks
  BY <1>1, <1>2, <1>3 DEF P!Header, P!Chunk, Encryptions, Blocks, Headers, Chunks
<1>5. s[1] = h /\ Len(s) = Len(p) + 2 /\ s[Len(p) + 2] = e /\ \A i \in 1..Len(p) : s[i + 1] = P!Chunk(n, i, p[i])
  BY DEF Begun, Ended
<1>6. P!Encrypted(n) = <<h>> \o c \o <<e>>
  BY DEF P!Encrypted, Plain
<1> HIDE DEF p, h, e
<1>7. c \in Seq(Blocks) /\ Len(c) = Len(p) /\ \A i \in 1..Len(p) : c[i] = P!Chunk(n, i, p[i])
  <2>1. c \in [1..Len(p) -> Blocks]
    BY <1>2, <1>4
  <2> QED
    BY <1>2, <2>1
<1> HIDE DEF c
<1>8. PICK d \in Seq(Blocks) : d = <<h>> \o c /\ Len(d) = Len(p) + 1 /\ d[1] = h /\ \A i \in 1..Len(p) : d[i + 1] = c[i]
  <2>1. <<h>> \in Seq(Blocks) /\ Len(<<h>>) = 1 /\ <<h>>[1] = h
    BY <1>4
  <2>2. <<h>> \o c \in Seq(Blocks) /\ Len(<<h>> \o c) = Len(p) + 1
    BY <1>2, <1>7, <2>1
  <2>3. (<<h>> \o c)[1] = h /\ \A i \in 1..Len(p) : (<<h>> \o c)[i + 1] = c[i]
    BY <1>2, <1>7, <2>1
  <2> QED
    BY <2>2, <2>3
<1>9. PICK t \in Seq(Blocks) : t = d \o <<e>> /\ Len(t) = Len(p) + 2 /\ t[Len(p) + 2] = e /\ \A i \in 1..(Len(p) + 1) : t[i] = d[i]
  <2>1. <<e>> \in Seq(Blocks) /\ Len(<<e>>) = 1 /\ <<e>>[1] = e
    BY <1>4
  <2>2. d \o <<e>> \in Seq(Blocks) /\ Len(d \o <<e>>) = Len(p) + 2
    BY <1>2, <1>8, <2>1
  <2>3. \A i \in 1..(Len(p) + 1) : (d \o <<e>>)[i] = d[i]
    BY <1>2, <1>8, <2>1
  <2>4. (d \o <<e>>)[Len(p) + 2] = e
    <3>1. Len(p) + 2 = Len(d) + 1 /\ e \in Blocks
      BY <1>2, <1>4, <1>8
    <3> QED
      BY <1>8, <3>1, LastBlock
  <2> QED
    BY <2>2, <2>3, <2>4
<1>10. ASSUME NEW i \in 1..Len(s) PROVE s[i] = t[i]
  <2>1. CASE i = 1
    BY <1>2, <1>5, <1>8, <1>9, <2>1
  <2>2. CASE i = Len(p) + 2
    BY <1>5, <1>9, <2>2
  <2>3. CASE i \in 2..(Len(p) + 1)
    <3>1. PICK j \in 1..Len(p) : i = j + 1
      BY <1>2, <2>3
    <3> QED
      BY <1>2, <1>5, <1>7, <1>8, <1>9, <3>1
  <2> QED
    BY <1>2, <1>5, <2>1, <2>2, <2>3
<1>11. s = t
  BY <1>5, <1>9, <1>10, SameBlocks
<1> QED
  BY <1>2, <1>5, <1>6, <1>8, <1>9, <1>11, SizesAre

(* What is decrypted is the whole of what one encryption read, whatever is *)
(* done to the file meanwhile; what is encrypted can be decrypted to all   *)
(* that was read; and a public key is given out when its private key is    *)
(* saved (perform of crypto_cli.rs, call of confidential.rs).              *)
THEOREM EncryptionsAreWhole == MCSpec => []EncryptionIsWhole
<1>1. ASSUME CryptoInv PROVE P!ReleasedIsWhole
  BY <1>1 DEF CryptoInv, Released, Closed, Known, Plain, P!ReleasedIsWhole
<1>2. ASSUME CryptoInv PROVE P!OutputsUsable
  <2> SUFFICES ASSUME edits = 0
               PROVE  /\ \A n \in Paths : file[n] # None /\ P!IsHeader(file[n][1]) =>
                           file[n] = P!Encrypted(file[n][1].of) /\ Len(file[n]) <= MaxCipher
                      /\ \A k \in published : \E n \in Paths : file[n] = P!Secret(k)
    BY DEF P!OutputsUsable
  <2>1. ASSUME NEW n \in Paths, file[n] # None, P!IsHeader(file[n][1])
        PROVE  file[n] = P!Encrypted(file[n][1].of) /\ Len(file[n]) <= MaxCipher
    <3>1. file[n] \in Seq(Blocks) /\ file[n][1] \in Headers /\ file[n][1].of \in Nat /\ Known(file[n][1].of)
      BY <1>2, <2>1, FirstBlock, BlocksDiffer DEF CryptoInv, CryptoTypes, Closed
    <3>2. Begun(file[n], file[n][1].of) /\ Ended(file[n], file[n][1].of)
      BY <1>2, <2>1, <3>1 DEF CryptoInv, Usable
    <3> QED
      BY <1>2, <3>1, <3>2, WholeIsEncrypted
  <2> QED
    BY <1>2, <2>1 DEF CryptoInv, Usable
<1>3. IInvCrypto => EncryptionIsWhole
  BY <1>1, <1>2 DEF IInvCrypto, EncryptionIsWhole
<1> QED
  BY <1>3, CryptoInductive, PTL

-----------------------------------------------------------------------------
(* No step of a private program changes a file that is there: it creates   *)
(* one where there is none, or others did it.                              *)
LEMMA ProgramReplacesNone == CryptoInv /\ P!Next => P!NothingReplaced
<1> SUFFICES ASSUME CryptoInv, P!Next, NEW n \in Paths, file[n] # None
             PROVE  file'[n] = file[n] \/ edits' # edits
  BY DEF P!NothingReplaced
<1>1. file \in [Paths -> {None} \union Seq(Blocks)] /\ edits \in Nat
  BY DEF CryptoInv, CryptoTypes
<1>2. CASE UNCHANGED file
  BY <1>2
<1>3. ASSUME NEW x \in Paths, NEW s, file[x] = None, file' = [file EXCEPT ![x] = s] PROVE file'[n] = file[n]
  BY <1>1, <1>3
<1>4. CASE P!Publish
  <2>1. ASSUME work.out # None, P!Persist(work.out, work.staged) PROVE file'[n] = file[n]
    <3>1. work.out \in Paths
      BY <1>4, <2>1, CopyingIs DEF P!Publish, Copying
    <3> QED
      BY <1>3, <2>1, <3>1 DEF P!Persist
  <2> QED
    BY <1>2, <1>4, <2>1 DEF P!Publish
<1>5. CASE P!SavePublic
  <2>1. work.out # None => work.out \in Paths
    BY <1>5 DEF CryptoInv, CryptoTypes, Copying, Generated, P!SavePublic
  <2> QED
    BY <1>2, <1>3, <1>5, <2>1 DEF P!SavePublic
<1>6. CASE \E x \in Paths, out \in Paths \union {None} : P!Keygen(x, out)
  BY <1>2, <1>3, <1>6 DEF P!Keygen
<1>7. CASE P!Edit \/ \E x \in Paths : P!Disturb(x)
  BY <1>1, <1>7 DEF P!Edit, P!Disturb, P!Touch
<1>8. CASE P!Routing \/ P!Killed
  BY <1>8 DEF P!Routing, P!Route, P!Load, P!RunRead, P!RunCheck, P!RunKeep, P!RunResolve, P!RunValidate, P!Killed,
     P!Kept, P!crypto
<1>9. CASE \/ \E x, out \in Paths, k \in Keys : P!EncryptFile(x, k, out)
           \/ \E x \in Paths, out \in Paths \union {None}, k \in Keys : P!DecryptFile(x, k, out)
           \/ P!CopyEncrypt \/ P!FinishEncrypt \/ P!CopyDecrypt \/ P!IOError
  BY <1>9 DEF P!EncryptFile, P!DecryptFile, P!CopyEncrypt, P!FinishEncrypt, P!CopyDecrypt, P!IOError, P!Fail, P!Copy
<1> QED
  BY <1>4, <1>5, <1>6, <1>7, <1>8, <1>9 DEF P!Next, P!Operation

(* Neither a download nor an operation on files replaces a file that is    *)
(* there, whoever made it and whenever (Bundle::publish, a link and not a  *)
(* rename; persist_noclobber of crypto_cli.rs).                            *)
THEOREM OthersAreKept == MCSpec => OthersKept
<1>1. ASSUME IInvFetch, IInvCrypto, [MCNext]_<<what, vars, fetch, private, orbit, bundle>>
      PROVE  [/\ what = "fetch" => A!NoneReplaced
              /\ what = "private" => P!NothingReplaced]_<<names, file>>
  <2>1. CASE UNCHANGED <<what, vars, fetch, private, orbit, bundle>>
    BY <2>1 DEF fetch, private
  <2>2. CASE MCNext
    <3>1. what = "fetch" => A!NoneReplaced
      BY <1>1, <2>2, FetchReplacesNone DEF MCNext, IInvFetch
    <3>2. what = "private" => P!NothingReplaced
      BY <1>1, <2>2, ProgramReplacesNone DEF MCNext, IInvCrypto
    <3> QED
      BY <3>1, <3>2
  <2> QED
    BY <1>1, <2>1, <2>2
<1> QED
  BY <1>1, FetchInductive, CryptoInductive, PTL DEF MCSpec, OthersKept

-----------------------------------------------------------------------------
(* Bundles of a check.                                                     *)
Bundles == UNION {[domain -> R!FileContents] : domain \in SUBSET R!Names}
Steps == {"idle", "create", "outer", "preflight", "inner", "verify", "returned", "failed"}
Evidences == {c.evidence : c \in R!Cases} \union {<< >>}
Jobs ==
  [step : Steps, at : 0..8, baseline : Baselines \union {None}, observation : Observations \union {None},
   case : R!Cases \union {None}, evidence : Evidences]

Moved(i, s, k) == [i EXCEPT !.step = s, !.at = k]
Informed(i, c) == [i EXCEPT !.step = "inner", !.at = 1, !.case = c, !.evidence = c.evidence]
Closing(i, s) == [i EXCEPT !.step = s]
Started(b, o) == [R!Idle EXCEPT !.step = "create", !.baseline = b, !.observation = o]
LEMMA JobMoves ==
  ASSUME NEW i \in Jobs, NEW s \in Steps, NEW k \in 0..8
  PROVE  /\ Moved(i, s, k) \in Jobs /\ Moved(i, s, k).step = s /\ Moved(i, s, k).at = k
         /\ Moved(i, s, k).baseline = i.baseline /\ Moved(i, s, k).observation = i.observation
         /\ Moved(i, s, k).case = i.case /\ Moved(i, s, k).evidence = i.evidence
BY DEF Moved, Jobs
LEMMA JobReads ==
  ASSUME NEW i \in Jobs, NEW c \in R!Cases
  PROVE  /\ Informed(i, c) \in Jobs /\ Informed(i, c).step = "inner" /\ Informed(i, c).at = 1
         /\ Informed(i, c).baseline = i.baseline /\ Informed(i, c).observation = i.observation
         /\ Informed(i, c).case = c /\ Informed(i, c).evidence = c.evidence
<1>1. PICK s \in Steps, e \in Evidences : s = "inner" /\ e = c.evidence
  BY DEF Steps, Evidences
<1>2. Informed(i, c) = [i EXCEPT !.step = s, !.at = 1, !.case = c, !.evidence = e]
  BY <1>1 DEF Informed
<1>3. 1 \in 0..8
  OBVIOUS
<1> QED
  BY <1>1, <1>2, <1>3 DEF Jobs
LEMMA JobCloses ==
  ASSUME NEW i \in Jobs, NEW s \in Steps
  PROVE  /\ Closing(i, s) \in Jobs /\ Closing(i, s).step = s /\ Closing(i, s).at = i.at
         /\ Closing(i, s).baseline = i.baseline /\ Closing(i, s).observation = i.observation
         /\ Closing(i, s).case = i.case /\ Closing(i, s).evidence = i.evidence
BY DEF Closing, Jobs
LEMMA JobStarts ==
  ASSUME NEW b \in Baselines, NEW o \in Observations
  PROVE  /\ Started(b, o) \in Jobs /\ Started(b, o).step = "create" /\ Started(b, o).at = 0
         /\ Started(b, o).baseline = b /\ Started(b, o).observation = o
<1> DEFINE i == R!Idle
<1>1. i \in Jobs /\ i.at = 0 /\ Started(b, o) = [i EXCEPT !.step = "create", !.baseline = b, !.observation = o]
  BY DEF R!Idle, Jobs, Steps, Evidences, Started
<1> HIDE DEF i
<1>2. "create" \in Steps
  BY DEF Steps
<1> QED
  BY <1>1, <1>2 DEF Jobs

(* Where a check is and what it holds in memory by then.                   *)
JobOK(j) ==
  /\ j.step \in {"idle", "create"} => j.at = 0
  /\ j.step = "outer" => j.at \in 1..4
  /\ j.step = "preflight" => j.at = 5
  /\ j.step = "inner" => j.at \in 1..7
  /\ j.step \in {"verify", "returned"} => j.at = 8
  /\ j.step \notin {"idle", "failed"} \/ j.at > 0 => j.baseline \in Baselines /\ j.observation \in Observations
  /\ j.step = "inner" \/ j.at = 8 => j.case \in R!Cases /\ j.evidence = j.case.evidence

(* verify, of the files d and the report q.                                *)
VerifiesOf(d, q, b, trusted) ==
  /\ d # None /\ q # None /\ DOMAIN d = R!Files(R!Outer)
  /\ d["baseline"] = b /\ d["observations"] \in Observations
  /\ d["check"] = R!Comparison(b, d["observations"])
  /\ d["case"] \in R!Cases /\ d["case"] = R!Case(d["case"].author, b, d["observations"])
  /\ R!ReportVerifies(q, trusted) /\ q["receipt"].case = d["case"]
  /\ \A i \in DOMAIN R!Copies : q[R!Copies[i]] = d[R!Outer[i]]
Result(r) ==
  /\ r.proc \in Makers /\ r.receipt \in R!Receipts /\ r.dir \in Bundles /\ r.report \in Bundles
  /\ VerifiesOf(r.dir, r.report, r.baseline, r.receipt)

BundleTypes ==
  /\ maker \in [Makers -> Jobs] /\ \A p \in Makers : JobOK(maker[p])
  /\ dir \in {None} \union Bundles /\ report \in {None} \union Bundles /\ tampered \in Nat
  /\ \A r \in returned : Result(r)
  /\ \A p \in Makers : (maker[p].at > 0 => dir # None) /\ (maker[p].step = "inner" => report # None)

(* The first k files, as the check with the memory j writes them.          *)
OuterWritten(k, d, j, p) ==
  /\ d # None /\ DOMAIN d = {R!Outer[i] : i \in 1..k}
  /\ \A i \in 1..k : d[R!Outer[i]] = R!OuterContent(j, p, R!Outer[i])
InnerWritten(k, q, j, p) ==
  /\ q # None /\ DOMAIN q = {R!Inner[i] : i \in 1..k}
  /\ \A i \in 1..k : q[R!Inner[i]] = R!InnerContent(j, p, R!Inner[i])
Stage(j, p, d, q) ==
  /\ j.at > 0 => d # None
  /\ j.step = "outer" => OuterWritten(j.at - 1, d, j, p) /\ q = None
  /\ j.step = "preflight" => OuterWritten(4, d, j, p) /\ q = None
  /\ j.step = "inner" => InnerWritten(j.at - 1, q, j, p)
  /\ j.at = 8 => InnerWritten(7, q, j, p)
  /\ j.step = "inner" \/ j.at = 8 => OuterWritten(4, d, j, p) /\ j.case = R!Case(p, j.baseline, j.observation)
Receiptless(q) == q = None \/ "receipt" \notin DOMAIN q \/ q["receipt"] = Junk

(* As long as nobody edits the bundle it is of the one check that made the *)
(* directory.                                                              *)
OfOneCheck ==
  tampered = 0 =>
    /\ \A p \in Makers : Stage(maker[p], p, dir, report)
    /\ \A p, q \in Makers : maker[p].at > 0 /\ maker[q].at > 0 => p = q
    /\ (\A p \in Makers : maker[p].at # 8) => Receiptless(report)
    /\ dir = None => report = None
    /\ \A r \in returned : maker[r.proc].at = 8 /\ r.dir = dir /\ r.report = report
BundleInv == BundleTypes /\ OfOneCheck

LEMMA VerifiesHere == \A b, trusted : R!Verifies(b, trusted) <=> VerifiesOf(dir, report, b, trusted)
BY DEF R!Verifies, VerifiesOf

LEMMA OrdersAre ==
  /\ R!Files(R!Outer) = {"baseline", "observations", "check", "case"}
  /\ R!Files(R!Inner) = {"case", "1", "2", "3", "md", "html", "receipt"}
  /\ R!Files(R!Outer) = {R!Outer[i] : i \in 1..4} /\ R!Files(R!Inner) = {R!Inner[i] : i \in 1..7}
  /\ Len(R!Outer) = 4 /\ Len(R!Inner) = 7 /\ DOMAIN R!Copies = 1..3
  /\ R!Outer[1] = "baseline" /\ R!Outer[2] = "observations" /\ R!Outer[3] = "check" /\ R!Outer[4] = "case"
  /\ R!Inner[1] = "case" /\ R!Inner[2] = "1" /\ R!Inner[3] = "2" /\ R!Inner[4] = "3" /\ R!Inner[5] = "md"
  /\ R!Inner[6] = "html" /\ R!Inner[7] = "receipt"
  /\ R!Copies[1] = "1" /\ R!Copies[2] = "2" /\ R!Copies[3] = "3"
BY DEF R!Files, R!Outer, R!Inner, R!Copies

LEMMA NamesAre == R!Names = {"baseline", "observations", "check", "case", "1", "2", "3", "md", "html", "receipt", "unlisted"}
BY OrdersAre DEF R!Names

LEMMA BundlesAreFiles ==
  /\ None \notin Bundles /\ None \notin R!Receipts /\ Junk \notin R!Receipts
  /\ << >> \in Bundles /\ DOMAIN << >> = {}
  /\ \A d \in Bundles : d \in [DOMAIN d -> R!FileContents] /\ DOMAIN d \subseteq R!Names
<1>1. None \notin Bundles /\ None \notin R!Receipts /\ Junk \notin R!Receipts
  BY BundleConstants DEF R!ReportConstants, Bundles
<1>2. << >> \in [{} -> R!FileContents] /\ DOMAIN << >> = {}
  OBVIOUS
<1>3. << >> \in Bundles
  BY <1>2 DEF Bundles
<1>4. \A d \in Bundles : d \in [DOMAIN d -> R!FileContents] /\ DOMAIN d \subseteq R!Names
  BY DEF Bundles
<1> QED
  BY <1>1, <1>2, <1>3, <1>4

LEMMA WithIs ==
  ASSUME NEW d \in Bundles, NEW f \in R!Names, NEW c \in R!FileContents
  PROVE  /\ R!With(d, f, c) \in Bundles /\ R!With(d, f, c) # None
         /\ DOMAIN R!With(d, f, c) = DOMAIN d \union {f} /\ R!With(d, f, c)[f] = c
         /\ \A g \in DOMAIN d : g # f => R!With(d, f, c)[g] = d[g]
<1> DEFINE w == R!With(d, f, c)
<1>1. d \in [DOMAIN d -> R!FileContents] /\ DOMAIN d \subseteq R!Names
  BY BundlesAreFiles
<1>2. /\ w \in [DOMAIN d \union {f} -> R!FileContents] /\ DOMAIN w = DOMAIN d \union {f} /\ w[f] = c
      /\ \A g \in DOMAIN d : g # f => w[g] = d[g]
  BY <1>1 DEF R!With
<1>3. DOMAIN d \union {f} \in SUBSET R!Names
  BY <1>1
<1> HIDE DEF w
<1>4. w \in Bundles
  BY <1>2, <1>3 DEF Bundles
<1> QED
  BY <1>2, <1>4, BundlesAreFiles DEF w

(* What a check writes is typed.                                           *)
LEMMA ContentIs ==
  ASSUME NEW j \in Jobs, NEW p \in Makers, j.baseline \in Baselines, j.observation \in Observations
  PROVE  /\ R!OuterContent(j, p, "baseline") = j.baseline /\ R!OuterContent(j, p, "observations") = j.observation
         /\ R!OuterContent(j, p, "check") = R!Comparison(j.baseline, j.observation)
         /\ R!OuterContent(j, p, "case") = R!Case(p, j.baseline, j.observation)
         /\ R!Case(p, j.baseline, j.observation) \in R!Cases
         /\ \A i \in 1..4 : R!OuterContent(j, p, R!Outer[i]) \in R!FileContents
<1>1. /\ R!OuterContent(j, p, "baseline") = j.baseline /\ R!OuterContent(j, p, "observations") = j.observation
      /\ R!OuterContent(j, p, "check") = R!Comparison(j.baseline, j.observation)
      /\ R!OuterContent(j, p, "case") = R!Case(p, j.baseline, j.observation)
  BY DEF R!OuterContent
<1>2. R!Case(p, j.baseline, j.observation) \in R!Cases
  BY DEF R!Cases
<1>3. R!Comparison(j.baseline, j.observation) \in R!FileContents
  BY DEF R!FileContents
<1>4. j.baseline \in R!FileContents /\ j.observation \in R!FileContents /\ R!Cases \subseteq R!FileContents
  BY DEF R!FileContents
<1>5. \A i \in 1..4 : i = 1 \/ i = 2 \/ i = 3 \/ i = 4
  OBVIOUS
<1> QED
  BY <1>1, <1>2, <1>3, <1>4, <1>5, OrdersAre

LEMMA CasesAre ==
  \A c \in R!Cases :
    /\ c.evidence[1] \in Baselines /\ c.evidence[2] \in Observations
    /\ c.evidence[3] = R!Comparison(c.evidence[1], c.evidence[2])
    /\ c = R!Case(c.author, c.evidence[1], c.evidence[2])
    /\ \A p \in Makers : R!ReceiptOf(c, c.evidence, p) \in R!Receipts
BY DEF R!Cases, R!Case, R!Receipts

LEMMA InnerContentIs ==
  ASSUME NEW j \in Jobs, NEW p \in Makers, j.case \in R!Cases, j.evidence = j.case.evidence
  PROVE  /\ R!InnerContent(j, p, "case") = j.case
         /\ R!InnerContent(j, p, "md") = R!Render(j.case, p).md /\ R!InnerContent(j, p, "html") = R!Render(j.case, p).html
         /\ R!InnerContent(j, p, "receipt") = R!ReceiptOf(j.case, j.evidence, p)
         /\ R!InnerContent(j, p, "1") = j.evidence[1] /\ R!InnerContent(j, p, "2") = j.evidence[2]
         /\ R!InnerContent(j, p, "3") = j.evidence[3]
         /\ \A i \in 1..7 : R!InnerContent(j, p, R!Inner[i]) \in R!FileContents
<1>1. /\ R!InnerContent(j, p, "case") = j.case
      /\ R!InnerContent(j, p, "md") = R!Render(j.case, p).md /\ R!InnerContent(j, p, "html") = R!Render(j.case, p).html
      /\ R!InnerContent(j, p, "receipt") = R!ReceiptOf(j.case, j.evidence, p)
  BY DEF R!InnerContent, R!ReceiptOf
<1>2. \A i \in 1..3 : (CHOOSE k \in DOMAIN R!Copies : R!Copies[k] = R!Copies[i]) = i
  BY OrdersAre
<1>3. \A f \in {"1", "2", "3"} : R!InnerContent(j, p, f) = j.evidence[CHOOSE i \in DOMAIN R!Copies : R!Copies[i] = f]
  BY DEF R!InnerContent
<1>4. /\ R!InnerContent(j, p, "1") = j.evidence[1] /\ R!InnerContent(j, p, "2") = j.evidence[2]
      /\ R!InnerContent(j, p, "3") = j.evidence[3]
  BY <1>2, <1>3, OrdersAre
<1>5. j.evidence[1] \in R!FileContents /\ j.evidence[2] \in R!FileContents /\ j.evidence[3] \in R!FileContents
  BY CasesAre DEF R!FileContents
<1>6. R!Render(j.case, p).md \in R!FileContents /\ R!Render(j.case, p).html \in R!FileContents /\ j.case \in R!FileContents
  BY DEF R!FileContents
<1>7. R!ReceiptOf(j.case, j.evidence, p) \in R!FileContents
  BY CasesAre DEF R!FileContents
<1>8. \A i \in 1..7 : i = 1 \/ i = 2 \/ i = 3 \/ i = 4 \/ i = 5 \/ i = 6 \/ i = 7
  OBVIOUS
<1>9. ASSUME NEW i \in 1..7 PROVE R!InnerContent(j, p, R!Inner[i]) \in R!FileContents
  BY <1>1, <1>4, <1>5, <1>6, <1>7, <1>8, OrdersAre
<1> QED
  BY <1>1, <1>4, <1>9

(* A bundle that verifies against a receipt is one bundle.                 *)
LEMMA ReceiptDetermines ==
  ASSUME NEW d \in Bundles, NEW q \in Bundles, NEW e \in Bundles, NEW r \in Bundles, NEW b, NEW t \in R!Receipts,
         VerifiesOf(d, q, b, t), VerifiesOf(e, r, b, t)
  PROVE  d = e /\ q = r
<1>1. q["receipt"] = t /\ r["receipt"] = t
  BY BundlesAreFiles DEF VerifiesOf, R!ReportVerifies
<1>2. /\ d["baseline"] = b /\ d["case"] = t.case /\ d["case"] = R!Case(d["case"].author, b, d["observations"])
      /\ d["check"] = R!Comparison(b, d["observations"])
      /\ e["baseline"] = b /\ e["case"] = t.case /\ e["case"] = R!Case(e["case"].author, b, e["observations"])
      /\ e["check"] = R!Comparison(b, e["observations"])
  BY <1>1 DEF VerifiesOf
<1>3. d["observations"] = t.case.evidence[2] /\ e["observations"] = t.case.evidence[2]
  BY <1>2 DEF R!Case
<1>4. \A f \in R!Files(R!Outer) : d[f] = e[f]
  BY <1>2, <1>3, OrdersAre
<1>5. d \in [R!Files(R!Outer) -> R!FileContents] /\ e \in [R!Files(R!Outer) -> R!FileContents]
  BY BundlesAreFiles DEF VerifiesOf
<1>6. d = e
  BY <1>4, <1>5
<1>7. /\ q["case"] = t.case /\ q["md"] = t.outputs.md /\ q["html"] = t.outputs.html
      /\ r["case"] = t.case /\ r["md"] = t.outputs.md /\ r["html"] = t.outputs.html
      /\ \A i \in 1..3 : q[R!Copies[i]] = t.evidence[i] /\ r[R!Copies[i]] = t.evidence[i]
  BY <1>1, OrdersAre DEF VerifiesOf, R!ReportVerifies
<1>8. \A f \in R!Files(R!Inner) : q[f] = r[f]
  BY <1>1, <1>7, OrdersAre
<1>9. q \in [R!Files(R!Inner) -> R!FileContents] /\ r \in [R!Files(R!Inner) -> R!FileContents]
  BY BundlesAreFiles DEF VerifiesOf, R!ReportVerifies
<1>10. q = r
  BY <1>8, <1>9
<1> QED
  BY <1>6, <1>10

LEMMA BundleInit == R!Init => BundleInv
<1> SUFFICES ASSUME R!Init PROVE BundleInv
  OBVIOUS
<1>1. dir = None /\ report = None /\ maker = [p \in Makers |-> R!Idle] /\ returned = {} /\ tampered = 0
  BY DEF R!Init
<1>2. R!Idle \in Jobs /\ R!Idle.step = "idle" /\ R!Idle.at = 0
  BY DEF R!Idle, Jobs, Steps, Evidences
<1>3. JobOK(R!Idle) /\ \A p : Stage(R!Idle, p, dir, report)
  BY <1>2 DEF JobOK, Stage
<1> QED
  BY <1>1, <1>2, <1>3 DEF BundleInv, BundleTypes, OfOneCheck, Receiptless

LEMMA MakerIs ==
  ASSUME BundleInv, NEW p \in Makers
  PROVE  /\ maker[p] \in Jobs /\ JobOK(maker[p])
         /\ maker[p].at \in 0..8 /\ maker[p].step \in Steps
         /\ (maker[p].at > 0 => dir # None) /\ (maker[p].step = "inner" => report # None)
         /\ tampered = 0 => /\ Stage(maker[p], p, dir, report)
                            /\ maker[p].at > 0 => \A q \in Makers : q # p => maker[q].at = 0
BY DEF BundleInv, BundleTypes, OfOneCheck, Jobs

(* A step of check p, which has the memory j after it.                     *)
Returns(p, j) ==
  \A r \in returned' : r \in returned \/ (Result(r) /\ r.proc = p /\ j.at = 8 /\ r.dir = dir' /\ r.report = report')
Stays(j) ==
  /\ (j.at > 0 \/ dir # None) => dir' # None
  /\ (j.step = "inner" \/ report # None) => report' # None
Alone(p, j) ==
  /\ Stage(j, p, dir', report')
  /\ UNCHANGED <<dir, report>> \/ \A q \in Makers : q # p => maker[q].at = 0
  /\ j.at > 0 => \A q \in Makers : q # p => maker[q].at = 0
  /\ j.at # 8 => (report' = report /\ maker[p].at # 8) \/ Receiptless(report')
  /\ maker[p].at = 8 => j.at = 8 /\ UNCHANGED <<dir, report>>
  /\ dir' = None => report' = None
LEMMA MakerStep ==
  ASSUME BundleInv, NEW p \in Makers, NEW j \in Jobs, JobOK(j), maker' = [maker EXCEPT ![p] = j],
         dir' \in {None} \union Bundles, report' \in {None} \union Bundles, tampered' = tampered,
         Stays(j), returned' = returned \/ Returns(p, j), tampered = 0 => Alone(p, j)
  PROVE  BundleInv'
<1>1. maker \in [Makers -> Jobs] /\ \A q \in Makers : JobOK(maker[q])
  BY DEF BundleInv, BundleTypes
<1>2. maker' \in [Makers -> Jobs] /\ maker'[p] = j /\ \A q \in Makers : q # p => maker'[q] = maker[q]
  BY <1>1
<1>3. BundleTypes'
  <2>1. \A q \in Makers : JobOK(maker'[q])
    BY <1>1, <1>2
  <2>2. \A r \in returned' : Result(r)
    BY DEF BundleInv, BundleTypes, Returns
  <2>3. ASSUME NEW q \in Makers PROVE (maker'[q].at > 0 => dir' # None) /\ (maker'[q].step = "inner" => report' # None)
    <3>1. CASE q = p
      BY <1>2, <3>1 DEF Stays
    <3>2. CASE q # p
      BY <1>2, <3>2 DEF Stays, BundleInv, BundleTypes
    <3> QED
      BY <3>1, <3>2
  <2>4. /\ maker' \in [Makers -> Jobs] /\ dir' \in {None} \union Bundles /\ report' \in {None} \union Bundles /\ tampered' \in Nat
    BY <1>2 DEF BundleInv, BundleTypes
  <2> QED
    BY <2>1, <2>2, <2>3, <2>4 DEF BundleTypes, Result, JobOK
<1>4. OfOneCheck'
  <2> SUFFICES ASSUME tampered = 0
               PROVE  /\ \A q \in Makers : Stage(maker'[q], q, dir', report')
                      /\ \A q, r \in Makers : maker'[q].at > 0 /\ maker'[r].at > 0 => q = r
                      /\ (\A q \in Makers : maker'[q].at # 8) => Receiptless(report')
                      /\ dir' = None => report' = None
                      /\ \A r \in returned' : maker'[r.proc].at = 8 /\ r.dir = dir' /\ r.report = report'
    BY DEF OfOneCheck, Stage, OuterWritten, InnerWritten, Receiptless
  <2>0. Alone(p, j)
    OBVIOUS
  <2>1. ASSUME NEW q \in Makers PROVE Stage(maker'[q], q, dir', report')
    <3>1. CASE q = p
      BY <1>2, <2>0, <3>1 DEF Alone
    <3>2. CASE q # p /\ UNCHANGED <<dir, report>>
      BY <1>2, <3>2 DEF BundleInv, OfOneCheck
    <3>3. CASE q # p /\ maker[q].at = 0
      <4>1. maker'[q].at = 0 /\ maker'[q].step \notin {"outer", "preflight", "inner"}
        BY <1>1, <1>2, <3>3 DEF JobOK
      <4> QED
        BY <4>1 DEF Stage
    <3> QED
      BY <2>0, <3>1, <3>2, <3>3 DEF Alone
  <2>2. ASSUME NEW q \in Makers, NEW r \in Makers, maker'[q].at > 0, maker'[r].at > 0 PROVE q = r
    BY <1>1, <1>2, <2>0, <2>2 DEF BundleInv, OfOneCheck, Jobs, Alone
  <2>3. ASSUME \A q \in Makers : maker'[q].at # 8 PROVE Receiptless(report')
    <3>1. j.at # 8 /\ \A q \in Makers : q # p => maker[q].at # 8
      BY <1>2, <2>3
    <3> QED
      BY <2>0, <3>1 DEF BundleInv, OfOneCheck, Alone
  <2>4. ASSUME NEW r \in returned' PROVE maker'[r.proc].at = 8 /\ r.dir = dir' /\ r.report = report'
    <3>1. CASE r \in returned
      <4>1. r.proc \in Makers /\ maker[r.proc].at = 8 /\ r.dir = dir /\ r.report = report
        BY <3>1 DEF BundleInv, BundleTypes, OfOneCheck, Result
      <4>2. CASE r.proc = p
        BY <1>2, <2>0, <4>1, <4>2 DEF Alone
      <4>3. CASE r.proc # p
        BY <1>2, <2>0, <4>1, <4>3 DEF Alone, BundleInv, BundleTypes, Jobs
      <4> QED
        BY <4>2, <4>3
    <3>2. CASE r.proc = p /\ j.at = 8 /\ r.dir = dir' /\ r.report = report'
      BY <1>2, <3>2
    <3> QED
      BY <3>1, <3>2 DEF Returns
  <2>5. dir' = None => report' = None
    BY <2>0 DEF Alone
  <2> QED
    BY <2>1, <2>2, <2>3, <2>4, <2>5
<1> QED
  BY <1>3, <1>4 DEF BundleInv

(* A check that fails leaves what it wrote.                                *)
LEMMA Failed ==
  ASSUME BundleInv, NEW p \in Makers, NEW j, j = Closing(maker[p], "failed")
  PROVE  /\ j \in Jobs /\ JobOK(j) /\ j.at = maker[p].at /\ j.step = "failed"
         /\ \A d, q : (j.at > 0 => d # None) /\ (maker[p].at = 8 => Stage(maker[p], p, d, q)) => Stage(j, p, d, q)
<1>1. /\ j \in Jobs /\ j.step = "failed" /\ j.at = maker[p].at /\ j.baseline = maker[p].baseline
      /\ j.observation = maker[p].observation /\ j.case = maker[p].case /\ j.evidence = maker[p].evidence
  BY MakerIs, JobCloses DEF Steps
<1>2. JobOK(j)
  BY <1>1, MakerIs DEF JobOK
<1>3. ASSUME NEW d, NEW q, j.at > 0 => d # None, maker[p].at = 8 => Stage(maker[p], p, d, q) PROVE Stage(j, p, d, q)
  <2>1. \A f : /\ R!OuterContent(j, p, f) = R!OuterContent(maker[p], p, f)
               /\ R!InnerContent(j, p, f) = R!InnerContent(maker[p], p, f)
    BY <1>1 DEF R!OuterContent, R!InnerContent
  <2> QED
    BY <1>1, <1>3, <2>1 DEF Stage, OuterWritten, InnerWritten
<1> QED
  BY <1>1, <1>2, <1>3

LEMMA CheckFails ==
  ASSUME BundleInv, NEW p \in Makers, R!Fail(p), UNCHANGED <<dir, report, returned, tampered>>
  PROVE  BundleInv'
<1> PICK j : j = Closing(maker[p], "failed")
  OBVIOUS
<1>1. j \in Jobs /\ JobOK(j) /\ j.at = maker[p].at
  BY Failed
<1>2. maker' = [maker EXCEPT ![p] = j]
  BY DEF R!Fail, R!Set, Closing
<1>3. dir' \in {None} \union Bundles /\ report' \in {None} \union Bundles
  BY DEF BundleInv, BundleTypes
<1>4. ASSUME tampered = 0
      PROVE  /\ Stage(j, p, dir', report')
             /\ j.at > 0 => \A q \in Makers : q # p => maker[q].at = 0
  <2>1. Stage(maker[p], p, dir, report) /\ (j.at > 0 => dir # None)
    BY <1>1, <1>4, MakerIs DEF Stage
  <2> QED
    BY <1>1, <1>4, <2>1, MakerIs, Failed
<1>5. tampered = 0 => Alone(p, j)
  BY <1>1, <1>4 DEF Alone, BundleInv, OfOneCheck
<1>6. Stays(j)
  <2>1. j.step = "failed"
    BY MakerIs, JobCloses DEF Steps
  <2> QED
    BY <1>1, <2>1, MakerIs DEF Stays
<1> QED
  BY <1>1, <1>2, <1>3, <1>5, <1>6, MakerStep

LEMMA CheckBegins ==
  ASSUME BundleInv, NEW p \in Makers, R!Begin(p)
  PROVE  BundleInv'
<1>1. maker[p].step = "idle" /\ UNCHANGED <<dir, report, returned, tampered>>
  BY DEF R!Begin, R!At
<1>2. CASE R!Fail(p)
  BY <1>1, <1>2, CheckFails
<1>3. ASSUME NEW b \in Baselines, NEW o \in Observations,
             R!Set(p, [R!Idle EXCEPT !.step = "create", !.baseline = b, !.observation = o])
      PROVE  BundleInv'
  <2> PICK j : j = Started(b, o)
    OBVIOUS
  <2>1. j \in Jobs /\ j.step = "create" /\ j.at = 0 /\ j.baseline = b /\ j.observation = o
    BY JobStarts
  <2>2. JobOK(j) /\ Stage(j, p, dir', report')
    BY <2>1 DEF JobOK, Stage
  <2>3. maker' = [maker EXCEPT ![p] = j]
    BY <1>3 DEF R!Set, Started
  <2>4. maker[p].at = 0
    BY <1>1, MakerIs DEF JobOK
  <2>5. dir' \in {None} \union Bundles /\ report' \in {None} \union Bundles
    BY <1>1 DEF BundleInv, BundleTypes
  <2>6. tampered = 0 => Alone(p, j)
    BY <1>1, <2>1, <2>2, <2>4 DEF Alone, BundleInv, OfOneCheck
  <2>7. Stays(j)
    BY <1>1, <2>1 DEF Stays
  <2> QED
    BY <1>1, <2>1, <2>2, <2>3, <2>5, <2>6, <2>7, MakerStep
<1> QED
  BY <1>2, <1>3 DEF R!Begin

LEMMA CreateKeeps ==
  ASSUME BundleInv, NEW p \in Makers, R!Create(p)
  PROVE  BundleInv'
<1>1. maker[p].step = "create" /\ UNCHANGED <<report, returned, tampered>>
  BY DEF R!Create, R!At
<1>2. CASE R!Fail(p) /\ UNCHANGED dir
  BY <1>1, <1>2, CheckFails
<1>3. CASE dir = None /\ dir' = << >> /\ R!Set(p, [maker[p] EXCEPT !.step = "outer", !.at = 1])
  <2> PICK j : j = Moved(maker[p], "outer", 1)
    OBVIOUS
  <2>1. /\ j \in Jobs /\ j.step = "outer" /\ j.at = 1 /\ j.baseline = maker[p].baseline /\ j.observation = maker[p].observation
    BY MakerIs, JobMoves DEF Steps
  <2>2. JobOK(j) /\ maker[p].at = 0
    BY <1>1, <2>1, MakerIs DEF JobOK
  <2>3. maker' = [maker EXCEPT ![p] = j]
    BY <1>3 DEF R!Set, Moved
  <2>4. dir' \in {None} \union Bundles /\ report' \in {None} \union Bundles /\ dir' # None
    BY <1>1, <1>3, BundlesAreFiles DEF BundleInv, BundleTypes
  <2>5. ASSUME tampered = 0
        PROVE  Stage(j, p, dir', report') /\ \A q \in Makers : q # p => maker[q].at = 0
    <3>1. \A q \in Makers : maker[q].at = 0
      BY <1>3, <2>5, MakerIs DEF Stage
    <3>2. OuterWritten(0, dir', j, p)
      BY <1>3, <2>4, BundlesAreFiles DEF OuterWritten
    <3>3. report = None
      BY <1>3, <2>5 DEF BundleInv, OfOneCheck
    <3> QED
      BY <1>1, <2>1, <2>4, <3>1, <3>2, <3>3 DEF Stage
  <2>6. tampered = 0 => Alone(p, j)
    BY <1>1, <2>1, <2>2, <2>4, <2>5 DEF Alone
  <2>7. Stays(j)
    BY <1>1, <2>1, <2>4 DEF Stays
  <2> QED
    BY <1>1, <2>1, <2>2, <2>3, <2>4, <2>6, <2>7, MakerStep
<1> QED
  BY <1>2, <1>3 DEF R!Create

(* A file is written, or cut off, or one is there already.                 *)
LEMMA OuterGrows ==
  ASSUME NEW k \in 1..4, NEW d \in Bundles, NEW j \in Jobs, NEW p \in Makers, j.baseline \in Baselines, j.observation \in Observations,
         OuterWritten(k - 1, d, j, p), NEW e, e = R!With(d, R!Outer[k], R!OuterContent(j, p, R!Outer[k]))
  PROVE  OuterWritten(k, e, j, p)
<1>1. R!Outer[k] \in R!Names /\ R!OuterContent(j, p, R!Outer[k]) \in R!FileContents
  <2>1. k = 1 \/ k = 2 \/ k = 3 \/ k = 4
    OBVIOUS
  <2>2. R!Outer[k] \in R!Names
    BY <2>1, OrdersAre, NamesAre
  <2> QED
    BY <2>2, ContentIs
<1>2. /\ e # None /\ DOMAIN e = DOMAIN d \union {R!Outer[k]} /\ e[R!Outer[k]] = R!OuterContent(j, p, R!Outer[k])
      /\ \A g \in DOMAIN d : g # R!Outer[k] => e[g] = d[g]
  <2> PICK f \in R!Names, c \in R!FileContents : f = R!Outer[k] /\ c = R!OuterContent(j, p, R!Outer[k])
    BY <1>1
  <2>1. e = R!With(d, f, c)
    OBVIOUS
  <2>2. /\ R!With(d, f, c) # None /\ DOMAIN R!With(d, f, c) = DOMAIN d \union {f} /\ R!With(d, f, c)[f] = c
        /\ \A g \in DOMAIN d : g # f => R!With(d, f, c)[g] = d[g]
    <3>1. R!With(d, f, c) # None
      BY WithIs
    <3>2. DOMAIN R!With(d, f, c) = DOMAIN d \union {f}
      BY WithIs
    <3>3. R!With(d, f, c)[f] = c
      BY WithIs
    <3>4. \A g \in DOMAIN d : g # f => R!With(d, f, c)[g] = d[g]
      BY WithIs
    <3> QED
      BY <3>1, <3>2, <3>3, <3>4
  <2> QED
    BY <2>1, <2>2
<1>3. \A i \in 1..k : i = k \/ i \in 1..(k - 1)
  OBVIOUS
<1>4. 1..(k - 1) \subseteq 1..k
  OBVIOUS
<1>5. DOMAIN e = {R!Outer[i] : i \in 1..k}
  BY <1>2, <1>3, <1>4 DEF OuterWritten
<1>6. ASSUME NEW i \in 1..k PROVE e[R!Outer[i]] = R!OuterContent(j, p, R!Outer[i])
  <2>1. CASE R!Outer[i] = R!Outer[k]
    BY <1>2, <2>1
  <2>2. CASE R!Outer[i] # R!Outer[k]
    BY <1>2, <1>3, <2>2 DEF OuterWritten
  <2> QED
    BY <2>1, <2>2
<1> QED
  BY <1>2, <1>5, <1>6 DEF OuterWritten

LEMMA InnerGrows ==
  ASSUME NEW k \in 1..7, NEW d \in Bundles, NEW j \in Jobs, NEW p \in Makers, j.case \in R!Cases, j.evidence = j.case.evidence,
         InnerWritten(k - 1, d, j, p), NEW e, e = R!With(d, R!Inner[k], R!InnerContent(j, p, R!Inner[k]))
  PROVE  InnerWritten(k, e, j, p)
<1>1. R!Inner[k] \in R!Names /\ R!InnerContent(j, p, R!Inner[k]) \in R!FileContents
  <2>1. k = 1 \/ k = 2 \/ k = 3 \/ k = 4 \/ k = 5 \/ k = 6 \/ k = 7
    OBVIOUS
  <2>2. R!Inner[k] \in R!Names
    BY <2>1, OrdersAre, NamesAre
  <2> QED
    BY <2>2, InnerContentIs
<1>2. /\ e # None /\ DOMAIN e = DOMAIN d \union {R!Inner[k]} /\ e[R!Inner[k]] = R!InnerContent(j, p, R!Inner[k])
      /\ \A g \in DOMAIN d : g # R!Inner[k] => e[g] = d[g]
  <2> PICK f \in R!Names, c \in R!FileContents : f = R!Inner[k] /\ c = R!InnerContent(j, p, R!Inner[k])
    BY <1>1
  <2>1. e = R!With(d, f, c)
    OBVIOUS
  <2>2. /\ R!With(d, f, c) # None /\ DOMAIN R!With(d, f, c) = DOMAIN d \union {f} /\ R!With(d, f, c)[f] = c
        /\ \A g \in DOMAIN d : g # f => R!With(d, f, c)[g] = d[g]
    <3>1. R!With(d, f, c) # None
      BY WithIs
    <3>2. DOMAIN R!With(d, f, c) = DOMAIN d \union {f}
      BY WithIs
    <3>3. R!With(d, f, c)[f] = c
      BY WithIs
    <3>4. \A g \in DOMAIN d : g # f => R!With(d, f, c)[g] = d[g]
      BY WithIs
    <3> QED
      BY <3>1, <3>2, <3>3, <3>4
  <2> QED
    BY <2>1, <2>2
<1>3. \A i \in 1..k : i = k \/ i \in 1..(k - 1)
  OBVIOUS
<1>4. 1..(k - 1) \subseteq 1..k
  OBVIOUS
<1>5. DOMAIN e = {R!Inner[i] : i \in 1..k}
  BY <1>2, <1>3, <1>4 DEF InnerWritten
<1>6. ASSUME NEW i \in 1..k PROVE e[R!Inner[i]] = R!InnerContent(j, p, R!Inner[i])
  <2>1. CASE R!Inner[i] = R!Inner[k]
    BY <1>2, <2>1
  <2>2. CASE R!Inner[i] # R!Inner[k]
    BY <1>2, <1>3, <2>2 DEF InnerWritten
  <2> QED
    BY <2>1, <2>2
<1> QED
  BY <1>2, <1>5, <1>6 DEF InnerWritten

LEMMA FilesAre == BundleInv => dir \in {None} \union Bundles /\ report \in {None} \union Bundles /\ tampered \in Nat
BY DEF BundleInv, BundleTypes

LEMMA WriteOuterKeeps ==
  ASSUME BundleInv, NEW p \in Makers, R!WriteOuter(p)
  PROVE  BundleInv'
<1> PICK k : k = maker[p].at
  OBVIOUS
<1>1. maker[p].step = "outer" /\ UNCHANGED <<report, returned, tampered>>
  BY DEF R!WriteOuter, R!At
<1>2. /\ maker[p] \in Jobs /\ k \in 1..4 /\ maker[p].baseline \in Baselines /\ maker[p].observation \in Observations
      /\ k \in 0..8 /\ k # 8
  BY <1>1, MakerIs DEF JobOK
<1>3. /\ tampered = 0 => /\ OuterWritten(k - 1, dir, maker[p], p) /\ dir # None /\ report = None
                         /\ \A q \in Makers : q # p => maker[q].at = 0
  BY <1>1, <1>2, MakerIs DEF Stage
<1>4. PICK f \in R!Names, c \in R!FileContents : f = R!Outer[k] /\ c = R!OuterContent(maker[p], p, f)
  <2>1. k = 1 \/ k = 2 \/ k = 3 \/ k = 4
    BY <1>2
  <2>2. R!Outer[k] \in R!Names
    BY <2>1, OrdersAre, NamesAre
  <2>3. R!OuterContent(maker[p], p, R!Outer[k]) \in R!FileContents
    BY <1>2, ContentIs
  <2> QED
    BY <2>2, <2>3
<1>5. dir # None
  BY <1>2, MakerIs
<1>6. CASE R!Fail(p) /\ UNCHANGED dir
  BY <1>1, <1>6, CheckFails
<1>7. CASE dir' = R!With(dir, f, c) /\ R!Advance(p, R!Outer, "preflight")
  <2> DEFINE s == IF k = 4 THEN "preflight" ELSE "outer"
  <2> PICK j : j = Moved(maker[p], s, k + 1)
    OBVIOUS
  <2>1. /\ j \in Jobs /\ j.step = s /\ j.at = k + 1 /\ j.baseline = maker[p].baseline /\ j.observation = maker[p].observation
    <3>1. PICK i \in Jobs, t \in Steps, l \in 0..8 : i = maker[p] /\ t = s /\ l = k + 1
      BY <1>2 DEF Steps
    <3>2. j = Moved(i, t, l)
      BY <3>1
    <3>3. /\ Moved(i, t, l) \in Jobs /\ Moved(i, t, l).step = t /\ Moved(i, t, l).at = l
          /\ Moved(i, t, l).baseline = i.baseline /\ Moved(i, t, l).observation = i.observation
      BY JobMoves
    <3> QED
      BY <3>1, <3>2, <3>3
  <2>2. maker' = [maker EXCEPT ![p] = j]
    BY <1>1, <1>2, <1>7, OrdersAre DEF R!Set, R!Advance, Moved, Jobs
  <2>3. JobOK(j)
    BY <1>2, <2>1 DEF JobOK
  <2>4. dir' \in Bundles /\ dir' # None
    BY <1>5, <1>7, WithIs, FilesAre
  <2>5. report' \in {None} \union Bundles
    BY <1>1, FilesAre
  <2>6. ASSUME tampered = 0 PROVE Alone(p, j)
    <3>1. OuterWritten(k, dir', maker[p], p)
      BY <1>2, <1>3, <1>4, <1>5, <1>7, <2>6, FilesAre, OuterGrows
    <3>2. \A g : R!OuterContent(j, p, g) = R!OuterContent(maker[p], p, g)
      BY <2>1 DEF R!OuterContent
    <3>3. OuterWritten(k, dir', j, p)
      BY <3>1, <3>2 DEF OuterWritten
    <3>4. Stage(j, p, dir', report')
      BY <1>1, <1>2, <1>3, <2>1, <2>4, <2>6, <3>3 DEF Stage
    <3> QED
      BY <1>1, <1>2, <1>3, <2>1, <2>4, <2>6, <3>4 DEF Alone
  <2>7. Stays(j)
    BY <1>1, <2>1, <2>4 DEF Stays
  <2> QED
    BY <1>1, <2>1, <2>2, <2>3, <2>4, <2>5, <2>6, <2>7, MakerStep
<1>8. CASE dir' = R!With(dir, f, Junk) /\ R!Fail(p)
  <2> PICK j : j = Closing(maker[p], "failed")
    OBVIOUS
  <2>1. j \in Jobs /\ JobOK(j) /\ j.at = k
    BY Failed
  <2>2. maker' = [maker EXCEPT ![p] = j]
    BY <1>8 DEF R!Fail, R!Set, Closing
  <2>3. Junk \in R!FileContents
    BY DEF R!FileContents
  <2>4. dir' \in Bundles /\ dir' # None
    BY <1>5, <1>8, <2>3, WithIs, FilesAre
  <2>5. report' \in {None} \union Bundles
    BY <1>1, FilesAre
  <2>6. ASSUME tampered = 0 PROVE Alone(p, j)
    <3>1. Stage(j, p, dir', report')
      BY <1>2, <2>1, <2>4, Failed
    <3> QED
      BY <1>1, <1>2, <1>3, <2>1, <2>4, <2>6, <3>1 DEF Alone
  <2>7. Stays(j)
    BY <1>1, <2>1, <2>4, Failed DEF Stays
  <2> QED
    BY <1>1, <2>1, <2>2, <2>4, <2>5, <2>6, <2>7, MakerStep
<1> QED
  BY <1>4, <1>5, <1>6, <1>7, <1>8 DEF R!WriteOuter

(* The report is begun from the files that are there.                      *)
LEMMA PreflightKeeps ==
  ASSUME BundleInv, NEW p \in Makers, R!Preflight(p)
  PROVE  BundleInv'
<1>1. maker[p].step = "preflight" /\ UNCHANGED <<dir, returned, tampered>>
  BY DEF R!Preflight, R!At
<1>2. /\ maker[p] \in Jobs /\ maker[p].at = 5 /\ maker[p].baseline \in Baselines /\ maker[p].observation \in Observations
  BY <1>1, MakerIs DEF JobOK
<1>3. dir # None
  BY <1>2, MakerIs
<1>4. tampered = 0 => OuterWritten(4, dir, maker[p], p) /\ \A q \in Makers : q # p => maker[q].at = 0
  BY <1>1, <1>2, MakerIs DEF Stage
<1>5. CASE R!Fail(p) /\ UNCHANGED report
  BY <1>1, <1>5, CheckFails
<1>6. CASE /\ R!Sound(dir) /\ report = None /\ report' = << >>
           /\ R!Set(p, [maker[p] EXCEPT !.step = "inner", !.at = 1, !.case = dir["case"], !.evidence = dir["case"].evidence])
  <2>1. PICK c \in R!Cases : c = dir["case"]
    BY <1>6 DEF R!Sound
  <2> PICK j : j = Informed(maker[p], c)
    OBVIOUS
  <2>2. /\ j \in Jobs /\ j.step = "inner" /\ j.at = 1 /\ j.baseline = maker[p].baseline /\ j.observation = maker[p].observation
        /\ j.case = c /\ j.evidence = c.evidence
    BY <1>2, JobReads
  <2>3. maker' = [maker EXCEPT ![p] = j]
    BY <1>6, <2>1 DEF R!Set, Informed
  <2>4. JobOK(j)
    BY <1>2, <2>2 DEF JobOK
  <2>5. report' \in Bundles /\ report' # None /\ DOMAIN report' = {}
    BY <1>6, BundlesAreFiles
  <2>6. ASSUME tampered = 0 PROVE Alone(p, j)
    <3>1. OuterWritten(4, dir, j, p)
      BY <1>4, <2>2, <2>6 DEF OuterWritten, R!OuterContent
    <3>2. c = R!Case(p, j.baseline, j.observation)
      <4>1. dir[R!Outer[4]] = R!OuterContent(j, p, R!Outer[4])
        BY <3>1 DEF OuterWritten
      <4> QED
        BY <1>2, <2>1, <2>2, <4>1, ContentIs, OrdersAre
    <3>3. InnerWritten(0, report', j, p)
      BY <2>5 DEF InnerWritten
    <3>4. Stage(j, p, dir', report')
      BY <1>1, <1>3, <2>2, <3>1, <3>2, <3>3 DEF Stage
    <3> QED
      BY <1>1, <1>2, <1>3, <1>4, <2>2, <2>5, <2>6, <3>4 DEF Alone, Receiptless
  <2>7. Stays(j)
    BY <1>1, <1>3, <2>5 DEF Stays
  <2> QED
    BY <1>1, <2>2, <2>3, <2>4, <2>5, <2>6, <2>7, FilesAre, MakerStep
<1> QED
  BY <1>5, <1>6 DEF R!Preflight

LEMMA WriteInnerKeeps ==
  ASSUME BundleInv, NEW p \in Makers, R!WriteInner(p)
  PROVE  BundleInv'
<1> PICK k : k = maker[p].at
  OBVIOUS
<1>1. maker[p].step = "inner" /\ UNCHANGED <<dir, returned, tampered>>
  BY DEF R!WriteInner, R!At
<1>2. /\ maker[p] \in Jobs /\ k \in 1..7 /\ maker[p].baseline \in Baselines /\ maker[p].observation \in Observations
      /\ k \in 0..8 /\ k # 8 /\ maker[p].case \in R!Cases /\ maker[p].evidence = maker[p].case.evidence
  BY <1>1, MakerIs DEF JobOK
<1>3. dir # None /\ report # None /\ report \in Bundles
  BY <1>1, <1>2, MakerIs, FilesAre
<1>4. tampered = 0 => /\ OuterWritten(4, dir, maker[p], p) /\ InnerWritten(k - 1, report, maker[p], p)
                      /\ maker[p].case = R!Case(p, maker[p].baseline, maker[p].observation)
                      /\ \A q \in Makers : q # p => maker[q].at = 0
  BY <1>1, <1>2, MakerIs DEF Stage
<1>5. PICK f \in R!Names, c \in R!FileContents : f = R!Inner[k] /\ c = R!InnerContent(maker[p], p, f)
  <2>1. k = 1 \/ k = 2 \/ k = 3 \/ k = 4 \/ k = 5 \/ k = 6 \/ k = 7
    BY <1>2
  <2>2. R!Inner[k] \in R!Names
    BY <2>1, OrdersAre, NamesAre
  <2>3. R!InnerContent(maker[p], p, R!Inner[k]) \in R!FileContents
    BY <1>2, InnerContentIs
  <2> QED
    BY <2>2, <2>3
<1>6. CASE R!Fail(p) /\ UNCHANGED report
  BY <1>1, <1>6, CheckFails
<1>7. ASSUME tampered = 0
      PROVE  "receipt" \notin DOMAIN report /\ (k # 7 => f # "receipt")
  <2>1. DOMAIN report = {R!Inner[i] : i \in 1..(k - 1)}
    BY <1>4, <1>7 DEF InnerWritten
  <2>2. \A i \in 1..7 : R!Inner[i] = "receipt" => i = 7
    <3>1. \A i \in 1..7 : i = 1 \/ i = 2 \/ i = 3 \/ i = 4 \/ i = 5 \/ i = 6 \/ i = 7
      OBVIOUS
    <3> QED
      BY <3>1, OrdersAre
  <2>3. \A i \in 1..(k - 1) : i \in 1..7 /\ i # 7
    BY <1>2
  <2> QED
    BY <1>2, <1>5, <2>1, <2>2, <2>3
<1>8. CASE report' = R!With(report, f, c) /\ R!Advance(p, R!Inner, "verify")
  <2> DEFINE s == IF k = 7 THEN "verify" ELSE "inner"
  <2> PICK j : j = Moved(maker[p], s, k + 1)
    OBVIOUS
  <2>1. /\ j \in Jobs /\ j.step = s /\ j.at = k + 1 /\ j.baseline = maker[p].baseline /\ j.observation = maker[p].observation
        /\ j.case = maker[p].case /\ j.evidence = maker[p].evidence
    <3>1. PICK i \in Jobs, t \in Steps, l \in 0..8 : i = maker[p] /\ t = s /\ l = k + 1
      BY <1>2 DEF Steps
    <3>2. j = Moved(i, t, l)
      BY <3>1
    <3>3. /\ Moved(i, t, l) \in Jobs /\ Moved(i, t, l).step = t /\ Moved(i, t, l).at = l
          /\ Moved(i, t, l).baseline = i.baseline /\ Moved(i, t, l).observation = i.observation
          /\ Moved(i, t, l).case = i.case /\ Moved(i, t, l).evidence = i.evidence
      BY JobMoves
    <3> QED
      BY <3>1, <3>2, <3>3
  <2>2. maker' = [maker EXCEPT ![p] = j]
    BY <1>1, <1>2, <1>8, OrdersAre DEF R!Set, R!Advance, Moved, Jobs
  <2>3. JobOK(j)
    BY <1>2, <2>1 DEF JobOK
  <2>4. report' \in Bundles /\ report' # None
    BY <1>3, <1>8, WithIs
  <2>5. DOMAIN report' = DOMAIN report \union {f}
    BY <1>3, <1>8, WithIs
  <2>6. ASSUME tampered = 0 PROVE Alone(p, j)
    <3>1. InnerWritten(k, report', maker[p], p)
      BY <1>2, <1>3, <1>4, <1>5, <1>8, <2>6, InnerGrows
    <3>2. \A g : /\ R!OuterContent(j, p, g) = R!OuterContent(maker[p], p, g)
                 /\ R!InnerContent(j, p, g) = R!InnerContent(maker[p], p, g)
      BY <2>1 DEF R!OuterContent, R!InnerContent
    <3>3. InnerWritten(k, report', j, p) /\ OuterWritten(4, dir', j, p)
      BY <1>1, <1>4, <2>6, <3>1, <3>2 DEF InnerWritten, OuterWritten
    <3>4. Stage(j, p, dir', report')
      BY <1>1, <1>2, <1>3, <1>4, <2>1, <2>6, <3>3 DEF Stage
    <3>5. j.at # 8 => Receiptless(report')
      BY <1>2, <1>7, <2>1, <2>5, <2>6 DEF Receiptless
    <3> QED
      BY <1>1, <1>2, <1>3, <1>4, <2>1, <2>4, <2>6, <3>4, <3>5 DEF Alone
  <2>7. Stays(j)
    BY <1>1, <1>3, <2>1, <2>4 DEF Stays
  <2> QED
    BY <1>1, <2>1, <2>2, <2>3, <2>4, <2>6, <2>7, FilesAre, MakerStep
<1>9. CASE report' = R!With(report, f, Junk) /\ R!Fail(p)
  <2> PICK j : j = Closing(maker[p], "failed")
    OBVIOUS
  <2>1. j \in Jobs /\ JobOK(j) /\ j.at = k /\ j.step = "failed"
    BY Failed
  <2>2. maker' = [maker EXCEPT ![p] = j]
    BY <1>9 DEF R!Fail, R!Set, Closing
  <2>3. Junk \in R!FileContents
    BY DEF R!FileContents
  <2>4. report' \in Bundles /\ report' # None
    BY <1>3, <1>9, <2>3, WithIs
  <2>5. DOMAIN report' = DOMAIN report \union {f} /\ report'[f] = Junk
    <3>1. DOMAIN report' = DOMAIN report \union {f}
      BY <1>3, <1>9, <2>3, WithIs
    <3>2. report'[f] = Junk
      BY <1>3, <1>9, <2>3, WithIs
    <3> QED
      BY <3>1, <3>2
  <2>6. ASSUME tampered = 0 PROVE Alone(p, j)
    <3>1. Stage(j, p, dir', report')
      BY <1>1, <1>2, <1>3, <2>1, Failed
    <3>2. Receiptless(report')
      BY <1>7, <2>5, <2>6 DEF Receiptless
    <3> QED
      BY <1>1, <1>2, <1>3, <1>4, <2>1, <2>4, <2>6, <3>1, <3>2 DEF Alone
  <2>7. Stays(j)
    BY <1>1, <1>3, <2>1, <2>4 DEF Stays
  <2> QED
    BY <1>1, <2>1, <2>2, <2>4, <2>6, <2>7, FilesAre, MakerStep
<1> QED
  BY <1>5, <1>6, <1>8, <1>9 DEF R!WriteInner

(* A check returns what it has verified.                                   *)
LEMMA ReturnKeeps ==
  ASSUME BundleInv, NEW p \in Makers, R!Return(p)
  PROVE  BundleInv'
<1> PICK t : t = R!ReceiptOf(maker[p].case, maker[p].evidence, p)
  OBVIOUS
<1>1. maker[p].step = "verify" /\ UNCHANGED <<dir, report, tampered>>
  BY DEF R!Return, R!At
<1>2. CASE R!Fail(p) /\ UNCHANGED returned
  BY <1>1, <1>2, CheckFails
<1>3. CASE /\ R!Verifies(maker[p].baseline, t) /\ R!Set(p, [maker[p] EXCEPT !.step = "returned"])
           /\ returned' = returned \union {[proc |-> p, baseline |-> maker[p].baseline, receipt |-> t, dir |-> dir, report |-> report]}
  <2> PICK j : j = Closing(maker[p], "returned")
    OBVIOUS
  <2>1. maker[p] \in Jobs /\ maker[p].at = 8 /\ JobOK(maker[p]) /\ dir # None
    BY <1>1, MakerIs DEF JobOK
  <2>2. /\ j \in Jobs /\ j.step = "returned" /\ j.at = 8 /\ j.baseline = maker[p].baseline
        /\ j.observation = maker[p].observation /\ j.case = maker[p].case /\ j.evidence = maker[p].evidence
    BY <2>1, JobCloses DEF Steps
  <2>3. JobOK(j)
    BY <2>1, <2>2 DEF JobOK
  <2>4. maker' = [maker EXCEPT ![p] = j]
    BY <1>3 DEF R!Set, Closing
  <2>5. VerifiesOf(dir, report, maker[p].baseline, t)
    BY <1>3, VerifiesHere
  <2>6. dir \in Bundles /\ report \in Bundles /\ dir' = dir /\ report' = report /\ t \in R!Receipts
    <3>1. report # None /\ R!ReportVerifies(report, t)
      BY <2>5 DEF VerifiesOf
    <3>2. t \in R!Receipts
      <4>1. maker[p].case \in R!Cases /\ maker[p].evidence = maker[p].case.evidence
        BY <2>1 DEF JobOK
      <4> QED
        BY <4>1, CasesAre
    <3> QED
      BY <1>1, <2>1, <3>1, <3>2, FilesAre
  <2>7. Returns(p, j)
    <3>1. PICK r : r = [proc |-> p, baseline |-> maker[p].baseline, receipt |-> t, dir |-> dir, report |-> report]
      OBVIOUS
    <3>2. r.proc = p /\ r.baseline = maker[p].baseline /\ r.receipt = t /\ r.dir = dir /\ r.report = report
      BY <3>1
    <3>3. Result(r)
      BY <2>5, <2>6, <3>2 DEF Result
    <3> QED
      BY <1>3, <2>2, <2>6, <3>1, <3>2, <3>3 DEF Returns
  <2>8. ASSUME tampered = 0 PROVE Alone(p, j)
    <3>1. \A g : /\ R!OuterContent(j, p, g) = R!OuterContent(maker[p], p, g)
                 /\ R!InnerContent(j, p, g) = R!InnerContent(maker[p], p, g)
      BY <2>2 DEF R!OuterContent, R!InnerContent
    <3>2. Stage(maker[p], p, dir, report) /\ \A q \in Makers : q # p => maker[q].at = 0
      BY <2>1, <2>8, MakerIs
    <3>3. Stage(j, p, dir', report')
      BY <2>1, <2>2, <2>6, <3>1, <3>2 DEF Stage, OuterWritten, InnerWritten
    <3> QED
      BY <1>1, <2>1, <2>2, <3>2, <3>3 DEF Alone
  <2>9. Stays(j)
    BY <2>2, <2>1, <2>6 DEF Stays
  <2> QED
    BY <1>1, <2>2, <2>3, <2>4, <2>6, <2>7, <2>8, <2>9, MakerStep
<1> QED
  BY <1>2, <1>3 DEF R!Return

(* What a user makes of a directory is a directory.                        *)
LEMMA EditedIs ==
  ASSUME NEW d \in Bundles, NEW order, order = R!Outer \/ order = R!Inner, NEW e \in R!Edited(d, order)
  PROVE  e \in Bundles
<1>1. R!Files(order) \subseteq R!Names
  BY DEF R!Names
<1>2. \A f \in R!Files(order) : R!Written(f) \subseteq R!FileContents
  BY DEF R!Written, R!FileContents
<1>3. \A f \in R!Names, c \in R!FileContents : R!With(d, f, c) \in Bundles
  <2> SUFFICES ASSUME NEW f \in R!Names, NEW c \in R!FileContents PROVE R!With(d, f, c) \in Bundles
    OBVIOUS
  <2> QED
    BY WithIs
<1>4. CASE e \in {R!With(d, f, c) : f \in {"unlisted"}, c \in {Junk}}
  <2>1. "unlisted" \in R!Names /\ Junk \in R!FileContents
    BY DEF R!Names, R!FileContents
  <2>2. R!With(d, "unlisted", Junk) \in Bundles
    BY <1>3, <2>1
  <2>3. e = R!With(d, "unlisted", Junk)
    BY <1>4
  <2> QED
    BY <2>2, <2>3
<1>5. CASE e \in UNION {{R!With(d, f, c) : c \in R!Written(f)} : f \in R!Files(order) \intersect DOMAIN d}
  <2>1. PICK f \in R!Files(order) \intersect DOMAIN d : e \in {R!With(d, f, c) : c \in R!Written(f)}
    BY <1>5
  <2>2. PICK c \in R!Written(f) : e = R!With(d, f, c)
    BY <2>1
  <2>3. f \in R!Names /\ c \in R!FileContents
    BY <1>1, <1>2, <2>1, <2>2
  <2>4. R!With(d, f, c) \in Bundles
    BY <1>3, <2>3
  <2> QED
    BY <2>2, <2>4
<1>6. CASE e \in {[g \in DOMAIN d \ {f} |-> d[g]] : f \in DOMAIN d}
  <2>1. PICK f \in DOMAIN d : e = [g \in DOMAIN d \ {f} |-> d[g]]
    BY <1>6
  <2>2. d \in [DOMAIN d -> R!FileContents] /\ DOMAIN d \subseteq R!Names
    BY BundlesAreFiles
  <2>3. e \in [DOMAIN d \ {f} -> R!FileContents] /\ DOMAIN d \ {f} \in SUBSET R!Names
    BY <2>1, <2>2
  <2> QED
    BY <2>3 DEF Bundles
<1> QED
  BY <1>4, <1>5, <1>6 DEF R!Edited

LEMMA EditKeeps == BundleInv /\ R!Edit => BundleInv'
<1> SUFFICES ASSUME BundleInv, R!Edit PROVE BundleInv'
  OBVIOUS
<1>1. tampered' = tampered + 1 /\ UNCHANGED <<maker, returned>>
  BY DEF R!Edit
<1>2. tampered' \in Nat /\ tampered' # 0
  BY <1>1, FilesAre
<1>3. /\ dir' \in {None} \union Bundles /\ (dir # None => dir' # None)
      /\ report' \in {None} \union Bundles /\ (report # None => report' # None)
  <2>1. CASE dir # None /\ dir' \in R!Edited(dir, R!Outer) /\ UNCHANGED report
    BY <2>1, FilesAre, EditedIs, BundlesAreFiles
  <2>2. CASE report # None /\ report' \in R!Edited(report, R!Inner) /\ UNCHANGED dir
    BY <2>2, FilesAre, EditedIs, BundlesAreFiles
  <2>3. CASE UNCHANGED <<dir, report>>
    BY <2>3, FilesAre
  <2> QED
    BY <2>1, <2>2, <2>3 DEF R!Edit
<1>4. BundleTypes'
  BY <1>1, <1>2, <1>3 DEF BundleInv, BundleTypes, JobOK, Result
<1>5. OfOneCheck'
  BY <1>2 DEF OfOneCheck
<1> QED
  BY <1>4, <1>5 DEF BundleInv

LEMMA BundleStep == BundleInv /\ [R!Next]_bundle => BundleInv'
<1> SUFFICES ASSUME BundleInv, [R!Next]_bundle PROVE BundleInv'
  OBVIOUS
<1>1. ASSUME NEW p \in Makers, R!Die(p) PROVE BundleInv'
  BY <1>1, CheckFails DEF R!Die
<1>2. CASE UNCHANGED bundle
  <2>1. UNCHANGED <<dir, report, maker, returned, tampered>>
    BY <1>2 DEF bundle
  <2>2. BundleTypes'
    BY <2>1 DEF BundleInv, BundleTypes, JobOK, Result
  <2>3. OfOneCheck'
    BY <2>1 DEF BundleInv, OfOneCheck, Stage, OuterWritten, InnerWritten, Receiptless
  <2> QED
    BY <2>2, <2>3 DEF BundleInv
<1> QED
  BY <1>1, <1>2, CheckBegins, CreateKeeps, WriteOuterKeeps, PreflightKeeps, WriteInnerKeeps, ReturnKeeps, EditKeeps
     DEF R!Next

IInvBundle == what = "bundle" => BundleInv
LEMMA BundleInductive == MCSpec => []IInvBundle
<1>1. MCInit => IInvBundle
  BY BundleInit DEF MCInit, IInvBundle
<1>2. ASSUME IInvBundle, [MCNext]_<<what, vars, fetch, private, orbit, bundle>> PROVE IInvBundle'
  <2>1. CASE what = "bundle"
    <3>1. what' = what /\ [R!Next]_bundle
      BY <1>2, <2>1 DEF MCNext
    <3> QED
      BY <1>2, <2>1, <3>1, BundleStep DEF IInvBundle
  <2>2. CASE what # "bundle"
    BY <1>2, <2>2 DEF MCNext, IInvBundle
  <2> QED
    BY <2>1, <2>2
<1> QED
  BY <1>1, <1>2, PTL DEF MCSpec

(* A bundle that verifies against the receipt of a check is that check's,  *)
(* file by file, whatever was done to it since; as long as nobody edits it *)
(* it goes on verifying, and what verifies was finished by one check,      *)
(* however many make a bundle at one place (check and verify of orbit.rs,  *)
(* create_report and verify_report).                                       *)
THEOREM BundlesVerifyWhole == MCSpec => []BundlesAreWhole
<1>1. ASSUME BundleInv, NEW r \in returned, R!Verifies(r.baseline, r.receipt)
      PROVE  dir = r.dir /\ report = r.report
  <2>1. Result(r) /\ VerifiesOf(dir, report, r.baseline, r.receipt)
    BY <1>1, VerifiesHere DEF BundleInv, BundleTypes
  <2>2. dir \in Bundles /\ report \in Bundles
    BY <1>1, <2>1, FilesAre DEF VerifiesOf
  <2>3. r.dir \in Bundles /\ r.report \in Bundles /\ r.receipt \in R!Receipts
        /\ VerifiesOf(r.dir, r.report, r.baseline, r.receipt)
    BY <2>1 DEF Result
  <2> QED
    BY <2>1, <2>2, <2>3, ReceiptDetermines
<1>2. ASSUME BundleInv, tampered = 0, NEW p \in Makers, maker[p].at = 8
      PROVE  dir["observations"] = maker[p].observation /\ dir["case"].author = p
  <2>1. OuterWritten(4, dir, maker[p], p) /\ maker[p] \in Jobs
    BY <1>2, MakerIs DEF Stage
  <2>2. maker[p].baseline \in Baselines /\ maker[p].observation \in Observations
    BY <1>2, MakerIs DEF JobOK
  <2>3. dir["observations"] = maker[p].observation /\ dir["case"] = R!Case(p, maker[p].baseline, maker[p].observation)
    <3>1. /\ dir[R!Outer[2]] = R!OuterContent(maker[p], p, R!Outer[2])
          /\ dir[R!Outer[4]] = R!OuterContent(maker[p], p, R!Outer[4])
      BY <2>1 DEF OuterWritten
    <3> QED
      BY <2>1, <2>2, <3>1, ContentIs, OrdersAre
  <2> QED
    BY <2>3 DEF R!Case
<1>3. ASSUME BundleInv, tampered = 0, NEW r \in returned
      PROVE  /\ R!Verifies(r.baseline, r.receipt) /\ dir["observations"] = maker[r.proc].observation
             /\ dir["case"].author = r.proc
  <2>1. Result(r) /\ maker[r.proc].at = 8 /\ r.dir = dir /\ r.report = report
    BY <1>3 DEF BundleInv, BundleTypes, OfOneCheck
  <2>2. r.proc \in Makers /\ VerifiesOf(dir, report, r.baseline, r.receipt)
    BY <2>1 DEF Result
  <2> QED
    BY <1>2, <1>3, <2>1, <2>2, VerifiesHere
<1>4. ASSUME BundleInv, tampered = 0, NEW b \in Baselines, R!Verifies(b, None)
      PROVE  \E p \in Makers : /\ maker[p].at > Len(R!Inner) /\ dir["case"].author = p
                               /\ dir["observations"] = maker[p].observation
  <2>1. report # None /\ R!ReportVerifies(report, None)
    BY <1>4 DEF R!Verifies
  <2>2. "receipt" \in DOMAIN report /\ report["receipt"] \in R!Receipts
    BY <2>1, OrdersAre DEF R!ReportVerifies
  <2>3. ~Receiptless(report)
    BY <2>1, <2>2, BundlesAreFiles DEF Receiptless
  <2>4. PICK p \in Makers : maker[p].at = 8
    BY <1>4, <2>3 DEF BundleInv, OfOneCheck
  <2> QED
    BY <1>2, <1>4, <2>4, OrdersAre
<1>5. IInvBundle => BundlesAreWhole
  BY <1>1, <1>3, <1>4 DEF IInvBundle, BundlesAreWhole, R!BundlesAreWhole
<1> QED
  BY <1>5, BundleInductive, PTL
=============================================================================
