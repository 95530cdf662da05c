------------------------------- MODULE Private --------------------------------
(***************************************************************************)
(* Private programs: which way a source goes (main.rs, runtime.rs,         *)
(* private_launcher.rs), what it may contain (confidential.rs) and what    *)
(* its operations on files do (crypto_cli.rs, recipient_crypto.rs).  The   *)
(* age library authenticates an encryption chunk by chunk; a chunk says    *)
(* which encryption it is of, its place, and whether it is the last.       *)
(***************************************************************************)
EXTENDS Naturals, Sequences, FiniteSets, Functions

CONSTANTS
  Mains, Libraries,   \* sources, as their statements
  Paths, Values,      \* files, and what a block of one may be
  Keys, Strong,       \* passwords, those of at least twelve bytes
  MaxPlain, MaxCipher, MaxPreview,   \* sizes, in blocks
  MaxCalls, MaxTouches,              \* bounds: calls of a program, what others do
  End, None

PrivateConstants ==
  /\ {MaxPlain, MaxCipher, MaxPreview, MaxCalls, MaxTouches} \subseteq Nat
  /\ MaxCipher >= MaxPlain + 2   \* MAX_CIPHERTEXT: the header and the tags of 2^14 chunks are below 2 MiB
  /\ Strong \subseteq Keys /\ End \notin Values
  /\ \A s \in Mains \union Libraries : s \in Seq(STRING)
  /\ \A v \in Values : v \notin [key : Keys, of : Nat] \union [of : Nat, place : Nat, block : Values \union {End}]
                                \union [secret : Nat] \union [public : Nat]
  /\ None \notin Values \union [key : Keys, plain : Seq(Values)] \union [1..1 -> [secret : Nat]]

VARIABLES
  main, lib, frozen,  \* the source and the library it imports, as they are; is the source frozen
  source,             \* the source in memory
  program,            \* source and library, resolved
  evidence,           \* the texts that are kept in a run directory
  at,                 \* the step of the command, or "done"
  file,               \* name -> the blocks of the file, or None
  work,               \* the file operation in progress, or None
  calls,              \* encryptions and calls so far
  made,               \* history: number of an encryption -> its password and what it read
  released,           \* history: plaintexts that were published or returned
  published,          \* history: public keys that were returned or saved
  touches

vars == <<main, lib, frozen, source, program, evidence, at, file, work, calls, made, released, published, touches>>
sources == <<main, lib, frozen>>
routing == <<source, program, evidence>>
crypto == <<file, work, calls, made, released, published>>

-----------------------------------------------------------------------------
(* Sources.  "quoted" is a text that has GO_PRIVATE in a line of its own.  *)
(* Mutant: what parses as the directive.                                   *)
Has(s, x) == x \in Range(s)
Parsed(s) == Has(s, "GO_PRIVATE") /\ ~Has(s, "malformed")
Declared(s) == Has(s, "GO_PRIVATE") \/ Has(s, "quoted")
Confidential(s) == Has(s, "encrypt_text")
Library(l) == l # None /\ ~Has(l, "malformed") /\ ~Has(l, "GO_PRIVATE")
Resolves(s, l) == ~Has(s, "malformed") /\ (Has(s, "import") => Library(l))
Resolved(s, l) == IF Has(s, "import") THEN s \o l ELSE s

(* validate: GO_PRIVATE once and first; confidential functions with it,    *)
(* the functions and statements of the evidence machinery without it.      *)
Validate(p) ==
  LET private == Has(p, "GO_PRIVATE")
  IN /\ private => p[1] = "GO_PRIVATE" /\ Cardinality({i \in DOMAIN p : p[i] = "GO_PRIVATE"}) = 1
     /\ ~private => ~Confidential(p)
     /\ private => Range(p) \intersect {"csv_column", "seal", "GO_PARANOID"} = {}

Init ==
  /\ main \in Mains /\ lib \in Libraries \union {None} /\ frozen \in BOOLEAN
  /\ source = << >> /\ program = << >> /\ evidence = {} /\ at = "route"
  /\ file \in [Paths -> {None} \union {<<v>> : v \in Values} \union {<<v, v>> : v \in Values}]
  /\ work = None /\ calls = 0 /\ made = << >> /\ released = {} /\ published = {} /\ touches = 0

Goto(l) == at' = l
Kept == UNCHANGED <<sources, touches, crypto>>

(* command_run reads the source once to see where it goes.                 *)
Route ==
  /\ at = "route" /\ Goto(IF Declared(main) THEN "launcher" ELSE "run")
  /\ Kept /\ UNCHANGED routing

(* private_launcher::load.                                                 *)
Load ==
  /\ at = "launcher"
  /\ IF Resolves(main, lib) /\ Validate(Resolved(main, lib)) /\ Has(main, "GO_PRIVATE") /\ ~frozen
       THEN Goto("private") /\ program' = Resolved(main, lib)
       ELSE Goto("done") /\ UNCHANGED program
  /\ Kept /\ UNCHANGED <<source, evidence>>

(* run_file reads it again; looks at it with what it imports; keeps it;    *)
(* reads the imports again, keeps them, and validates it all.              *)
RunRead ==
  /\ at = "run" /\ source' = main /\ Goto(IF Declared(main) THEN "done" ELSE "check")
  /\ Kept /\ UNCHANGED <<program, evidence>>
RunCheck ==
  /\ at = "check"
  /\ Goto(IF Resolves(source, lib) /\ ~Validate(Resolved(source, lib)) THEN "done" ELSE "keep")
  /\ Kept /\ UNCHANGED routing
RunKeep ==
  /\ at = "keep" /\ evidence' = {source} /\ Goto("resolve")
  /\ Kept /\ UNCHANGED <<source, program>>
RunResolve ==
  /\ at = "resolve"
  /\ IF Resolves(source, lib)
       THEN /\ program' = Resolved(source, lib) /\ Goto("validate")
            /\ evidence' = evidence \union (IF Has(source, "import") THEN {lib} ELSE {})
       ELSE Goto("done") /\ UNCHANGED <<program, evidence>>
  /\ Kept /\ UNCHANGED source
RunValidate ==
  /\ at = "validate" /\ Goto(IF Validate(program) THEN "science" ELSE "done")
  /\ Kept /\ UNCHANGED routing

-----------------------------------------------------------------------------
(* An encryption: a header, and chunks of which the last ends it.          *)
Header(k, n) == [key |-> k, of |-> n]
Chunk(n, i, v) == [of |-> n, place |-> i, block |-> v]
IsHeader(u) == u \notin Values /\ DOMAIN u = {"key", "of"}

Calling == at = "private" /\ work = None /\ calls < MaxCalls
Outside == UNCHANGED <<sources, routing, at, touches>>
Begin(o) == work' = o /\ calls' = calls + 1
Return == work' = None
(* An error ends the operation; its staging file goes with it.             *)
Fail == Return /\ UNCHANGED <<file, calls, made, released, published>>

(* script_operation: the password, the destination, the input.             *)
ValidPassword(k, encrypt) == encrypt => k \in Strong
Destination(out) == file[out] = None
OpenRegular(n, limit) == file[n] # None /\ Len(file[n]) <= limit
EncryptFile(n, k, out) ==
  /\ Calling /\ ValidPassword(k, TRUE) /\ Destination(out) /\ OpenRegular(n, MaxPlain) /\ Range(file[n]) \subseteq Values
  /\ Begin([fn |-> "encrypt", from |-> n, out |-> out, of |-> calls + 1, read |-> 0, eof |-> FALSE,
            staged |-> <<Header(k, calls + 1)>>])
  /\ made' = Append(made, [key |-> k, plain |-> << >>])
  /\ UNCHANGED <<file, released, published>> /\ Outside
DecryptFile(n, k, out) ==   \* out is None: decrypt_text, --show
  /\ Calling /\ ValidPassword(k, FALSE) /\ (out # None => Destination(out)) /\ OpenRegular(n, MaxCipher)
  /\ IsHeader(file[n][1]) /\ file[n][1].key = k
  /\ Begin([fn |-> "decrypt", from |-> n, out |-> out, of |-> file[n][1].of, read |-> 1, eof |-> FALSE, staged |-> << >>])
  /\ made' = Append(made, None)
  /\ UNCHANGED <<file, released, published>> /\ Outside

(* copy_bounded, block by block, of a file that others may be writing to.  *)
Limit == IF work.fn = "decrypt" /\ work.out = None THEN MaxPreview ELSE MaxPlain
Block == IF work.read < Len(file[work.from]) THEN file[work.from][work.read + 1] ELSE None
Reading == at = "private" /\ work # None /\ work.fn \in {"encrypt", "decrypt"} /\ ~work.eof
Copy(u, v) == /\ work' = [work EXCEPT !.read = @ + 1, !.staged = Append(@, u)]
              /\ IF work.fn = "encrypt" THEN made' = [made EXCEPT ![work.of].plain = Append(@, v)] ELSE UNCHANGED made
              /\ UNCHANGED <<file, calls, released, published>>
CopyEncrypt ==
  /\ Reading /\ work.fn = "encrypt" /\ Block # None
  /\ IF work.read + 1 > Limit THEN Fail ELSE Copy(Chunk(work.of, work.read + 1, Block), Block)
  /\ Outside

(* The end of the input: finish writes the last chunk.  Mutant: it is not  *)
(* called.                                                                 *)
Unfinished == work' = [work EXCEPT !.eof = TRUE]
Finish == work' = [work EXCEPT !.eof = TRUE, !.staged = Append(@, Chunk(work.of, work.read + 1, End))]
FinishEncrypt ==
  /\ Reading /\ work.fn = "encrypt" /\ Block = None /\ Finish
  /\ UNCHANGED <<file, calls, made, released, published>> /\ Outside

(* A chunk of this encryption at this place; or the end, when it is due.   *)
(* Mutant: the end of the file is one.                                     *)
Authentic(u, v) == u = Chunk(work.of, work.read, v)
AnyEnd == Block = None \/ Authentic(Block, End)
AuthenticEnd == Block # None /\ Authentic(Block, End) /\ Len(file[work.from]) = work.read + 1
CopyDecrypt ==
  /\ Reading /\ work.fn = "decrypt"
  /\ \/ AuthenticEnd /\ work' = [work EXCEPT !.eof = TRUE] /\ UNCHANGED <<file, calls, made, released, published>>
     \/ \E v \in Values : /\ Block # None /\ Authentic(Block, v)
                          /\ IF work.read > Limit THEN Fail ELSE Copy(v, v)
     \/ ~AuthenticEnd /\ (\A v \in Values : Block = None \/ ~Authentic(Block, v)) /\ Fail
  /\ Outside

(* persist_noclobber: a link to the staging file.  Mutant: a rename.       *)
Replace(n, staged) == file' = [file EXCEPT ![n] = staged]
Persist(n, staged) == file[n] = None /\ file' = [file EXCEPT ![n] = staged]
Publish ==
  /\ at = "private" /\ work # None /\ work.fn \in {"encrypt", "decrypt"} /\ work.eof
  /\ \/ work.out # None /\ Persist(work.out, work.staged) /\ Return /\ UNCHANGED <<calls, made, published>>
     \/ work.out = None /\ Return /\ UNCHANGED <<file, calls, made, published>>
  /\ released' = IF work.fn = "decrypt" THEN released \union {<<work.of, work.staged>>} ELSE released
  /\ Outside

(* e2e_keygen: the private key, then the public one if it is asked for.    *)
Secret(n) == <<[secret |-> n]>>
Keygen(n, out) ==
  /\ Calling
  /\ IF file[n] # None THEN calls' = calls + 1 /\ UNCHANGED <<file, work, published>>
     ELSE /\ file' = [file EXCEPT ![n] = Secret(calls + 1)]
          /\ Begin([fn |-> "keygen", from |-> n, out |-> out, of |-> calls + 1]) /\ UNCHANGED published
  /\ made' = Append(made, None) /\ UNCHANGED released /\ Outside
SavePublic ==
  /\ at = "private" /\ work # None /\ work.fn = "keygen" /\ Return
  /\ IF work.out # None /\ file[work.out] # None THEN UNCHANGED <<file, published>>
     ELSE /\ published' = published \union {work.of}
          /\ IF work.out = None THEN UNCHANGED file ELSE file' = [file EXCEPT ![work.out] = <<[public |-> work.of]>>]
  /\ UNCHANGED <<calls, made, released>> /\ Outside

(* A failed read, write or synchronisation; or the program is killed.      *)
IOError == at = "private" /\ work # None /\ Fail /\ Outside
Killed == at \notin {"done", "science"} /\ Goto("done") /\ UNCHANGED <<sources, routing, crypto, touches>>

-----------------------------------------------------------------------------
(* Other programs edit the sources, or create, remove, write to, cut off   *)
(* and put together files.                                                 *)
Touch == touches < MaxTouches /\ touches' = touches + 1
Edit ==
  /\ Touch /\ at \notin {"private", "done", "science"}
  /\ \/ main' \in Mains /\ UNCHANGED lib
     \/ lib' \in Libraries \union {None} /\ UNCHANGED main
  /\ UNCHANGED <<frozen, routing, at, crypto>>
Cut(s) == {SubSeq(s, 1, Len(s) - 1)} \ {<< >>}
Spliced(s) == UNION {{[s EXCEPT ![i] = file[n][i]] : i \in {j \in DOMAIN s \intersect DOMAIN file[n] : s[j] \in Values <=> file[n][j] \in Values}}
                     : n \in {m \in Paths : file[m] # None}}
Disturb(n) ==
  /\ Touch /\ at = "private"
  /\ file' \in {[file EXCEPT ![n] = s] :
                  s \in IF file[n] = None THEN {<<v>> : v \in Values} ELSE {None} \union Cut(file[n]) \union Spliced(file[n])}
  /\ (work # None => work.from # n \/ file'[n] # None) /\ file' # file
  /\ UNCHANGED <<sources, routing, at, work, calls, made, released, published>>

Routing == Route \/ Load \/ RunRead \/ RunCheck \/ RunKeep \/ RunResolve \/ RunValidate
Operation ==
  \/ \E n, out \in Paths, k \in Keys : EncryptFile(n, k, out)
  \/ \E n \in Paths, out \in Paths \union {None}, k \in Keys : DecryptFile(n, k, out)
  \/ CopyEncrypt \/ FinishEncrypt \/ CopyDecrypt \/ Publish
  \/ \E n \in Paths, out \in Paths \union {None} : Keygen(n, out)
  \/ SavePublic \/ IOError
Next == Routing \/ Operation \/ Killed \/ Edit \/ \E n \in Paths : Disturb(n)
Spec == Init /\ [][Next]_vars

-----------------------------------------------------------------------------
(* No source that says GO_PRIVATE is kept in a run directory, nor run as a *)
(* scientific program, though the sources are edited between any two times *)
(* they are read; and no call of a confidential function is kept if the    *)
(* sources stay as they are and the imports resolve.                       *)
NotPreserved ==
  /\ \A s \in evidence : ~Has(s, "GO_PRIVATE")
  /\ at = "science" => ~Has(program, "GO_PRIVATE") /\ ~Confidential(program)
  /\ touches = 0 /\ Resolves(main, lib) => \A s \in evidence : ~Confidential(s)

(* "Refuse crypto calls before any plaintext preservation, including       *)
(* imports" (runtime.rs:48).                                               *)
RefusedBeforeKept == \A s \in evidence : ~Confidential(s)

(* A plaintext that is published or returned is the whole of what one      *)
(* encryption read: not a part of it, not parts of two, whatever others    *)
(* do to the file meanwhile.                                               *)
ReleasedIsWhole == \A r \in released : made[r[1]] # None /\ r[2] = made[r[1]].plain

(* A file that an encryption left can be decrypted to all that it read:    *)
(* it is finished, and within the limit of decryption.  And a public key   *)
(* was only given out when its private key was saved.                      *)
Encrypted(n) == <<Header(made[n].key, n)>> \o [i \in DOMAIN made[n].plain |-> Chunk(n, i, made[n].plain[i])]
                  \o <<Chunk(n, Len(made[n].plain) + 1, End)>>
OutputsUsable ==
  touches = 0 =>
    /\ \A n \in Paths : file[n] # None /\ IsHeader(file[n][1]) =>
         file[n] = Encrypted(file[n][1].of) /\ Len(file[n]) <= MaxCipher
    /\ \A k \in published : \E n \in Paths : file[n] = Secret(k)

(* No operation replaces a file that is there, whoever made it meanwhile.  *)
NothingReplaced == \A n \in Paths : file[n] # None => file'[n] = file[n] \/ touches' # touches
=============================================================================
