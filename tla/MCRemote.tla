------------------------------ MODULE MCRemote ------------------------------
(* Messages between a client and a server, one download, one private       *)
(* program, one inspected directory, or the bundle of a check: the parts   *)
(* that meet other programs share no state, and a behaviour is of one.     *)
EXTENDS Network
CONSTANTS Server, Client
CONSTANTS Bytes, Digests, MaxBytes, Hosts, Special, Part, Receipt, Marker, File, MaxTouches, Torn
VARIABLES request, pc, reply, came, names, payload, linked, moved, record, receipt, result, touches
A == INSTANCE Acquisition
ASSUME FetchConstants == A!AcquisitionConstants
fetch == <<request, pc, reply, came, names, payload, linked, moved, record, receipt, result, touches>>

CONSTANTS Mains, Libraries, Paths, Values, Keys, Strong, MaxPlain, MaxCipher, MaxPreview, MaxCalls, End
VARIABLES main, lib, frozen, source, program, evidence, at, file, work, calls, made, released, published, edits
P == INSTANCE Private WITH touches <- edits
ASSUME ProgramConstants == P!PrivateConstants
private == <<main, lib, frozen, source, program, evidence, at, file, work, calls, made, released, published, edits>>

CONSTANTS FileNames, Unsafe, Contents, Trees, MaxEntries, MaxDepth, MaxFile, MaxTotal, MaxNodes, MaxTroubles
VARIABLES node, root, now, hidden, troubles, step, job, frames, reading, entries, bytes, issue, late, baseline, held, heldThen
O == INSTANCE Orbit
ASSUME TreeConstants == O!OrbitConstants
orbit == <<node, root, now, hidden, troubles, step, job, frames, reading, entries, bytes, issue, late, baseline, held, heldThen>>

CONSTANTS Makers, Baselines, Observations, Junk, MaxEdits, MaxFaults
VARIABLES pinned, dir, report, maker, returned, tampered, faults
R == INSTANCE Reports WITH Procs <- Makers, job <- maker, edits <- tampered
ASSUME BundleConstants == R!ReportConstants
bundle == <<pinned, dir, report, maker, returned, tampered, faults>>

VARIABLE what

-----------------------------------------------------------------------------
Both == {Server, Client}
Texts == {<< >>, <<1, 1>>}
Roles == [p \in Both |-> IF p = Server THEN {"net_allow", "net_listen", "net_close"}
                         ELSE {"net_allow", "net_connect", "net_timeout"}]
Expected == {<<0, 1>>}
Sources == {<<"GO_PRIVATE", "encrypt_text">>, <<"GO_PRIVATE", "malformed">>, <<"GO_PRIVATE", "import">>, <<"GO_PRIVATE", "seal">>,
            <<"csv_column", "GO_PRIVATE">>, <<"quoted", "import">>, <<"import">>, <<"import", "encrypt_text">>, <<"encrypt_text">>}
Libs == {<<"malformed">>, <<"encrypt_text">>, <<"csv_column">>, <<"GO_PRIVATE", "encrypt_text">>}

(* A file beside which there may be others, and a file in a directory.     *)
Holds(m) == [kind |-> "dir", data |-> << >>, names |-> [n \in FileNames |-> IF n \in DOMAIN m THEN m[n] ELSE 0], changed |-> 0]
AFile == [kind |-> "file", data |-> <<1, 1>>, names |-> [n \in FileNames |-> 0], changed |-> 0]
Starts == {<<Holds(<<2>>), AFile>>, <<Holds(<<0, 2>>), Holds(<<3>>), AFile>>}
Written == {<<1, 1>>, <<2, 2>>}

-----------------------------------------------------------------------------
NoFetch ==
  /\ request = None /\ pc = "none" /\ reply = None /\ came = << >> /\ names = << >> /\ payload = << >> /\ linked = FALSE
  /\ moved = FALSE /\ record = None /\ receipt = None /\ result = None /\ touches = 0
NoProgram ==
  /\ main = None /\ lib = None /\ frozen = FALSE /\ source = << >> /\ program = << >> /\ evidence = {} /\ at = "done"
  /\ file = << >> /\ work = None /\ calls = 0 /\ made = << >> /\ released = {} /\ published = {} /\ edits = 0
NoOrbit ==
  /\ node = << >> /\ root = 0 /\ now = 0 /\ hidden = FALSE /\ troubles = 0 /\ step = "none" /\ job = "none" /\ frames = << >>
  /\ reading = None /\ entries = << >> /\ bytes = 0 /\ issue = FALSE /\ late = FALSE /\ baseline = << >> /\ held = << >>
  /\ heldThen = << >>
NoBundle ==
  /\ pinned = None /\ dir = None /\ report = None /\ maker = << >> /\ returned = {} /\ tampered = 0 /\ faults = 0
(* Files matter to a program that runs, what is imported to one that may.  *)
OneThing == \/ main = <<"GO_PRIVATE", "encrypt_text">> /\ lib = None /\ ~frozen
            \/ \A n \in Paths : file[n] = None
MCInit == \/ what = "messages" /\ Init /\ NoFetch /\ NoProgram /\ NoOrbit /\ NoBundle
          \/ what = "fetch" /\ Init /\ A!Init /\ NoProgram /\ NoOrbit /\ NoBundle
          \/ what = "private" /\ Init /\ NoFetch /\ P!Init /\ OneThing /\ NoOrbit /\ NoBundle
          \/ what = "orbit" /\ Init /\ NoFetch /\ NoProgram /\ O!Init /\ NoBundle
          \/ what = "bundle" /\ Init /\ NoFetch /\ NoProgram /\ NoOrbit /\ R!Init
MCNext == /\ UNCHANGED what
          /\ \/ what = "messages" /\ Next /\ UNCHANGED <<fetch, private, orbit, bundle>>
             \/ what = "fetch" /\ A!Next /\ UNCHANGED <<vars, private, orbit, bundle>>
             \/ what = "private" /\ P!Next /\ UNCHANGED <<vars, fetch, orbit, bundle>>
             \/ what = "orbit" /\ O!Next /\ UNCHANGED <<vars, fetch, private, bundle>>
             \/ what = "bundle" /\ R!Next /\ UNCHANGED <<vars, fetch, private, orbit>>
MCSpec == MCInit /\ [][MCNext]_<<what, vars, fetch, private, orbit, bundle>>

-----------------------------------------------------------------------------
(* A download that verifies against the digest of its receipt is whole     *)
(* (verify, acquisition.rs, and Bundle::publish, acquisition/storage.rs),  *)
(* fetch returns success only for a bundle that verifies, and a bundle     *)
(* whose postflight failed never does (acquire).                           *)
FetchIsWhole == what = "fetch" => A!CompleteIsWhole /\ A!ResultMatchesBundle

(* Which way a source goes (command_run, run_file and private_launcher).   *)
NotPreserved == what = "private" => P!NotPreserved

(* What is decrypted is a whole encryption, and what is encrypted can be   *)
(* decrypted (perform of crypto_cli.rs, call of confidential.rs).          *)
EncryptionIsWhole == what = "private" => P!ReleasedIsWhole /\ P!OutputsUsable

(* What a scan says of a path was there at some moment of it, and MATCH,   *)
(* MISSING, ADDED and CONTENT_CHANGED are right about two such moments,    *)
(* unless two changes fell into one tick (file_observe, walk, comparison); *)
(* and whatever happens to the directory, the snapshot is one that check   *)
(* and verify accept (Scan against validate_snapshot).                     *)
ObservedAsHeld == what = "orbit" => O!ScanIsTrue /\ O!RowsAreTrue /\ O!SnapshotsValid

(* A bundle that verifies is of one check and as that check left it        *)
(* (check and verify, create_report and verify_report).                    *)
BundlesAreWhole == what = "bundle" => R!BundlesAreWhole

(* Neither a download nor an operation on files replaces a file of another *)
(* program, whichever of the two creates it first (Bundle::publish, link   *)
(* and not rename; persist_noclobber of crypto_cli.rs).                    *)
OthersKept == [][/\ what = "fetch" => A!NoneReplaced
                 /\ what = "private" => P!NothingReplaced]_<<names, file>>

(* "Refuse crypto calls before any plaintext preservation, including       *)
(* imports" (runtime.rs:48).                                               *)
RefusedBeforeKept == what = "private" => P!RefusedBeforeKept
=============================================================================
