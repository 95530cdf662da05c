------------------------------- MODULE Orbit --------------------------------
(* Orbit: a baseline of a directory is captured and the directory is       *)
(* checked against it later (src/src/orbit.rs).  The scan (orbit_scan.rs)  *)
(* walks the tree by directory handles, one system call per step, while    *)
(* other programs write, create, replace and remove what it looks at.      *)
(*                                                                         *)
(* A change sets the time of what it changes.  Times have a granularity:   *)
(* two changes within one tick may leave the same fingerprint, and "hidden" *)
(* says that this has happened.                                            *)
EXTENDS Integers, FiniteSets, SequencesExt

CONSTANTS
  FileNames,      \* file names, as numbers in the order they are sorted in
  Unsafe,         \* those that are not UTF-8 or that safe_relative refuses
  Contents,       \* what is written into files: sequences of buffers
  Trees,          \* the trees at the start: sequences of nodes, the first the root
  None,
  MaxEntries, MaxDepth, MaxFile, MaxTotal,  \* the limits of a scan, sizes in buffers
  MaxNodes,       \* bound on files and directories ever made
  MaxTroubles     \* bound on changes, failing calls and passed deadlines together

(* A file that is written anew is empty first.  Of what is neither a file  *)
(* nor a directory nothing is read.                                        *)
Data == Contents \union {<< >>}
Nodes == [kind : {"file", "dir", "other"}, data : Data, names : [FileNames -> Nat], changed : Nat]
Tree(nodes) ==
  /\ nodes \in Seq(Nodes)
  /\ \A i \in DOMAIN nodes : /\ nodes[i].kind = "dir" => nodes[i].data = << >>
                             /\ nodes[i].kind # "dir" => \A n \in FileNames : nodes[i].names[n] = 0
                             /\ \A n \in FileNames : nodes[i].names[n] <= Len(nodes)

(* What is there at one moment, and what a system call says of it.         *)
Shapes == [kind : {"file", "dir", "other"}, data : Data, names : SUBSET FileNames]
Fingerprints == [node : Nat, bytes : Nat, changed : Nat]
OrbitConstants ==
  /\ FileNames \subseteq Nat /\ Unsafe \subseteq FileNames /\ Contents \subseteq Seq(Nat)
  /\ {MaxEntries, MaxDepth, MaxFile, MaxTotal, MaxNodes, MaxTroubles} \subseteq Nat
  /\ \A t \in Trees : Tree(t) /\ t # << >> /\ t[1].kind = "dir" /\ \A i \in DOMAIN t : t[i].changed = 0
  /\ None \notin Seq(Nat) \union Shapes \union Fingerprints

VARIABLES
  node, root,     \* every file and directory, and the one at the inspected path
  now, hidden, troubles,
  step, job,      \* where the scan is, and what it is for: "capture" or "check"
  frames,         \* the open directories, outermost first: one per Scan::walk
  reading,        \* the file that is open
  entries, bytes, issue, late,   \* Scan, its entries by their paths
  baseline,       \* the entries of the captured baseline
  held, heldThen  \* what was at every path during this scan and during the capture

scan == <<step, frames, reading, entries, bytes, issue>>
vars == <<node, root, now, hidden, troubles, job, late, baseline, held, heldThen, scan>>

Root == << >>
Inspected == UNION {[1..d -> FileNames] : d \in 1..(MaxDepth + 1)}

(* The node a path leads to; 0 is nothing and leads nowhere.               *)
Child(i, n) == IF i # 0 /\ node[i].kind = "dir" THEN node[i].names[n] ELSE 0
At(path) == FoldLeft(Child, root, path)

(* A directory is shown with the names in it.                              *)
Present(i) == {n \in FileNames : node[i].names[n] # 0}
Shown(i) == IF i = 0 THEN None ELSE [kind |-> node[i].kind, data |-> node[i].data, names |-> Present(i)]
ShownAt(path) == Shown(At(path))
HeldNow == [p \in Inspected \union {Root} |-> {ShownAt(p)}]

-----------------------------------------------------------------------------
Trouble == troubles < MaxTroubles /\ troubles' = troubles + 1

(* Other programs; each of their changes is in the tick of the one before  *)
(* it or in a later one.  What they do when a scan has ended is the same   *)
(* as before the next one.                                                 *)
Change(i, new, more) ==
  /\ Trouble
  /\ now' \in {now, now + 1}
  /\ hidden' = (hidden \/ node[i].changed = now')
  /\ node' = [node EXCEPT ![i] = [new EXCEPT !.changed = now']] \o more
New(kind, data) == [kind |-> kind, data |-> data, names |-> [n \in FileNames |-> 0], changed |-> 0]
Made == {New("file", c) : c \in Contents} \union {New("dir", << >>), New("other", << >>)}
Write ==
  \E i \in DOMAIN node, c \in Data :
    node[i].kind = "file" /\ c # node[i].data /\ Change(i, [node[i] EXCEPT !.data = c], << >>)
Place ==
  \E d \in DOMAIN node, n \in FileNames, new \in Made :
    /\ node[d].kind = "dir" /\ Len(node) < MaxNodes
    /\ Change(d, [node[d] EXCEPT !.names[n] = Len(node) + 1], <<[new EXCEPT !.changed = now']>>)
Unlink ==
  \E d \in DOMAIN node, n \in FileNames :
    node[d].names[n] # 0 /\ Change(d, [node[d] EXCEPT !.names[n] = 0], << >>)
ReplaceRoot ==
  /\ Len(node) < MaxNodes /\ Trouble
  /\ node' = Append(node, New("dir", << >>)) /\ root' = Len(node) + 1
  /\ UNCHANGED <<now, hidden>>
Others ==
  /\ step # "done"
  /\ \/ (Write \/ Place \/ Unlink) /\ UNCHANGED root
     \/ ReplaceRoot
  /\ held' = [p \in DOMAIN held |-> held[p] \union {ShownAt(p)'}]
  /\ UNCHANGED <<job, late, baseline, heldThen, scan>>

-----------------------------------------------------------------------------
(* Mutant: the times are left out.                                         *)
FingerprintUntimed(i) == IF i = 0 THEN None ELSE [node |-> i, bytes |-> Len(node[i].data), changed |-> 0]

(* Size, inode and times of what is open; None for what is not.            *)
Fingerprint(i) == IF i = 0 THEN None ELSE [node |-> i, bytes |-> Len(node[i].data), changed |-> node[i].changed]

(* A call that fails.                                                      *)
Fails == Trouble
Works == UNCHANGED troubles
Top == Last(frames)
Depth == Len(frames) - 1
Here == Append(Top.path, Top.name)
Named == Child(Top.dir, Top.name)
Entry(kind, observation) == [kind |-> kind, observation |-> observation, read |-> 0, sha256 |-> None, before |-> None, after |-> None]
Put(path, entry) == entries' = [p \in DOMAIN entries \union {path} |-> IF p = path THEN entry ELSE entries[p]]
Frame(i, path) == [dir |-> i, path |-> path, before |-> Fingerprint(i), todo |-> {}, name |-> 0]
Full == Cardinality(DOMAIN entries) >= MaxEntries
Leave == IF Len(frames) = 1 THEN "finish" ELSE "after"

(* scan: root_handle and the metadata of the root.                         *)
OpenRoot ==
  /\ step = "begin"
  /\ \/ Works /\ frames' = <<Frame(root, Root)>> /\ step' = "list" /\ UNCHANGED issue
     \/ Fails /\ frames' = << >> /\ step' = "end" /\ issue' = TRUE
  /\ UNCHANGED <<reading, entries, bytes>>

(* names: what is there from the first readdir to the last is listed, and  *)
(* what comes or goes meanwhile may be.                                    *)
List ==
  /\ step = "list" /\ step' = "listing" /\ Works
  /\ frames' = [frames EXCEPT ![Len(frames)].todo = Present(Top.dir)]
  /\ UNCHANGED <<reading, entries, bytes, issue>>
Listed ==
  /\ step = "listing"
  /\ \E S \in SUBSET FileNames :
       /\ Top.todo \intersect Present(Top.dir) \subseteq S /\ S \subseteq Top.todo \union Present(Top.dir)
       /\ \/ /\ Works /\ ~late /\ Cardinality(S) <= MaxEntries - Cardinality(DOMAIN entries)
             /\ step' = "name" /\ frames' = [frames EXCEPT ![Len(frames)].todo = S] /\ UNCHANGED issue
          \/ /\ step' = Leave /\ issue' = TRUE /\ UNCHANGED frames
             /\ \/ Fails
                \/ Works /\ (late \/ Cardinality(S) > MaxEntries - Cardinality(DOMAIN entries))
  /\ UNCHANGED <<reading, entries, bytes>>

(* Scan::walk, the next name and its kind_at.                              *)
NextName ==
  /\ step = "name" /\ Top.todo # {}
  /\ LET n == CHOOSE m \in Top.todo : \A k \in Top.todo : m <= k
         i == Child(Top.dir, n)
     IN \/ /\ Full \/ late
           /\ Works
           /\ frames' = [frames EXCEPT ![Len(frames)].todo = {}]
           /\ issue' = TRUE /\ UNCHANGED <<step, entries>>
        \/ /\ ~Full /\ ~late
           /\ frames' = [frames EXCEPT ![Len(frames)].todo = @ \ {n}, ![Len(frames)].name = n]
           /\ \/ n \in Unsafe /\ issue' = TRUE /\ Works /\ UNCHANGED <<step, entries>>
              \/ /\ n \notin Unsafe /\ UNCHANGED issue
                 /\ \/ Works /\ i # 0 /\ node[i].kind = "file" /\ step' = "open" /\ UNCHANGED entries
                    \/ Works /\ i # 0 /\ node[i].kind = "dir" /\ step' = "opendir" /\ UNCHANGED entries
                    \/ /\ Works /\ i # 0 /\ node[i].kind = "other"
                       /\ Put(Append(Top.path, n), Entry("other", "unsupported")) /\ UNCHANGED step
                    \/ /\ IF i = 0 THEN Works ELSE Fails
                       /\ Put(Append(Top.path, n), Entry("other", "unreadable")) /\ UNCHANGED step
  /\ UNCHANGED <<reading, bytes>>

(* Scan::walk, after the last name: the directory is as it was.            *)
NamesEnd ==
  /\ step = "name" /\ Top.todo = {} /\ step' = Leave
  /\ \/ Works /\ issue' = (issue \/ Fingerprint(Top.dir) # Top.before)
     \/ Fails /\ issue' = TRUE
  /\ UNCHANGED <<frames, reading, entries, bytes>>

-----------------------------------------------------------------------------
(* Scan::file_observe: open, read exactly what was there, compare.         *)
(* Mutant: every file may be as large as all of them together.             *)
FitsAlone(size) == size <= MaxFile

(* What is left of the limits when the file is opened.                     *)
Fits(size) == size <= MaxFile /\ size <= MaxTotal - bytes
Done(entry) == Put(Here, entry) /\ reading' = None /\ step' = "name"
OpenFile ==
  LET i == Named
      fresh == [Entry("file", "unreadable") EXCEPT !.before = Fingerprint(i)]
  IN /\ step = "open"
     /\ \/ (IF i = 0 THEN Works ELSE Fails) /\ Done(Entry("file", "unreadable"))
        \/ i # 0 /\ node[i].kind # "file" /\ Works /\ Done(Entry("other", "unsupported"))
        \/ i # 0 /\ node[i].kind = "other" /\ Works /\ Done(Entry("file", "unreadable"))
        \/ /\ i # 0 /\ Works /\ node[i].kind = "file"
           /\ \/ ~Fits(fresh.before.bytes) /\ Done([fresh EXCEPT !.observation = "budget"])
              \/ /\ Fits(fresh.before.bytes)
                 /\ reading' = [handle |-> i, entry |-> fresh, digest |-> << >>]
                 /\ step' = "read" /\ UNCHANGED entries
     /\ UNCHANGED <<frames, bytes, issue>>
Read ==
  LET e == reading.entry
      data == node[reading.handle].data
  IN /\ step = "read" /\ e.read < e.before.bytes
     /\ \/ late /\ Works /\ Done([e EXCEPT !.observation = "budget"]) /\ UNCHANGED bytes
        \/ ~late /\ Fails /\ Done(e) /\ UNCHANGED bytes
        \/ ~late /\ Works /\ Len(data) <= e.read /\ Done([e EXCEPT !.observation = "unstable"]) /\ UNCHANGED bytes
        \/ /\ ~late /\ Works /\ Len(data) > e.read
           /\ reading' = [reading EXCEPT !.entry.read = @ + 1, !.digest = Append(@, data[e.read + 1])]
           /\ bytes' = bytes + 1 /\ UNCHANGED <<step, entries>>
     /\ UNCHANGED <<frames, issue>>
ReadEnd ==
  LET e == reading.entry
  IN /\ step = "read" /\ e.read = e.before.bytes
     /\ \/ Fails /\ Done(e)
        \/ /\ Works /\ step' = "bind" /\ UNCHANGED entries
           /\ reading' = [reading EXCEPT !.entry.after = Fingerprint(reading.handle)]
     /\ UNCHANGED <<frames, bytes, issue>>

BindFile ==
  LET e == reading.entry
  IN /\ step = "bind"
     /\ \E b \in {Fingerprint(Named), None} :
          /\ IF b = Fingerprint(Named) THEN Works ELSE Fails
          /\ IF e.before = e.after /\ b = e.after
               THEN Done([e EXCEPT !.observation = "hashed", !.sha256 = reading.digest])
               ELSE Done([e EXCEPT !.observation = "unstable"])
     /\ UNCHANGED <<frames, bytes, issue>>

(* Scan::walk, a directory in the directory: opened, walked, compared.     *)
OpenDir ==
  LET i == IF Child(Top.dir, Top.name) # 0 /\ node[Named].kind = "dir" THEN Named ELSE 0
  IN /\ step = "opendir"
     /\ \E child \in {i, 0}, b \in {Fingerprint(i), None} :
          /\ child = 0 => b = None
          /\ IF child = i /\ b = Fingerprint(i) THEN Works ELSE Fails
          /\ Put(Here, [Entry("dir", IF Depth >= MaxDepth THEN "budget" ELSE "unreadable") EXCEPT !.before = b])
          /\ IF Depth < MaxDepth /\ child # 0
               THEN frames' = Append(frames, Frame(child, Here)) /\ step' = "list"
               ELSE step' = "name" /\ UNCHANGED frames
     /\ UNCHANGED <<reading, bytes, issue>>
AfterDir ==
  /\ step = "after" /\ step' = "binddir"
  /\ \E a \in {Fingerprint(Top.dir), None} :
       /\ IF a = None THEN Fails ELSE Works
       /\ Put(Top.path, [entries[Top.path] EXCEPT !.after = a])
  /\ UNCHANGED <<frames, reading, bytes, issue>>
BindDir ==
  LET e == entries[Top.path]
      parent == frames[Len(frames) - 1]
      i == Child(parent.dir, parent.name)
      bound == IF i # 0 /\ node[i].kind = "dir" THEN Fingerprint(i) ELSE None
  IN /\ step = "binddir" /\ step' = "name"
     /\ \E b \in {bound, None} :
          /\ IF b = bound THEN Works ELSE Fails
          /\ Put(Top.path, [e EXCEPT !.observation =
               IF e.before # None /\ e.before = e.after /\ b = e.after THEN "directory" ELSE "unstable"])
     /\ frames' = Front(frames) /\ UNCHANGED <<reading, bytes, issue>>

(* scan: the root is still at its path; the deadline has not passed.       *)
Finish ==
  /\ step = "finish" /\ step' = "end"
  /\ \/ Works /\ issue' = (issue \/ Fingerprint(Top.dir) # Fingerprint(root))
     \/ Fails /\ issue' = TRUE
  /\ frames' = << >> /\ UNCHANGED <<reading, entries, bytes>>
EndScan ==
  /\ step = "end" /\ step' = "done" /\ Works
  /\ issue' = (issue \/ late)
  /\ UNCHANGED <<frames, reading, entries, bytes>>
Expire ==
  /\ step \notin {"begin", "done"} /\ ~late /\ late' = TRUE /\ Trouble
  /\ UNCHANGED <<node, root, now, hidden, job, baseline, held, heldThen, scan>>

Steps == \/ OpenRoot \/ List \/ Listed \/ NextName \/ NamesEnd \/ OpenFile \/ Read \/ ReadEnd \/ BindFile
         \/ OpenDir \/ AfterDir \/ BindDir \/ Finish \/ EndScan
Scan ==
  /\ Steps
  /\ held' = IF step = "begin" THEN HeldNow ELSE held
  /\ UNCHANGED <<node, root, now, hidden, job, late, baseline, heldThen>>

Complete == ~issue /\ \A p \in DOMAIN entries : entries[p].observation \in {"hashed", "directory"}

(* capture keeps what a complete scan saw; then the directory is checked.  *)
Capture ==
  /\ step = "done" /\ job = "capture" /\ Complete
  /\ baseline' = entries /\ heldThen' = held /\ job' = "check"
  /\ step' = "begin" /\ entries' = << >> /\ bytes' = 0 /\ late' = FALSE
  /\ UNCHANGED <<node, root, now, hidden, troubles, frames, reading, issue, held>>

Init ==
  /\ node \in Trees /\ root = 1
  /\ now = 1 /\ hidden = FALSE /\ troubles = 0
  /\ step = "begin" /\ job = "capture" /\ frames = << >> /\ reading = None
  /\ entries = << >> /\ bytes = 0 /\ issue = FALSE /\ late = FALSE
  /\ baseline = << >> /\ held = HeldNow /\ heldThen = HeldNow
Next == Others \/ Scan \/ Expire \/ Capture
Spec == Init /\ [][Next]_vars

-----------------------------------------------------------------------------
(* validate_snapshot: what check and verify ask of a snapshot.             *)
Consistent(path) ==
  LET e == entries[path]
  IN /\ Len(path) <= MaxDepth + 1 /\ Range(path) \intersect Unsafe = {} /\ e.read <= MaxFile
     /\ CASE e.observation = "hashed" ->
               e.sha256 # None /\ e.kind = "file" /\ e.before # None /\ e.before = e.after /\ e.before.bytes = e.read
          [] e.observation = "directory" ->
               e.sha256 = None /\ e.kind = "dir" /\ e.before # None /\ e.before = e.after /\ e.read = 0
          [] OTHER -> e.sha256 = None
ValidSnapshot ==
  /\ Cardinality(DOMAIN entries) <= MaxEntries
  /\ \A p \in DOMAIN entries : Consistent(p)
  /\ bytes = SumFunction([p \in DOMAIN entries |-> entries[p].read]) /\ bytes <= MaxTotal

(* comparison: the classification of a path, and the status of the check.  *)
Row(path) ==
  IF path \notin DOMAIN entries THEN IF Complete THEN "missing" ELSE "not_observed"
  ELSE LET e == entries[path]
       IN CASE e.observation = "budget" -> "not_observed"
            [] e.observation \in {"unreadable", "unsupported", "unstable"} -> e.observation
            [] OTHER -> IF path \notin DOMAIN baseline THEN "added"
                        ELSE IF baseline[path].kind = e.kind /\ baseline[path].sha256 = e.sha256 THEN "match" ELSE "changed"
Compared == DOMAIN baseline \union DOMAIN entries
Status ==
  IF ~Complete THEN "INCOMPLETE"
  ELSE IF \A p \in Compared : Row(p) = "match" THEN "MATCH" ELSE "REVIEW_REQUIRED"
Checked == step = "done" /\ job = "check"

-----------------------------------------------------------------------------
(* A digest is of bytes that a file had all at one time, and what a        *)
(* complete scan says of a path was there at some moment of the scan: the  *)
(* file with its bytes, the directory with its names, or nothing.          *)
ScanIsTrue ==
  step = "done" /\ ~hidden =>
    /\ \A p \in DOMAIN entries : entries[p].sha256 # None => entries[p].sha256 \in Data
    /\ Complete =>
         \A p \in DOMAIN held \ DOMAIN entries : p # Root => None \in held[p]
    /\ Complete =>
         \A p \in DOMAIN entries : \E x \in held[p] \ {None} :
           /\ x.kind = entries[p].kind
           /\ IF x.kind = "file" THEN x.data = entries[p].sha256 ELSE x.names = {n \in FileNames : Append(p, n) \in DOMAIN entries}

(* A check that reports MATCH found every path as it was at some moment of *)
(* the capture, and one that reports a missing, added or changed path is   *)
(* right about both times.                                                 *)
RowsAreTrue ==
  Checked /\ ~hidden /\ Complete =>
    /\ Status = "MATCH" => \A p \in DOMAIN held : held[p] \intersect heldThen[p] # {}
    /\ \A p \in Compared :
         /\ Row(p) = "missing" => None \in held[p] /\ heldThen[p] # {None}
         /\ Row(p) = "added" => None \in heldThen[p] /\ held[p] # {None}
         /\ Row(p) = "changed" => \E x \in held[p] \ {None}, y \in heldThen[p] \ {None} : x # y

(* Whatever happens to the tree, the scan's own snapshot is one that check *)
(* and verify accept, within the limits it declares.                       *)
SnapshotsValid == step = "done" => ValidSnapshot
=============================================================================
