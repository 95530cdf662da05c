------------------------------ MODULE Modules -------------------------------
(***************************************************************************)
(* Local function libraries, src/src/modules.rs: the imports of a program  *)
(* are expanded in place, each library once, and the libraries read are    *)
(* kept beside the run, so that the same program can be resolved from that *)
(* evidence.  The files may change between any two reads.  A path is a     *)
(* sequence of names, relative to the directory of the source.             *)
(***************************************************************************)
EXTENDS Naturals, Sequences, FiniteSets, SequencesExt

CONSTANTS
  MaxModules, \* MAX_MODULES
  Programs,   \* the statements of the source
  Projects,   \* the libraries there are when the source is run
  Paths,      \* the paths at which others write,
  Texts,      \* and what they write there
  MaxChanges  \* bounds the model: changes of files and of evidence

LibraryPaths == Seq(STRING) \ {<< >>}
Root == << >>      \* stands for the source itself
(* A statement is a record: an import with its path, a g_func with its     *)
(* name f, or any other.                                                   *)
IsProgram(t) ==
  /\ t \in Seq(ToSet(t))
  /\ \A i \in DOMAIN t : t[i].k \in {"import", "g_func", "statement"} /\ (t[i].k = "import" => t[i].path \in LibraryPaths)
IsProject(d) == DOMAIN d \subseteq LibraryPaths /\ IsFiniteSet(DOMAIN d) /\ \A p \in DOMAIN d : IsProgram(d[p])

LibraryConstants ==
  /\ MaxModules \in Nat
  /\ Paths \subseteq LibraryPaths /\ \A t \in Programs \union Texts : IsProgram(t)
  /\ \A d \in Projects : IsProject(d)

VARIABLES
  main,    \* the program's own statements
  disk,    \* path -> what read returns of it; a path it refuses has none
  changes,
  state,   \* of the run: resolving, resolved, refused; of its evidence: kept, verifying, verified, rejected
  stack,   \* the calls of visit: whose statements, these, and the next of them
  visited, \* the paths that have been met
  read,    \* what the libraries were when they were read
  out,     \* the statements of the expanded program, each by its place
  entries, \* module_imports of the receipt: path -> digest
  objects, \* modules/ of the run directory, each by its digest
  first    \* what the run made of it

vars == <<main, disk, changes, state, stack, visited, read, out, entries, objects, first>>

-----------------------------------------------------------------------------
Top == stack[Len(stack)]
More == Top.next <= Len(Top.text)
Stmt == Top.text[Top.next]
(* local_path: an import is relative to the library that has it.           *)
Beside(of, stmt) == Front(of) \o stmt.path
Path == Beside(Top.of, Stmt)
Active == {stack[i].of : i \in 2..Len(stack)}
Resolving == state \in {"resolving", "verifying"}
Importing == Resolving /\ More /\ Stmt.k = "import"

Put(f, p, x) == [q \in DOMAIN f \union {p} |-> IF q = p THEN x ELSE f[q]]
Cut(f, p) == [q \in DOMAIN f \ {p} |-> f[q]]
(* What is read: the files of the project, or the evidence of the run.     *)
Source == IF state = "resolving" THEN disk ELSE entries
Advanced == [stack EXCEPT ![Len(stack)].next = @ + 1]
Call(of, text) == [of |-> of, text |-> text, next |-> 1]
Refuse == state' = IF state = "resolving" THEN "refused" ELSE "rejected"
Outside == <<main, disk, changes, entries, objects, first>>

(* A library holds imports and functions and nothing else.                 *)
Library(text) == \A i \in DOMAIN text : text[i].k \in {"import", "g_func"}

-----------------------------------------------------------------------------
(* visit: any other statement is kept where it is.                         *)
Keep ==
  /\ Resolving /\ More /\ Stmt.k # "import"
  /\ out' = Append(out, [of |-> Top.of, at |-> Top.next])
  /\ stack' = Advanced
  /\ UNCHANGED <<state, visited, read, Outside>>

(* A path that is being expanded is a cycle.                               *)
Cycle ==
  /\ Importing /\ Path \in Active
  /\ Refuse
  /\ UNCHANGED <<stack, visited, read, out, Outside>>

(* Mutant: a path that is being expanded counts as expanded.               *)
AgainActive ==
  /\ Importing /\ Path \in visited
  /\ stack' = Advanced
  /\ UNCHANGED <<state, visited, read, out, Outside>>

(* A path that was expanded before adds nothing.                           *)
Again ==
  /\ Importing /\ Path \notin Active /\ Path \in visited
  /\ stack' = Advanced
  /\ UNCHANGED <<state, visited, read, out, Outside>>

New == Importing /\ Path \notin Active /\ Path \notin visited
Full ==
  /\ New /\ Cardinality(visited) >= MaxModules
  /\ Refuse
  /\ UNCHANGED <<stack, visited, read, out, Outside>>

(* No such file, a link on the way, too long, not text, not a program.     *)
Unreadable ==
  /\ New /\ Cardinality(visited) < MaxModules /\ Path \notin DOMAIN Source
  /\ visited' = visited \union {Path}
  /\ Refuse
  /\ UNCHANGED <<stack, read, out, Outside>>

(* The library is read and, if it is one, expanded.                        *)
Enter ==
  /\ New /\ Cardinality(visited) < MaxModules /\ Path \in DOMAIN Source
  /\ visited' = visited \union {Path}
  /\ read' = Put(read, Path, Source[Path])
  /\ \/ Library(Source[Path]) /\ stack' = Append(Advanced, Call(Path, Source[Path])) /\ UNCHANGED state
     \/ ~Library(Source[Path]) /\ Refuse /\ UNCHANGED stack
  /\ UNCHANGED <<out, Outside>>

Leave ==
  /\ Resolving /\ ~More /\ Len(stack) > 1
  /\ stack' = Front(stack)
  /\ UNCHANGED <<state, visited, read, out, Outside>>

-----------------------------------------------------------------------------
TextOf(program, of, libraries) == IF of = Root THEN program ELSE libraries[of]
(* resolve_with: no function twice, whichever library it came from.        *)
FunctionAt(n) == TextOf(main, out[n].of, read)[out[n].at]
NamedOnce ==
  \A m, n \in DOMAIN out : FunctionAt(m).k = "g_func" /\ FunctionAt(n).k = "g_func" /\ FunctionAt(m).f = FunctionAt(n).f => m = n

(* The program is resolved; its imports are the libraries that were read.  *)
Finish ==
  /\ state = "resolving" /\ ~More /\ Len(stack) = 1
  /\ \/ NamedOnce /\ state' = "resolved" /\ entries' = read /\ first' = [imports |-> read, out |-> out]
     \/ ~NamedOnce /\ Refuse /\ UNCHANGED <<entries, first>>
  /\ UNCHANGED <<main, disk, changes, stack, visited, read, out, objects>>

(* preserve: one object for each content, named by it.                     *)
Preserve ==
  /\ state = "resolved"
  /\ state' = "kept" /\ objects' = {entries[p] : p \in DOMAIN entries}
  /\ UNCHANGED <<main, disk, changes, stack, visited, read, out, entries, first>>

(* unchanged, at the end of a paranoid run.                                *)
Unchanged == \A p \in DOMAIN first.imports : p \in DOMAIN disk /\ disk[p] = first.imports[p]

(* verify_preserved: every entry's object is there and is what the entry   *)
(* says.                                                                   *)
ObjectsThere == \A p \in DOMAIN entries : entries[p] \in objects
Verify ==
  /\ state = "kept"
  /\ IF Cardinality(DOMAIN entries) <= MaxModules /\ ObjectsThere THEN state' = "verifying" ELSE state' = "rejected"
  /\ stack' = <<Call(Root, main)>> /\ visited' = {} /\ read' = << >> /\ out' = << >>
  /\ UNCHANGED Outside

(* Mutant: the program is resolved from the entries, whichever it reads.   *)
ConfirmAny ==
  /\ state = "verifying" /\ ~More /\ Len(stack) = 1
  /\ state' = IF NamedOnce THEN "verified" ELSE "rejected"
  /\ UNCHANGED <<stack, visited, read, out, Outside>>

(* The program resolved from the entries has read exactly the entries.     *)
Confirm ==
  /\ state = "verifying" /\ ~More /\ Len(stack) = 1
  /\ state' = IF NamedOnce /\ read = entries THEN "verified" ELSE "rejected"
  /\ UNCHANGED <<stack, visited, read, out, Outside>>

-----------------------------------------------------------------------------
(* The user's editor, at any time; files are also made and deleted.        *)
Edit ==
  /\ state \in {"resolving", "resolved", "kept"} /\ changes < MaxChanges /\ changes' = changes + 1
  /\ \/ \E p \in Paths, t \in Texts : disk' = Put(disk, p, t)
     \/ \E p \in DOMAIN disk : disk' = Cut(disk, p)
  /\ UNCHANGED <<main, state, stack, visited, read, out, entries, objects, first>>

(* The run directory: an object is lost, an entry left out or written.     *)
Damage ==
  /\ state = "kept" /\ changes < MaxChanges /\ changes' = changes + 1
  /\ \/ \E o \in objects : objects' = objects \ {o} /\ UNCHANGED entries
     \/ \E p \in DOMAIN entries : entries' = Cut(entries, p) /\ UNCHANGED objects
     \/ \E p \in Paths, t \in Texts : entries' = Put(entries, p, t) /\ objects' = objects \union {t}
  /\ UNCHANGED <<main, disk, state, stack, visited, read, out, first>>

Init ==
  /\ main \in Programs /\ disk \in Projects /\ changes = 0
  /\ state = "resolving" /\ stack = <<Call(Root, main)>> /\ visited = {} /\ read = << >> /\ out = << >>
  /\ entries = << >> /\ objects = {} /\ first = [imports |-> << >>, out |-> << >>]

Next ==
  \/ Keep \/ Cycle \/ Again \/ Full \/ Unreadable \/ Enter \/ Leave \/ Finish
  \/ Preserve \/ Verify \/ Confirm
  \/ Edit \/ Damage

Spec == Init /\ [][Next]_vars

-----------------------------------------------------------------------------
(* What the imports of a program mean, without an order of visits: the     *)
(* least set of paths that has those of the program and, with a library,   *)
(* those of the library.                                                   *)
Targets(text, of) == {Beside(of, text[i]) : i \in {j \in DOMAIN text : text[j].k = "import"}}
Closed(X, libraries) == \A p \in X \intersect DOMAIN libraries : Targets(libraries[p], p) \subseteq X
Reached(from, libraries) ==
  LET all == from \union UNION {Targets(libraries[p], p) : p \in DOMAIN libraries}
  IN {p \in all : \A X \in SUBSET all : from \subseteq X /\ Closed(X, libraries) => p \in X}
ReachedFrom(program, libraries) == Reached(Targets(program, Root), libraries)

Places(program, P, libraries) == {[of |-> p, at |-> i] : p \in P, i \in UNION {DOMAIN TextOf(program, q, libraries) : q \in P}}
Kept(program, libraries) ==
  {x \in Places(program, ReachedFrom(program, libraries) \union {Root}, libraries) :
     x.at \in DOMAIN TextOf(program, x.of, libraries) /\ TextOf(program, x.of, libraries)[x.at].k # "import"}
DefinedOnce(program, libraries) ==
  \A x, y \in Kept(program, libraries) :
    LET s == TextOf(program, x.of, libraries)[x.at]
        t == TextOf(program, y.of, libraries)[y.at]
    IN s.k = "g_func" /\ t.k = "g_func" /\ s.f = t.f => x = y

(* A program can be resolved from libraries when those it reaches are      *)
(* there and are libraries, no more than the bound, none reaches itself,   *)
(* and no function has two definitions.                                    *)
Resolvable(program, libraries) ==
  /\ ReachedFrom(program, libraries) \subseteq DOMAIN libraries /\ Cardinality(ReachedFrom(program, libraries)) <= MaxModules
  /\ \A p \in ReachedFrom(program, libraries) :
       Library(libraries[p]) /\ p \notin Reached(Targets(libraries[p], p), libraries)
  /\ DefinedOnce(program, libraries)
Exactly(program, libraries) == Resolvable(program, libraries) /\ ReachedFrom(program, libraries) = DOMAIN libraries
EachOnce(seq, S) == (\A m, n \in DOMAIN seq : seq[m] = seq[n] => m = n) /\ ToSet(seq) = S

(* A run resolves what can be resolved of the files as it read them, one   *)
(* by one, and refuses what cannot; the program then has every statement   *)
(* once.  If the files are unchanged at the end, it is their program.      *)
ResolvesAsReachable ==
  /\ state = "refused" => ~Resolvable(main, read)
  /\ state = "resolved" => Exactly(main, first.imports) /\ EachOnce(first.out, Kept(main, first.imports))
  /\ state \in {"resolved", "kept"} /\ Unchanged => Resolvable(main, disk) /\ ReachedFrom(main, disk) = DOMAIN first.imports

(* The evidence verifies exactly if its objects are there and its entries  *)
(* are what the program reaches in them.  Untouched evidence does, as the  *)
(* same program in the same order, and entries that agree with those of    *)
(* the run, but are more or fewer, do not.                                 *)
EvidenceIsTheProgram ==
  /\ state = "verified" => /\ ObjectsThere /\ Exactly(main, entries) /\ EachOnce(out, Kept(main, entries))
                           /\ (\A p \in DOMAIN entries \intersect DOMAIN first.imports : entries[p] = first.imports[p]) =>
                                entries = first.imports /\ out = first.out
  /\ state = "rejected" => ~(ObjectsThere /\ Exactly(main, entries))
                           /\ (entries # first.imports \/ ~ObjectsThere)
=============================================================================
