---------------------------- MODULE LineageChain ----------------------------
(***************************************************************************)
(* The walk of lineage_chain (src/src/custody.rs) from a source to the     *)
(* root of its revisions, bounded by a number of generations.  Any file    *)
(* may be the parent that a lineage receipt names, so the receipts may     *)
(* form a cycle, and each of them may be damaged.                          *)
(***************************************************************************)
EXTENDS Naturals, Sequences, FiniteSets

CONSTANTS
  Sources,
  None,
  MaxGenerations  \* 256 in the code

LineageConstants == MaxGenerations \in Nat \ {0} /\ None \notin Sources

VARIABLES
  parent,         \* the parent named by each lineage receipt; None: no receipt
  damaged,        \* the sources whose lineage receipt does not verify
  walk,           \* the nodes visited, from the source on
  result          \* "walking", "chain", or the error

vars == <<parent, damaged, walk, result>>
Current == walk[Len(walk)]

Init ==
  /\ parent \in [Sources -> Sources \union {None}]
  /\ damaged \in SUBSET {s \in Sources : parent[s] # None}
  /\ walk \in {<<s>> : s \in Sources}
  /\ result = "walking"

(* The next generation is visited.                                         *)
Visit ==
  /\ result = "walking" /\ parent[Current] # None /\ Current \notin damaged
  /\ Len(walk) < MaxGenerations
  /\ walk' = Append(walk, parent[Current])
  /\ UNCHANGED <<parent, damaged, result>>

(* "Lineage receipt seal mismatch"                                         *)
RefuseDamaged ==
  /\ result = "walking" /\ Current \in damaged
  /\ result' = "damaged"
  /\ UNCHANGED <<parent, damaged, walk>>

(* Mutant: the loop ran out of generations and its nodes are returned.     *)
EndWithoutBound ==
  /\ result = "walking" /\ Current \notin damaged
  /\ parent[Current] = None \/ Len(walk) = MaxGenerations
  /\ result' = "chain"
  /\ UNCHANGED <<parent, damaged, walk>>

(* The root ends the walk, and so does the bound; then the length alone    *)
(* decides: "Lineage exceeds 256 generations or contains a cycle."         *)
End ==
  /\ result = "walking" /\ Current \notin damaged
  /\ parent[Current] = None \/ Len(walk) = MaxGenerations
  /\ result' = IF Len(walk) = MaxGenerations THEN "too long" ELSE "chain"
  /\ UNCHANGED <<parent, damaged, walk>>

Next == Visit \/ RefuseDamaged \/ End
Spec == Init /\ [][Next]_vars

-----------------------------------------------------------------------------
(* Every variable stays in its domain.                                     *)
TypeOK ==
  /\ parent \in [Sources -> Sources \union {None}] /\ damaged \subseteq Sources
  /\ Len(walk) \in 1..MaxGenerations /\ \A i \in DOMAIN walk : walk[i] \in Sources
  /\ result \in {"walking", "chain", "damaged", "too long"}

(* A chain that is returned is the whole ancestry of the source: each node *)
(* names the next by an intact receipt, the last is a root, and no node    *)
(* occurs twice.                                                           *)
ChainIsAncestry ==
  result = "chain" =>
    /\ parent[Current] = None
    /\ \A i \in 1..(Len(walk) - 1) : walk[i] \notin damaged /\ parent[walk[i]] = walk[i + 1]
    /\ \A i, j \in DOMAIN walk : walk[i] = walk[j] => i = j
=============================================================================
