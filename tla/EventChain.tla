----------------------------- MODULE EventChain -----------------------------
(***************************************************************************)
(* What the custody ledger of src/src/ledger.rs promises its callers,      *)
(* without files, locks or checkpoints: one hash chain of events that only *)
(* grows, and a set of events whose append was answered with Ok.  An event *)
(* can be in the chain before it is acknowledged, and stays there for ever *)
(* even if it never is (the writer failed after the event was durable).    *)
(***************************************************************************)
EXTENDS Naturals, Sequences, SequencesExt

CONSTANT Payloads       \* what an event says: type, subject and payload

VARIABLES
  chain,                \* the durable events, in order
  acked                 \* events whose append() returned Ok

(* The digest of an event's core (event_hash): injective in the sealed     *)
(* fields, so two events share a digest only if they are equal.            *)
NoHash == <<"none">>
EventHash(sequence, previous, payload) == <<"sha256", sequence, previous, payload>>

Seal(sequence, previous, payload) ==
  [sequence |-> sequence, previous |-> previous, payload |-> payload,
   sha256 |-> EventHash(sequence, previous, payload)]

HashOf(events) == IF events = << >> THEN NoHash ELSE events[Len(events)].sha256

NextEvent(events, payload) == Seal(Len(events) + 1, HashOf(events), payload)

(* The event checks of audit(): sequence, link to the previous event and   *)
(* the event's own seal, for every line.                                   *)
Linked(events) ==
  \A i \in DOMAIN events :
    events[i] = Seal(i, IF i = 1 THEN NoHash ELSE events[i - 1].sha256, events[i].payload)

-----------------------------------------------------------------------------
Init == chain = << >> /\ acked = {}

Extend(payload) ==
  /\ chain' = Append(chain, NextEvent(chain, payload))
  /\ UNCHANGED acked

Acknowledge(event) ==
  /\ acked' = acked \union {event}
  /\ UNCHANGED chain

Next ==
  \/ \E payload \in Payloads : Extend(payload)
  \/ \E event \in ToSet(chain) : Acknowledge(event)

Spec == Init /\ [][Next]_<<chain, acked>>
=============================================================================
